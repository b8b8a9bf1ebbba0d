# Dark Factory in TLA+

Dark Factory improves a coding agent by experiment: a *champion* revision of the
agent is measured on a panel of benchmark tasks, an optimizer proposes a
*candidate*, the candidate is measured on the same panel, and the winner becomes
the next champion. The repository does this twice: on one machine
(`src/src/local`) and in the cloud, where an autonomous controller works through
a campaign with a trusted evaluator, an evidence store and stores on a mounted
volume. This directory models the control of both, checks it with TLC and proves
its central safety properties with TLAPS.

All line numbers refer to the repository under `src/`. `PROJECT.json` maps every
definition to the lines it translates.

## 1. The system

### The local system

| component | state it keeps | operations | module |
|---|---|---|---|
| **runner**, `local/real/runner.ts` | per campaign: `runner-state.json` (status, stop reason, champion, next and active experiment, phase, retained panel, saturation history, cost ledger, counters); per experiment: write-once artifacts (`champion-before`, panel attempts, reused and accepted panel, optimizer, candidate, evaluation, decision, publication, receipt) | `runLocalRealCampaign`: loop, `runOneExperiment`, `preparePanel`, `accountCost`, `finalizePersistedExperiment` | `LocalRunner` |
| **state and lock**, `local/real/state.ts` | the files' atomic replacement, `.runner.lock/owner.json`, `stop-request.json` | acquire, judge stale, reclaim, release; request, read and clear a stop | `RunnerLock`; the files as single steps of `LocalRunner` |
| **watchdog**, `local/real/watchdog.ts` | its managed child, whether it has observed a live runner | inspect (state; then lock and stop request), launch, wait, give up | `Supervision` |
| **dashboard supervisor**, `local/dashboard/supervisor.ts` | `.launch.lock` | start and stop a campaign for the web console | `Supervision` |
| **command line**, `local/cli.ts` | none | `real run`, `real resume`, `real stop`, `real watchdog` | `Supervision` |
| **Git publication**, `local/real/git-publication.ts` | two remote refs, a local ref, `publication-intent.json` | commit, persist the intent, list, atomic push, list, update the local ref | `GitPublication`; seen from the runner, `PushChampion` and `RecordPublication` |
| **panel policy**, `local/real/panel.ts` | none of its own | select a panel, assess a champion's arm | `ComparisonGate` (assessment), `LocalRunner` (what selection depends on) |
| **decision**, `local/real/decision.ts` | none | compare two arms: promote, reject or inconclusive | `ComparisonGate` |
| **native adapter**, `native-adapter.ts`, `process.ts` | optimizer attempts, worktrees, job directories, child processes | resolve, optimize, build, evaluate, publish | only as the receipts the runner sees |
| **catalog, configuration; dashboard repository, readiness, web application** | operator input; read-only projections | parse, validate, render | not modelled: no state changes |

The runner calls panel, decision, adapter and publication in process, one after
the other. Everything else meets it only in files: the dashboard and the command
line leave a stop request, and the watchdog reads state, lock and stop request in
three separate reads. There is one runner process at a time if the lock does its
work, and as many watchers, requests and commands as the operator likes. Git's
remote and its other users are the only actors outside the machine.

### The cloud system

| component | state it keeps | operations | module |
|---|---|---|---|
| **campaign store**, `campaign/store.ts`, `invariants.ts` | the chain of campaign states, `.recovery.lock` | allocate, record usage, seal, archive, pause, stop, resume, extend, replenish, checkpoint, recover the lock; every read validates the whole history | `CampaignStore` |
| **autonomous loop and coordinator**, `orchestrator/autonomous-loop.ts`, `campaign-state-coordinator.ts`, `production-completion-material.ts` | the state it read last; the record of an interruption | claim, run, complete, interrupt, recover | `OptimizationLoop`, with `CoordinationPorts` |
| **experiment runner**, `orchestrator/experiment-runner.ts` | the lease it holds, the phase it is in | the phases of one experiment, and the catch block | `ExperimentRun` |
| **experiment journal**, `orchestrator/experiment-journal.ts` | entries with their receipts, one pending claim, the head of the seals | claim, event, commit for each of some fifteen operations; interrupt, seal | `ExperimentJournal` |
| **evidence store**, `evidence/store.ts`, `atomic.ts` | per experiment: events, artifacts, attestation; lock files | allocate, append, put, seal | `EvidenceStore` |
| **blind broker**, `orchestrator/blind-broker.ts` | one-use leases | prepare, claim, bind, record, fail, dispose, release | `BlindBroker` |
| **trusted evaluation broker**, `broker/service.ts`, `ledger.ts` | the one-use claim of a request | `evaluate`, its catch block, and the takeover of a dead predecessor's claim | `TrustedEvaluation`, `OneUseLedger` |
| **release stores**, `evaluator/release-recovery-store.ts`, `behavioral-release-producer.ts`, `cloud/mounted-volume-*` | recovery record, preparation, bundle with its privacy debit | prepare, transition, finalize, orphan, abandon, consume | `ReleaseStores` |
| **mounted-volume store**, `cloud/mounted-volume-state.ts` | `locks/<namespace>`, `fence-<namespace>.json`, the state envelope | acquire, recover, fence, transact, close | `MountedVolume` |

How they interact. The loop allocates an experiment in the campaign store, runs
it, and seals or archives it there. The run itself writes to journal, evidence
and broker; what the journal says in the end is what the loop takes into the
campaign. The broker's leases are evaluated by the trusted evaluator, a service
with controllers of its own, of which a successor may take over when its
predecessor is proved terminated. All the cloud's private stores are documents of
the mounted-volume store, each call one transaction. An operator uses the campaign
store beside the loop.

### The rest of the repository

| directory | state and operations | status |
|---|---|---|
| `campaign/reconstruction.ts`, `registration-store.ts` | a read-only rebuild; one write-once registration | not modelled |
| `core/` | validators and pure transition helpers | not modelled: the store's own invariants are |
| `evaluation/` | in-memory ledgers of one call, gates, statistics | not modelled; the statistics are floating-point numerics |
| `broker/catalog.ts`, `issuer.ts` | hidden catalog (data and signatures), signing | not modelled |
| `mvp/` | the state file of an earlier version | not modelled |
| `harness/`, `optimizer/` | cloud Git registration and publication, session workers | not modelled: process and protocol adapters |
| `mcp/`, `terminal-bench/`, `synthetic/`, `feedback/`, `full-eval/`, `schemas/`, `config/`, `integrity/` | none, or test doubles | not modelled: pure functions |

Most of the repository's lines check and convert documents: a store of two
thousand lines keeps a handful of fields that decide what happens next. The map
therefore covers a small share of all lines, while the stateful control of the two
systems is mostly modelled.

### What is hard

* **Crash and restart.** The local runner writes a dozen files per experiment and
  can die between any two of them; a successor must replay what was paid for,
  charge it once, and neither lose nor repeat a publication. In the cloud the same
  experiment is written to campaign store, journal, evidence and leases, which no
  transaction spans: every crash leaves a different prefix, and each store has its
  own rule for a call that is repeated.
* **Ordering.** Paid local jobs are recovered by name alone. An interruption of the
  cloud loop is five durable steps and must go on where it stopped. A release is
  committed, entered and named in a result in three stores.
* **Lost and late messages.** A push whose answer is lost has or has not moved the
  refs; `complete` of the one-use ledger may have committed although it threw.
* **Interleaving.** Lock reclaim on the local machine is an `lstat` of the directory,
  one of `owner.json`, a read, a `kill(pid, 0)` and a `rename` of whatever has the
  name by then; on the volume it is two renames and a fence read before either. The
  watchdog reads three files that a runner is changing. An operator changes a campaign
  the loop is working on.
* **Progress.** A stop request must be honoured; a dead runner replaced; a pushed
  champion installed; an interruption applied; a dead controller's claim settled
  and its lock reclaimed.
* **Boundaries.** The cost limit is compared with a ledger that lags behind the
  receipts after a crash. The saturation bound and the promotion rule are in two
  files, and do not agree on which panels are worth an experiment.

`PROJECT.json` lists them as `hazards`, each at the line where it bites, with the
properties against it or the reason why there is none.

## 2. The modules

| module | what it is |
|---|---|
| `Campaign` | abstract: what a local campaign promises |
| `LocalRunner`, `MCLocalRunner` | the local runner; implements `Campaign` |
| `RunnerLock`, `MCRunnerLock` | the local lock, one file-system call per action |
| `Supervision`, `MCSupervision` | command line, watchdog and dashboard around runners |
| `GitPublication`, `MCGitPublication` | the publication of one champion, one Git command per action |
| `ComparisonGate`, `MCComparisonGate` | assessment and comparison, exact over 0/1 rewards |
| `ExperimentLedger` | abstract: what a cloud campaign promises of its experiments |
| `CampaignStore`, `CoordinationPorts` | the stores of the loop |
| `JournalOutcome` | abstract: what the journal promises to the campaign |
| `OptimizationLoop`, `MCOptimizationLoop` | the loop, composed of the two stores and `JournalOutcome`; implements `ExperimentLedger` |
| `Experiments` | parameters of the next three |
| `ExperimentJournal`, `EvidenceStore`, `BlindBroker` | the stores of one experiment's run |
| `ExperimentRun`, `MCExperimentRun` | the run, composed of the three; implements `JournalOutcome` |
| `OneUseRequest` | abstract: what the evaluator promises of a request |
| `OneUseLedger`, `ReleaseStores` | the evaluator's stores |
| `TrustedEvaluation`, `MCTrustedEvaluation` | the evaluation and its takeover, composed of both; implements `OneUseRequest` |
| `AtomicStore` | abstract: one linearizable document |
| `MountedVolume`, `MCMountedVolume` | lock, fence and transaction of a mounted-volume store; implements `AtomicStore` |
| `*_proofs` | theorems and their proofs, one module for a component |

Each level takes what lies below it for its promise. `LocalRunner` takes the lock
as held and the push as two actions; `RunnerLock` and `GitPublication` open them.
`OptimizationLoop` takes an experiment's run for `JournalOutcome`, which
`ExperimentRun` implements. `CoordinationPorts`, `ReleaseStores` and
`OneUseLedger` take a transaction for a step, which is what `MountedVolume`
implements. `MC` modules hold what only TLC needs. An operator whose name has an
underscore (`Later_Ignored`) is a deliberately wrong variant of the definition
below it: put in its place, it must make a property fail, which shows that the
property can.

### LocalRunner

An action is the code between two durable writes; a crash may fall between any
two. `st` is `runner-state.json`, `catalog` is the screens applied to
`catalog.json`, `stopReq` the stop request, `art[x]` the directory of experiment
`x`, `jobs` the receipts of the adapter's finished paid work, `remote` the commits
the champion ref has shown. `pc` and `mem` are the process: both are lost in a
crash, everything else is not.

| actions | code in runner.ts |
|---|---|
| `Start`, `Begin`, `LoopStops`, `OpenExperiment`, `Finish` | `runLocalRealCampaign` and how an invocation ends |
| `RecordExperiment`, `SetPhase`, `Boundary` | `runOneExperiment` and its phase boundaries |
| `ReplayReuse`, `ReplayAccepted`, `ReuseRetained` | `preparePanel`: a panel already chosen or retained |
| `EnterScreening` ... `PanelAccepted` | `preparePanel`: chain validation, screening, reconciliation of history and catalog |
| `OptimizerRuns` ... `AccountEvaluation` | optimizer, validation and candidate evaluation, each as *job runs*, *job fails or is cancelled*, *result recorded*, *cost charged* |
| `Decide` ... `Finalize` | decision, publication, receipt, `finalizePersistedExperiment` |
| `RequestStop`, `Crash`, `PublicationFails`, ... | operator and environment |

A paid job is a step of its own (`RunJob`) between the intent and the artifact, so
a crash can fall after the money is spent and before the runner knows. An artifact
is written once: each action that writes one is guarded by its absence, as the
code's read-before-write is. The documents' digests are not modelled; that two of
them agree is equality of the records. A selection is the record of everything the
weighted draw depends on, since the draw is a deterministic function of exactly
these. All failures of one operation share one action, with the reason the code
records.

### RunnerLock, Supervision, GitPublication, ComparisonGate

In `RunnerLock`, `lock` is the directory `.runner.lock`: who made it, who created the
`owner.json` in it, whether the pid is `written` there, whether an entry of it last
changed thirty seconds ago (`aged`) and whether it is older than the boot. An action
is one file-system call. Judging a lock is four of them, `StatLock`, `LookForOwner`,
`ReadOwner` and `ProbeOwner`, before the `Quarantine` that renames; the recursive `rm`
is two. Between any two the directory may have gone, or another may have taken its
name: rename, create and rm act on what has the name when they come. A runner is known
by its pid. After its death the pid may go to an unrelated process (`Reuse`), or to a
new runner of the same campaign (`BeginNamed`). Three variables are history: `current`
(whose directory, the one made or looked at last, is still in place), `displaced` (a
rename or an rm has hit another directory) and `paused` (thirty seconds passed between
a runner's `mkdir` and the pid in its `owner.json`). `Undisturbed` is that neither of
the last two has happened.

A runner of `Supervision` is its lock, status and reaction to a stop request. The
watchdog's `inspect` is three reads. A dashboard request walks through `CheckLive`,
`CheckOthers`, `TakeLaunchLock`, `ClearStop`, `SpawnRunner` and `AwaitRunner`, or
`RecordStop` and `ReportStop`.

In `GitPublication` five commits stand for the history: `base <- parent <-
candidate <- child`, with `sibling` beside the candidate. A push is atomic and must
fast-forward both refs. It is answered; applied with its answer lost; lost; or timed
out, to be applied later or never (`inFlight`). Somebody else may push in between.

An arm of `ComparisonGate` is the number of rewarded runs, of three, for each of
five tasks. The code's thresholds on floating-point means (0.95, 0.05, 0.01) become
integer inequalities; none is met with equality by such an arm, so rounding decides
nothing. The sign test is exact integer arithmetic in both.

### CampaignStore, CoordinationPorts, OptimizationLoop

`states` is the chain of immutable state files; a content hash is the position of a
state, and an attestation, an authorization or a ledger pointer is a token. An
operation of the store is a condition (`MayAllocate`) and the state it appends
(`Allocated`); `CanSwap` is the compare and swap on the hash the caller holds.
`ValidHistory` is `validateHistory` with all the sections of
`assertCampaignStateTransition`; it is deliberately not a guard of the operations,
so that `HistoryReadable` can ask whether one of them accepts what the next read
refuses. `lock` is free or abandoned by a dead process.

`interruptions[n]` is the coordination store's record: class, archive, control,
final state. The process of `OptimizationLoop` is at `pc` and holds `cur`, the
position it last read; `Load` and `Recovery` are what a restarted command does,
`Claim` to `SealAck` the loop's body, `Interrupt` to `MarkApplied` the five steps of
an interruption. The operator's actions are the store's other operations.

### ExperimentJournal, EvidenceStore, BlindBroker, ExperimentRun

`entries[n].done` is the sequence of the journal's receipts, `pending` the claim of
an operation that has no receipt yet, `head` the last seal. `evidence[n]` is the
directory of an experiment: its events and its attestation; `leftLocks` are lock
files of dead processes. A lease has a status, an outcome and, for the validation,
a diagnostic. `pc` is the next durable step with its subject: a journal operation
is `<<"begin", op>>`, `<<"event", op>>`, `<<"commit", op>>`; `After` gives the order
of the phases, and the catch block is `Catch`, the quarantine of the lease it
`holds`, `Interrupt` and its event. A call fails before its effect (`CallFails`, in the
catch block `HandlerFails`) or after it, because its transaction committed and its
answer was lost (`AnswerLost`, `HandlerAnswerLost`). After a crash the run starts over
and each step finds out what is there already.

### OneUseLedger, ReleaseStores, TrustedEvaluation

`claim` is the one record of a request, whose token is named by the epoch that
counts takeovers; `record`, `preparation` and `bundle` are the private stores. Every
store call of `evaluate`, of its catch block and of the recovery is an action, and
each has three ends: done, failed and not done, failed and done. `terminated` are
the controllers proved dead to the recovery authority.

### MountedVolume

`disk` is what is on the volume: the lock, the released and quarantined ones, the
recovery authorizations, the fence and the envelope. An envelope is bound by its
hashes to all that precede it, so it is the sequence of its writers' locks. An
action is one rename or one read; a write may fail before or after its effect. The
lock, the fence and the state file are three files, so a controller can be destroyed,
or overtaken, between any two. `answered` is history: what the last successful
caller was told. The recovery authority attests of a lock's owner that its sandbox
is gone for good, and of no other; the four-attempt limit of `acquireLock` is left
out, as it takes four dead predecessors to meet it.

## 3. What the runs check

`expect: pass`: TLC explores the whole bounded state space.

| run | properties | what they show |
|---|---|---|
| `runner_crash` | `ReplayConsistent`, `SelectionReplayed`, `EvidenceChargedOnce`, `PublishedBeforeInstalled`, `ScreensCountedOnce`, `NoPaidWorkOverBudget`, `KeepsPromise`, `StopHonoured`, `PublishedIsInstalled` | whatever the crash point, a successor finds no contradiction on disk, selects the panel that was paid for, charges each receipt once, applies each screen once to history and catalog, and installs only published champions; no paid job starts once the *receipts on disk* reach the limit, the ones the ledger lags behind included; a stop request ends the invocation, or a resume discards it, and a champion on the remote is installed in the end, unless the limit is reached |
| `lock_faults` | `MutualExclusion`, `HolderNamed`, `StaleLockReclaimed` | with three runners, and crashes, pauses, reboots and reused pids, one holder, named on disk, for as long as the history is `Undisturbed`; in every history, a lock left behind is reclaimed unless its pid is in use again (`Kept`) |
| `supervision_watchdog` | `StopSettles`, `Replaced` | a stop request ends the runners and the watchdog, however its three reads fall, until a start or resume discards it; a dead runner is replaced |
| `publication` | `RecordedAfterLanding`, `Completes` | nothing is recorded before it was on the remote, and a publication nobody interferes with completes |
| `gate_exact` | `GateMonotone`, `BinomialExact` | over every pair of arms: one more reward never hurts, and the sign test is exact |
| `loop_recovery` | `HistoryReadable`, `RecordsAgree`, `SpendNotLost`, `InterruptionFirst`, `KeepsLedger`, `RecoverableApplied` | no accepted operation makes the history unreadable; campaign and journal agree on outcome, champion and spend; nothing is claimed while an interruption waits, and one that can be accounted for is applied; the loop implements `ExperimentLedger` |
| `journal` | `JournalReadable`, `WriteAhead`, `LineageAgrees`, `ReleaseCharged`, `OneUse`, `KeepsPromise`, `Settles` | receipts and events are in step but for the claimed operation; seals and attestations agree, and an attestation is never given up; a released brief is charged when its experiment is sealed; a started lease is never prepared again; the run implements `JournalOutcome`, and experiments and claims are settled but for one that was given up in a case `LeftOpen` names; calls fail before or after their effect |
| `one_use` | `StoresAgree`, `NothingReleasable`, `KeepsPromise`, `Settles` | ledger, record, preparation and bundle tell one story at every point of a takeover (a consumed claim leaves nothing to release, a completed one that names a release has its preparation finalized); the hidden tasks run once and the request ends once (`OneUseRequest`); a retry settles the claim of a terminated owner |
| `volume` | `HeadWithinReach`, `KeepsPromise`, `Reclaimed` | the owner of the lock can go on from what it finds but for three named cases; the store implements `AtomicStore` in all cases, so no answered transaction is ever lost; the lock of a destroyed controller is reclaimed |

`expect: violation`: the code does something other than its documentation says.
Each is a finding in `PROJECT.json`.

| run | what happens |
|---|---|
| `runner_reuse` | A panel is retained after a non-promotion. After a second one the third experiment refuses it, because the second did not evaluate the panel itself (runner.ts:842), and the campaign blocks. No fault is involved. |
| `one_use_visible` | The write of an issued result commits and its answer is lost. The catch block takes the release back (service.ts:1935), and the controller dies before it abandons the preparation (1950). Its successor looks at the preparation alone, finds it finalized (819), and completes the claim with the recorded result, which names a release that is gone; PLAN.md:868 has the two writes as one, "so recovery cannot reissue an invisible release". Two controllers, two faults. |
| `volume_fence` | Controller *b* reads the fence (mounted-volume-state.ts:887) and waits; *a* acquires, commits, answers and closes; *b* renames its lock into place and writes a fence made from its old reading (953). The fence no longer retains the last committed generation (documentation.md:2464), and the epoch is used twice. One commit can still be adopted in some cases, after two the store is out of service. No fault is involved. |

### What else came up

These effects are reached by the models. They are conditions of properties above,
or hazards without one, because no property of the code excludes them.

Local system:

* The local lock does not exclude two runners. Without any fault: *b* finds *a* as
  the owner (state.ts:266), *a* releases and ends, *c* takes the lock, *b*'s
  `kill` of *a* finds nobody (293) and *b* renames *c*'s lock away (216). Of two
  contenders that find the same stale lock, the slower renames the one the faster
  has made since. The `rm` of a release goes by the name too. After any of these two
  runners can run, and the one whose lock is gone does not find out.
* A thirty-second pause between `mkdir` and the pid in `owner.json` lets a contender
  reclaim the directory; the paused runner's clean-up then removes the contender's
  lock (state.ts:240). `MutualExclusion` and `HolderNamed` are therefore claimed
  until a rename or an rm has hit another directory, or such a pause has happened
  (`Undisturbed`). If the holder releases between a contender's `mkdir` and its
  `lstat`, the contender fails (state.ts:259).
* A pid that is in use again within the boot keeps its old lock for as long as it is
  (`Kept`, state.ts:293). After a reboot acquisition looks at the boot time, `inspect`
  does not (state.ts:370).
* With a cost limit, a restarted runner stops at the top of the loop before it
  installs a champion its predecessor has pushed (runner.ts:150);
  `PublishedIsInstalled` excepts it (`BudgetExhausted`).
* The watchdog may launch a runner for a campaign that blocked between two of its
  reads (watchdog.ts:187). A dashboard start that passed its live check clears a
  stop request accepted in the meantime (supervisor.ts:42); two starts can each find
  no other campaign live (supervisor.ts:31); a child slower than five seconds takes
  the lock after its request has failed (supervisor.ts:94).
* If somebody pushes on top of a candidate after it landed and before it is
  recorded, every resume finds a conflict (git-publication.ts:450). `Completes` is
  claimed for a publication nobody pushes beside.
* LOCAL.md:189 and panel.ts:271 have a panel rejected when a task leaves no headroom,
  as nobody can be promoted on it. The code treats that bound as diagnostic only
  (panel.ts:324) and accepts such a panel, which its comment says can still be
  surpassed (panel.ts:321). Theorem `AcceptedNotPromotable` gives an accepted panel on
  which no candidate whatever is promoted; an experiment on it is paid for in vain.

Cloud system:

* An interruption of an experiment that the journal never opened, or has sealed,
  cannot be accounted for; one whose pause an operator has resumed before it was
  marked cannot be paused again. Either stays pending for ever and the campaign with
  it (`Recoverable`). A process that dies between `mkdir` and release of
  `.recovery.lock` leaves a guard no operation removes (store.ts:2029).
* A failure after a validation was evaluated and before it is disposed of is caught
  with the lease still held, and the quarantine of an evaluated lease is refused
  (blind-broker.ts:1904): the original error is lost, the journal is not told, and
  the panel is never consumed, although PLAN.md:2402 says that every decided panel
  is. A disposal (experiment-runner.ts:555) that committed and lost its answer is
  caught with the lease held, too, and the quarantine of a consumed lease is refused
  (blind-broker.ts:1660): the panel is consumed, and again the journal is not told.
* A seal whose event is the head of the evidence and whose attestation exists is
  refused by its own retry, so the experiment stays open; the comment at
  experiment-journal.ts:3147 says the retry completes it. Lock files of the evidence
  store are never reclaimed (atomic.ts:72). Nobody interrupts the journal after a
  crash and a stop (experiment-runner.ts:641). These and the two cases above
  are `LeftOpen`. An interruption repeated in another phase throws before its event
  (experiment-journal.ts:3140).
* After a crash between the commit of a release and its entry in the preparation,
  the takeover is answered that the release exists, and completes a result that does
  not name it (service.ts:920), against PLAN.md:882; no property excludes it, as
  `NothingReleasable` speaks of completed claims that name a release.
* A preparation abandoned while its record says *prepared* can never be recorded
  (`Unrecordable`, release-recovery-store.ts:686). A claim whose owner died before
  the record is in flight for good, and the shipped composition configures no
  recovery store (composition.ts:335), so that every crash leaves its claim so.
* On the volume, a recovery authorization is written and never read back: a
  recoverer that fails between the quarantine and its own fence, or is overtaken
  there, loses it, and its successor may not adopt the dead writer's envelope
  (`Unrecorded`). Nor may the successor of a writer that closed cleanly after its
  fence could not be advanced (`HandedOver`). In both the store refuses every
  transaction; it never loses one.

### Bounds, and why they are enough

* `runner_crash`: two experiments, two screens each, one fault, one stop request,
  window 2. Two experiments are the fewest in which a champion, a catalog, a
  history and a retained panel are carried over; two screens the fewest in which a
  selection depends on an earlier screen and a file can lag by one; the catalog
  then outgrows the window. One fault stops a runner anywhere, and the successor
  runs from what it left, including a successor that is stopped by the operator.
  A job costs nothing or one and the limit is one, so that it is met exactly, by a
  screen, an optimizer or an evaluation, and jobs that cost nothing go on below it.
  The theorem covers every cost and limit. `runner_reuse`: three experiments, the
  number it takes.
* `lock_faults`: three runners, an owner and two contenders for what it leaves, and
  two faults among crashes, pauses, reboots and reused pids. `MaxAttempts` is 1: but
  for the count, a runner that goes round the loop is where one that has just begun
  is.
* `supervision_watchdog`: two worker processes, one command, one watchdog, two
  dashboard requests after one another, one fault and one slow start. A stop can
  race a launch, and a replacement a command.
* `publication`: three faults and three foreign pushes; a late push, the crash of
  its publisher, and a foreign push between the two readings fit.
* `gate_exact`: complete for binary rewards. The champion's arms are those in
  ascending order (56), the candidate's are all 1,024: the gate does not tell
  tasks apart.
* `loop_recovery`: two experiments, one fault, two operator operations. One fault
  gives one interruption and its recovery, and the two operations meet it at any
  step: a stop and a resume, an extension or a checkpoint. Budgets of one unit are
  exhausted by one operation.
* `journal`: two experiments, one fault, and a stop; the second is repaired, the
  first cannot be, and the lineage of seals has two links.
* `one_use`: a first evaluator and two successors, three faults: a crash before, and
  two in, a takeover. One call at a time to a controller (`Lanes`).
* `one_use_visible`: a first evaluator, its successor and the two faults it takes.
* `volume`: three controllers, two commits, two faults. It takes three for a
  recoverer to be overtaken, and two commits for a successor to find an envelope
  ahead of a head that is not empty.

### Fairness

* `LocalRunner!FairSpec`: the runner process takes its next step (weak), and the
  operator or the watchdog resumes a campaign whose runner has ended (strong,
  because a resume is disabled while a runner runs). `Crash` and failing
  operations are bounded and never forced.
* `RunnerLock!FairSpec`: a process takes its next call, time passes, and a campaign
  is started again under some free pid (strong: a pid that is in use cannot begin).
  Crashes, pauses, reboots and reused pids are never forced, and neither is it that
  a process with a reused pid ends.
* `Supervision!FairSpec`: the watchdog polls, a request handler runs to its
  answer, and a runner reaches a boundary where it looks for a stop request.
  Finishing a campaign, blocking and crashing are never forced. That a boundary
  is reached is what `LocalRunner` gives, whose operations answer or fail.
* `GitPublication!FairSpec`: the publisher goes on and the operator resumes.
  `PushLands` is not fair: a timed-out push may never land.
* `OptimizationLoop!FairSpec`, `ExperimentRun!FairSpec`: the one process goes on,
  and the command is started again whenever it has ended, as the coordinator's
  recovery supposes. Operators and faults are never forced.
* `TrustedEvaluation!FairSpec`: every call runs on, and a caller that was told to
  retry does; that a terminated owner is found so by the authority is in
  `Recoverable`.
* `MountedVolume!FairSpec`: a controller that is not destroyed goes on: its awaits
  return, it opens the store again after a failure, and a sandbox that has ended is
  destroyed. Which operation a caller asks for is free.

Deadlock is checked in the `LocalRunner`, `RunnerLock` and `ExperimentRun` runs,
where a next step is always possible (a resume; a start; `Over` for a run beyond the
bound). `Supervision`, `OptimizationLoop`, `TrustedEvaluation` and `MountedVolume`
end when their bounded commands, operations, calls or controllers are used up,
`GitPublication` when the receipt is written, and `ComparisonGate` with a decision.

## 4. What is proved

TLAPS proves these for every value of the constants that satisfies the module's
assumptions (any number of experiments, retries, faults, requests, controllers).

| theorem | statement |
|---|---|
| `LocalRunner_proofs!InductiveInvariant` | `Spec => []Inductive` |
| `LocalRunner_proofs!TypeCorrect` | `Spec => []TypeOK` |
| `LocalRunner_proofs!ChampionPublishedFirst` | `Spec => []PublishedBeforeInstalled` |
| `LocalRunner_proofs!RunnerKeepsPromise` | `Spec => KeepsPromise`, that is, the runner implements `Campaign` |
| `LocalRunner_proofs!NeverTwoAhead` | the remote is at most one commit, the current experiment's, ahead of the champion |
| `LocalRunner_proofs!ReplayInductive` | `Spec => [](Inductive /\ Documented /\ Accounted /\ Replayed)` |
| `LocalRunner_proofs!EachJobChargedOnce`, `ScreensSelectedAgain`, `ReplayNeverContradicts` | `Spec => []EvidenceChargedOnce`, `Spec => []SelectionReplayed`, `Spec => []ReplayConsistent` |
| `LocalRunner_proofs!EachScreenCountedOnce`, `NothingPaidOverBudget` | `Spec => []ScreensCountedOnce`, `Spec => NoPaidWorkOverBudget` |
| `RunnerLock_proofs!TypeCorrect`, `ExclusiveUndisturbed`, `HolderNamedUndisturbed` | `Spec => []TypeOK`, `Spec => []MutualExclusion`, `Spec => []HolderNamed`, for any set of runners and any number of faults |
| `ComparisonGate_proofs!MoreRewardNeverHurts`, `TailsAreBinomial` | `Spec => []GateMonotone`, `Spec => []BinomialExact` |
| `ComparisonGate_proofs!HeadroomIsWhatPromotes` | a candidate could be promoted over a champion's arm exactly if every task has headroom, and then the aggregate bound holds |
| `ComparisonGate_proofs!AcceptedNotPromotable` | an arm is accepted on which no candidate could be promoted |
| `ComparisonGate_proofs!PromotionIsASweep` | a candidate is promoted only if it was rewarded more often than the champion on each of the five tasks |
| `GitPublication_proofs!RecordedOnlyAfterLanding` | `Spec => []RecordedAfterLanding`, with its `InductiveInvariant` |
| `OptimizationLoop_proofs!LoopInductive` | `Spec => []Inductive` |
| `OptimizationLoop_proofs!LoopHistoryReadable`, `LoopRecordsAgree`, `LoopSpendNotLost`, `LoopInterruptionFirst` | `Spec => []HistoryReadable`, `Spec => []RecordsAgree`, `Spec => []SpendNotLost`, `Spec => InterruptionFirst` |
| `OptimizationLoop_proofs!LoopKeepsLedger` | `Spec => KeepsLedger`, that is, the loop implements `ExperimentLedger` |
| `ExperimentRun_proofs!RunInductive`, `RunTypeOK` | `Spec => []Inductive`, `Spec => []TypeOK` |
| `ExperimentRun_proofs!RunJournalReadable`, `RunWriteAhead`, `RunLineageAgrees`, `RunReleaseCharged`, `RunOneUse` | `Spec => []JournalReadable`, `Spec => []WriteAhead`, `Spec => []LineageAgrees`, `Spec => []ReleaseCharged`, `Spec => OneUse` |
| `ExperimentRun_proofs!RunKeepsPromise` | `Spec => KeepsPromise`, that is, the run implements `JournalOutcome` |
| `TrustedEvaluation_proofs!EvaluationInductive`, `EvaluationTypeOK`, `EvaluationStoresAgree` | `Spec => []Inductive`, `Spec => []TypeOK`, `Spec => []StoresAgree`, also when calls of a controller overlap |
| `TrustedEvaluation_proofs!EvaluationKeepsPromise` | `Spec => KeepsPromise`, that is, the evaluation implements `OneUseRequest`, also when calls overlap |
| `TrustedEvaluation_proofs!EvaluationNothingReleasable` | `Spec => []NothingReleasable`, if a controller works on one call of a request at a time (`OneAtATime`) |
| `MountedVolume_proofs!StoreKeepsPromise` | `Spec => KeepsPromise`, that is, the store implements `AtomicStore` |
| `MountedVolume_proofs!InductiveInvariant`, `AnsweredStays` | `Spec => []Inductive`; no answered transaction is lost |
| `MountedVolume_proofs!OwnerCanGoOn` | `Spec => []HeadWithinReach` |

The assumptions on the constants are the named `ASSUME`s of the modules, which TLC
evaluates in the runs: the bounds on faults, operations and commits are natural
numbers, limits and numbers of experiments are positive, and the value that stands
for *nothing* (`None`) is none of the values it is told apart from: not a number, an
authorization, a record of a store, a claim, a result. Nothing is assumed about the
sizes of sets. One hypothesis stands in a theorem itself, because without it its
property is false, as TLC shows: `OneAtATime` for the trusted evaluation. The condition
under which the local lock excludes is part of its properties (`Undisturbed`).

**The runner's invariant.** `PublishedBeforeInstalled` says that the promotions
counted are the commits of the remote and the champion is the last of them, but for
the active experiment's own commit between its push and its finalization. By itself
it is not inductive. `Finalize` installs what the *receipt* says; that this is what
the remote shows has to be carried from `RecordPublication` through `Advance` and
any number of crashes, in which the process's position is lost. `Inductive` adds

* `Located`: what the runner may rely on at each place (at `finalize` there is a
  receipt, at `advance` with a promotion the publication is recorded, ...);
* `JobsTyped`: what an adapter's receipt holds, by the job it is for;
* `Untouched`: an experiment that has not begun has no files, so that opening one
  cannot find a decision or a receipt left there;
* `Agreeing`: in the active experiment, a publication implies that the remote
  shows it, a commit on the remote implies the decision to promote, and a receipt
  repeats the decision and names the right champion;
* `Counted`: the active experiment is the next one, and the counters and the
  champion lie behind it.

The proof splits it into the part that types each place and file (`Typed`) and the
part that relates artifacts, counters, champion and remote (`History`). Each of
the forty-odd actions has one lemma for the first part, which also says that it
leaves alone what the second depends on (`CoreStable`) or writes only an artifact
the second does not mention; the decision, publication, push, receipt, finalization
and the opening of an experiment reprove the second.

**The runner's refinement.** `champion`, `finished`, `remote` and `ledger` of
`Campaign` are the champion, the finished experiments, the remote and the ledger of
the runner. All steps stutter but `AccountCost` (a `Charge`), `PushChampion` (a
`Push`, which needs that the remote shows the champion) and `Finalize` (a
`Complete`, which needs that the receipt installs what the remote shows).

**The runner's replays.** That a successor charges each job once and meets no
contradiction depends on what the files of the active experiment say of each other
and of the ledger, at every place a crash may leave them. The invariant has five
layers, each of which uses those before it. `Documented` is about the files alone: a
panel that was taken over is the one the experiment before was accepted on, any
other is the experiment's own accepted attempt; the attempts form a chain, each
leading from the history and the catalog it found to its own, and all before it were
made and not accepted. `Accounted` ties the adapter's receipts to files, charges and
places: no job is paid for twice, each file with a cost was made from a receipt,
nothing is charged but what was paid, and what was paid is charged once its
experiment, its panel or its place is past the charge. `Replayed` says where in the
chain the history and the catalog are, at each place from which a replay may read
them: each attempt starts where the one before it ended, both files are at images of
an attempt not before the runner's, and a screen paid for and not yet filed is of
the panel that would be selected now. `SelectionReplayed` and `ReplayConsistent`
need all three at the places that select or compare. `Listed` says which screens the
images of the catalog and of the history list: each attempt's images list the valid
screens of the attempts before it and its own, which gives `ScreensCountedOnce`.
`Afforded` says what may be paid next: no optimizer has run without an accepted panel
and no candidate without an optimizer, and the places that pay have compared the
*ledger* with the limit. `NoPaidWorkOverBudget` speaks of the *receipts*: at those
places all of them are charged, so receipts and charges correspond one to one and have
the same total. The total is a fold, whose function is shown to exist and not to depend
on the order by a minimal counterexample: a smallest set on which it fails has a smaller
one on which it fails (`WFMin` of the library's `WellFoundedInduction`, over
cardinalities). Every step of the runner that
ends the invocation, or that only moves within an operation, is covered by two
lemmas; each layer then has one for each of the other steps.

**The local lock.** The invariant is `Typed /\ (Undisturbed => Orderly)`, and `Orderly`
has three parts. `Tenured`: a runner that claims or holds the campaign has the directory
it made in place, as it left it, so two holders would have made the same directory.
`OwnMaker`: a directory's owner is its maker. `Judged` is what makes the other two
inductive: whoever judges the directory *that is in place* has found out something that
stays true of it. If it looked aged, its maker no longer claims it; the pid that was read
is the maker's; and if it was judged stale, its maker neither claims nor holds it. A
rename or rm that hits the directory its runner had judged or made is thus never that of
a runner at work, whatever crashes, reboots and reused pids came in between; one that
hits another directory ends `Undisturbed`.

**The gate.** The invariant of the steps is small (`Screened`); the argument is about
the operators. The folds get closed forms, as above, and so do the code's running product
and the library's factorials up to five tasks. One row of Pascal's triangle then shows
that a confidence of 0.95 takes five wins of five (`ConfidentIsFive`), hence that an arm
surpasses another exactly when it is rewarded more often on every task
(`SurpassesIsSweep`): the other two thresholds decide nothing further, and a single tied
task makes a comparison inconclusive, however large the difference of the means.
`PromotionIsASweep` is thus what LOCAL.md:193 says of the promotion rule, that it needs
wins on all five tasks. `HeadroomIsWhatPromotes` follows, and with it that the screen
accepts panels on which nobody can win (`AcceptedNotPromotable`).

**The publication.** `landed` says that both refs were once the candidate together.
That a reading of `candidate` on both refs means so needs that the candidate is
never on the experiment ref without it (`RefsMoveTogether`), which others can only
keep because they build a child once they have seen the candidate. `IntentFirst`
comes with it, since a push that lands late was sent after the intent.

**The loop.** `Inductive` is `Core` (the history is readable, the journal is that of
one experiment after the other, `RecordsAgree`, `SpendNotLost`) with `Held`, `Ports`
and `Place`. `HistoryReadable` by itself says nothing of what an operation accepts,
as `ValidHistory` is not a guard of the operations. It is proved from three facts.
The tokens of all states are bounded by the counters of the head, so a new one
occurs in no earlier state (an authorization is new by the operation's own check). The
operator changes nothing that decides the course of an experiment, so that the state
the process read last (`Held`) still tells the champion, the experiment in flight and
what was sealed, although other fields of the head have moved on. And nobody but the
process writes the journal, so what `Place` says about it at one place is true at the
next, and after a crash at `Load`. The steps that append to the campaign or write the
journal reprove `RecordsAgree`; the others leave both alone.

**The run.** No property of a single store is inductive without the others, because
a step is justified by what an earlier one left in another store, possibly in an
earlier process. `JournalInv` says what the journal's entries and its one claim owe
each other, `EvidenceInv` that the evidence of an experiment is ahead of its receipts
by the claimed operation only (by two events for a seal), `LeaseInv` when a lease has an
outcome, a result or a charged diagnostic, and `Located` what the run relies on at
each place. `WriteAhead` and `LineageAgrees` are conjuncts; `JournalReadable`,
`ReleaseCharged` and `OneUse` follow. Each operation of a store has a lemma
that says what it keeps, and each store one for the steps that leave it alone; a step
of the runner then adds where it leads. One that loses its answer has the same effect
and leads where its error does, a place that asks for little (`ThrowLands`).

**The trusted evaluation.** For overlapping calls, what is true of the stores has to be
told apart from what a call believes. `Ready` says, for each place of a call, what it
has established: a call that acts works for the claim of its own controller; what it
has read of the record is *behind* the record (`Behind`), which only moves on; a call
that has acquired the claim is alone with it, since a takeover marks the claim
(`First`). A claim changes hands only when its owner is terminated, and then all the
owner's calls are `down`: that is what lets the successor's `Ready` start without
theirs. `Story` is what claim, record and runs have in common, and gives `StoresAgree`
and the refinement: `runs` is counted by the one `First` call, and an answer is the
completed claim's. `NothingReleasable` needs one more part, `Settling`: a record tells
where the preparation is or has gone from (`Tells`), and the preparation is moved only
by the one call that acts (`Standing`, for each of its places). With two acting calls
of one controller that is false, and TLC finds `NothingReleasable` violated.

**The mounted volume.** `KeepsPromise` asks that the state file is replaced only by
a successor of what it holds, and that what a caller is told is what is on disk.
That the fence is sound is *not* true (`volume_fence`), so the argument must do
without: an epoch may be used twice and a head fall back. It rests on the lock
alone. A lock is named by its owner and epoch, an owner that acts has its own lock
on disk or has been found dead (`OwnLock`, `Holding`: nobody quarantines the lock of
a controller that is at work, as `quarantined` names are never used again), hence
nobody else writes between its reading of the envelope and its writing
(`Following`), and a call is answered only by the owner that wrote what it is
answered with (`Authorized`).

`HeadWithinReach` is about the fence, and excepts the three cases in which the fence
is not to be trusted or lacks an authorization. `Reach`, proved on top of `Inductive`,
says what the fence and the state have in common: a lock is in place while its owner
has not closed, and during a transaction the fence is the owner's and its head what the
transaction started from (`Bound`); the writer of the state holds the lock, has given it
up or has lost it (`WriterOnDisk`); and unless a fence was written over one that was not
read, the state is the fence's head or one envelope ahead of it, and no newer than the
fence (`OneAhead`).

### Model-checked only

Every safety property of a passing run is stated by a theorem. What is left to TLC:

* Exclusion after a rename or an rm has hit another runner's directory, or after a
  thirty-second pause, is false (section 3), and no run claims it.
* `NothingReleasable` with overlapping calls, which is false; the run has one call at
  a time to a controller, as the theorem has.
* `Supervision`: its two properties are liveness.
* All liveness: `StopHonoured`, `PublishedIsInstalled`, `StaleLockReclaimed`,
  `StopSettles`, `Replaced`, `Completes`, `RecoverableApplied`, `Settles` and
  `Reclaimed`. Fairness is ENABLED, which is beyond the prover.

## 5. Not modelled, and why

* The weighted draw of a panel, a hash-seeded sample without replacement: a
  function of inputs that are modelled.
* Parsing and validation of documents, digests, signatures, wording: none of the
  properties is about a corrupted or forged file. This is most of the code.
* Inside the native adapter: the recovery of an interrupted optimizer, which accepts
  the transcript of a process whose exit code it does not know
  (native-adapter.ts:251); process groups that outlive a killed runner
  (process.ts:137); job directories. The runner sees a receipt or an error. The cost
  of a failed optimizer, which leaves no receipt, is unknown to the program too.
* Durations: the watchdog's back-off, the dashboard's five seconds and the lock's
  thirty are nondeterministic choices, bounded by constants. So are the signals that
  end a watchdog, and the reclaim of a launch lock older than thirty seconds.
* `Supervision` is checked with one campaign; `Campaigns` is a parameter.
* Rewards other than 0 and 1 in the gate.
* Shadow audits of the campaign store and of the journal: nothing allocates one. The
  budget is one dimension for seven. The journal's own lock recovery.
* The reservation of online error (service.ts:1515), an interface without an
  implementation in the broker; amounts are one unit an operation, so the edge of
  experiment-journal.ts:2680 is outside.
* The hidden catalog, the provider adapters, the optimizer sessions, the earlier
  single-machine campaign (`mvp/`), the cloud's Git publication.

## 6. Plan

Done: the modules of section 2 and the proofs of section 4. Each run answers a
question of its own; further ones would replace rather than join them. Next, in this
order:

1. `OptimizerAttempt` (native-adapter.ts, process.ts): attempts and their recovery,
   an orphaned child beside its successor. Abstract specification: the receipts of
   `LocalRunner!RunJob`.
2. Panel selection (panel.ts): exclusion, cooldown and relaxation as a relation on
   which panels can be drawn.
3. The hidden catalog (broker/catalog.ts) and the cloud's Git publication
   (harness/git-publication.ts), a second implementation of `Campaign!Push`.
