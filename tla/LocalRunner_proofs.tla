------------------------ MODULE LocalRunner_proofs ------------------------
(***************************************************************************)
(* The proofs of LocalRunner's properties, for every value of the          *)
(* constants, in two parts.                                                *)
(*                                                                         *)
(* The first part is what holds at each place of an invocation.  Its       *)
(* inductive invariant is split in two: the typing part (Typed) says what  *)
(* holds at each place and of each file, and the historical part (History) *)
(* relates the artifacts, the counters, the champion and the remote.  Each *)
(* action has a lemma for the typing part, which also says whether it      *)
(* leaves everything History depends on alone (CoreStable); only the few   *)
(* actions that do not need History reproved.                              *)
(*                                                                         *)
(* The second part is that a runner started again after any crash finds    *)
(* the files of the one before it consistent, charges each paid job once,  *)
(* counts each valid screen once and pays for nothing past the budget.     *)
(* The argument has five layers, each an invariant that uses the ones      *)
(* before it.  Documented says what the files of the active experiment say *)
(* about one another: which panel it took, and the chain of its attempts.  *)
(* Accounted ties the adapter's receipts to those files and to the ledger: *)
(* which paid job a file, a charge or a place of the runner stands for.    *)
(* Replayed says where in the chain of attempts the history and the        *)
(* catalog are, at every place from which a replay may read them.  Listed  *)
(* says which screens the catalog and the history of each attempt list.    *)
(* Afforded says which jobs may be paid next, and that the places that pay *)
(* have seen the budget.                                                   *)
(*                                                                         *)
(* Most steps end the invocation, or leave everything the layers depend on *)
(* alone; two lemmas deal with those, and each layer then has a lemma for  *)
(* each step that moves the runner on or writes.                           *)
(***************************************************************************)
EXTENDS LocalRunner, SequenceTheorems, FiniteSetTheorems, WellFoundedInduction, TLAPS

---------------------------------------------------------------------------
(* Constants and helpers *)

(* None is no number and no string; the finite sets are sets of numbers.   *)
LEMMA Sets ==
    /\ Experiments \subseteq Nat \ {0} /\ Ordinals \subseteq Nat \ {0} /\ Costs \subseteq Nat
    /\ Revisions \subseteq Nat /\ Experiments \subseteq Revisions /\ 0 \in Revisions
    /\ None \notin Nat /\ None \notin Experiments /\ None \notin Revisions
BY ConstantsAssumption DEF Experiments, Ordinals, Revisions

(* The history keeps at most Window outcomes: preparePanel's slice.        *)
LEMMA PushedType ==
    ASSUME NEW h \in Histories, NEW b \in BOOLEAN
    PROVE  Pushed(h, b) \in Histories
<1> DEFINE a == Append(h, b)
<1>1. a \in Seq(BOOLEAN) /\ Len(a) = Len(h) + 1 /\ Len(h) \in Nat /\ Len(h) <= Window
  BY DEF Histories
<1> HIDE DEF a
<1>2. CASE Len(a) > Window
  <2>1. /\ Len(a) - Window + 1 \in 1..(Len(a) + 1)
        /\ Len(a) \in (Len(a) - Window + 1 - 1)..Len(a)
    BY <1>1, <1>2, ConstantsAssumption
  <2>2. /\ SubSeq(a, Len(a) - Window + 1, Len(a)) \in Seq(BOOLEAN)
        /\ Len(SubSeq(a, Len(a) - Window + 1, Len(a))) = Len(a) - (Len(a) - Window + 1) + 1
    BY <1>1, <2>1, SubSeqProperties
  <2>3. Len(a) - (Len(a) - Window + 1) + 1 = Window
    BY <1>1, ConstantsAssumption
  <2>4. Pushed(h, b) = SubSeq(a, Len(a) - Window + 1, Len(a))
    BY <1>2 DEF Pushed, Last, a
  <2> QED BY <2>2, <2>3, <2>4, ConstantsAssumption DEF Histories
<1>3. CASE ~(Len(a) > Window)
  <2>1. Pushed(h, b) = a
    BY <1>3 DEF Pushed, Last, a
  <2> QED BY <1>1, <1>3, <2>1, ConstantsAssumption DEF Histories
<1> QED BY <1>2, <1>3

(* The local variables of a fresh invocation are well typed.               *)
LEMMA NoMemoryType == NoMemory \in MemoryType
<1>1. <<>> \in Histories
  BY ConstantsAssumption DEF Histories
<1> QED BY <1>1, ConstantsAssumption DEF NoMemory, MemoryType

(* An empty experiment directory is well typed.                            *)
LEMMA NoArtifactsType == NoArtifacts \in ArtifactType
BY DEF NoArtifacts, ArtifactType

---------------------------------------------------------------------------
(* What an action leaves alone *)

(* The part of the state that Untouched, Agreeing, Counted and             *)
(* PublishedBeforeInstalled depend on.                                     *)
CoreStable ==
    /\ art' = art /\ remote' = remote
    /\ st'.champion = st.champion /\ st'.next = st.next /\ st'.active = st.active
    /\ st'.completed = st.completed /\ st'.promotions = st.promotions

History == Untouched /\ Agreeing /\ Counted /\ PublishedBeforeInstalled

(* A step that leaves the champion, the counters, the artifacts and the    *)
(* remote alone leaves what is said of them true.                          *)
LEMMA CoreStableHistory ==
    ASSUME History, CoreStable
    PROVE  History'
<1>1. Untouched' /\ Agreeing'
  BY DEF History, CoreStable, Untouched, Agreeing, active, mine, RemoteChampion
<1>2. Counted' /\ PublishedBeforeInstalled'
  BY DEF History, CoreStable, Counted, PublishedBeforeInstalled, Installed, active, mine, RemoteChampion
<1> QED BY <1>1, <1>2 DEF History

(* An artifact other than the publication, the decision and the receipt.   *)
LEMMA WriteStableHistory ==
    ASSUME TypeOK, History, active # None, NEW new, WriteArtifact(new),
           new.publication = mine.publication, new.decision = mine.decision,
           new.receipt = mine.receipt
    PROVE  History'
<1>1. /\ st' = st /\ remote' = remote
      /\ st.active \in Experiments
      /\ art' = [art EXCEPT ![st.active] = new]
      /\ art \in [Experiments -> ArtifactType]
      /\ st.active = st.next
  BY DEF WriteArtifact, TypeOK, StateType, active, History, Counted
<1>2. /\ art'[st.active] = new
      /\ \A x \in Experiments : x # st.active => art'[x] = art[x]
  BY <1>1
<1>3. Untouched'
  <2> SUFFICES ASSUME NEW x \in Experiments, x > st.next
               PROVE  art'[x] = NoArtifacts
    BY <1>1 DEF Untouched, active
  <2>1. x # st.active
    BY <1>1, Sets
  <2> QED BY <1>2, <2>1 DEF History, Untouched
<1>4. Agreeing'
  BY <1>1, <1>2 DEF History, Agreeing, active, mine, RemoteChampion
<1>5. Counted' /\ PublishedBeforeInstalled'
  BY <1>1, <1>2 DEF History, Counted, PublishedBeforeInstalled, Installed, active, mine, RemoteChampion
<1> QED BY <1>3, <1>4, <1>5 DEF History

---------------------------------------------------------------------------
(* Type: the shared steps *)

Typed == TypeOK /\ Located /\ JobsTyped

(* An invocation that ends leaves a well-typed state and nothing to be at. *)
LEMMA FinishTyped ==
    ASSUME Typed, NEW s \in Statuses, NEW r \in Reasons, Finish(s, r), faults' \in 0..MaxFaults
    PROVE  Typed' /\ CoreStable
<1>1. st' \in StateType
  BY DEF Finish, UpdateState, Typed, TypeOK, StateType
<1>2. TypeOK'
  BY <1>1, NoMemoryType DEF Finish, UpdateState, Typed, TypeOK, Places
<1>3. Located'
  BY Sets DEF Finish, UpdateState, Located, NoMemory, Idle, Attempting, AfterPanel, active, mine
<1>4. JobsTyped' /\ CoreStable
  BY DEF Finish, UpdateState, Typed, JobsTyped, CoreStable, TypeOK, StateType
<1> QED BY <1>2, <1>3, <1>4 DEF Typed

(* A stop of the campaign, with its reason, is well typed.                 *)
LEMMA StopTyped ==
    ASSUME Typed, NEW r \in Reasons, Stop(r)
    PROVE  Typed' /\ CoreStable
BY FinishTyped DEF Stop, Statuses, Typed, TypeOK

(* A blocked campaign, with its reason, is well typed.                     *)
LEMMA BlockTyped ==
    ASSUME Typed, NEW r \in Reasons, Block(r)
    PROVE  Typed' /\ CoreStable
BY FinishTyped DEF Block, Statuses, Typed, TypeOK

(* An operation that fails blocks the campaign and is counted.             *)
LEMMA FailureTyped ==
    ASSUME Typed, NEW r \in Reasons, Failure(r)
    PROVE  Typed' /\ CoreStable
<1>1. faults' \in 0..MaxFaults
  BY ConstantsAssumption DEF Failure, Typed, TypeOK
<1> QED BY <1>1, FinishTyped DEF Failure, Statuses

(* A cancelled external process stops the campaign                         *)
(* (withActiveCancellation).                                               *)
LEMMA CancelledTyped ==
    ASSUME Typed, Cancelled
    PROVE  Typed' /\ CoreStable
BY StopTyped DEF Cancelled, Reasons

(* The fields of the state that CoreStable is about. *)
SameCore(new) ==
    /\ new.champion = st.champion /\ new.next = st.next /\ new.active = st.active
    /\ new.completed = st.completed /\ new.promotions = st.promotions

(* A step that rewrites the runner's state file at most, and its memory.   *)
LEMMA ControlTyped ==
    ASSUME Typed, NEW new \in StateType, SameCore(new),
           UpdateState(new), pc' \in Places, mem' \in MemoryType,
           UNCHANGED <<faults, requests>>, Located'
    PROVE  Typed' /\ CoreStable
<1>1. TypeOK'
  BY DEF Typed, TypeOK, UpdateState
<1>2. JobsTyped' /\ CoreStable
  BY DEF Typed, JobsTyped, UpdateState, CoreStable, SameCore
<1> QED BY <1>1, <1>2 DEF Typed

(* A step that only moves the control. *)
LEMMA GotoTyped ==
    ASSUME Typed, NEW there \in Places, UpdateState(st), Goto(there), Located'
    PROVE  Typed' /\ CoreStable
<1>1. st \in StateType /\ SameCore(st) /\ mem' \in MemoryType
  BY DEF Typed, TypeOK, SameCore, Goto
<1> QED BY <1>1, ControlTyped DEF Goto

(* accountCost keeps the ledger typed and moves on, or blocks.             *)
LEMMA AccountTyped ==
    ASSUME Typed, active # None, NEW arm \in Arms, NEW o \in Ordinals \cup {0}, NEW c \in Costs,
           NEW there \in Places, AccountCost(arm, o, c, there),
           pc' = there /\ mem' = mem /\ art' = art /\ st'.active = st.active => Located'
    PROVE  Typed' /\ CoreStable
<1>1. CASE Block("model-cost-replay-diverged")
  BY <1>1, BlockTyped DEF Reasons, Contradictions
<1>2. CASE ~Block("model-cost-replay-diverged")
  <2> DEFINE new == IF EntriesFor(st.ledger, active, arm, o) # {} THEN st
                    ELSE [st EXCEPT !.ledger = @ \cup {LedgerEntry(active, arm, o, c)}]
  <2>1. UpdateState(new) /\ Goto(there)
    BY <1>2 DEF AccountCost
  <2>2. LedgerEntry(active, arm, o, c)
          \in [exp : Experiments, arm : Arms, ordinal : Ordinals \cup {0}, cost : Costs]
    BY DEF LedgerEntry, Typed, TypeOK, StateType, active
  <2>3. /\ new \in StateType /\ SameCore(new)
        /\ new.active = st.active
    BY <2>2 DEF Typed, TypeOK, StateType, SameCore
  <2> HIDE DEF new
  <2>4. Located'
    BY <2>1, <2>3 DEF UpdateState, Goto
  <2> QED BY <2>1, <2>3, <2>4, ControlTyped DEF Goto, Typed, TypeOK
<1> QED BY <1>1, <1>2

(* Before and after the write of an artifact of the active experiment.     *)
LEMMA WroteMine ==
    ASSUME Typed, active # None, NEW new, WriteArtifact(new)
    PROVE  /\ mine' = new /\ active' = active /\ st' = st
           /\ active \in Experiments /\ mine \in ArtifactType
BY DEF WriteArtifact, Typed, TypeOK, StateType, mine, active

(* An artifact of the active experiment that is well typed keeps the       *)
(* directory and everything said of its other artifacts.                   *)
LEMMA WriteTyped ==
    ASSUME Typed, History, active # None, NEW new \in ArtifactType, WriteArtifact(new),
           new.publication = mine.publication, new.decision = mine.decision,
           new.receipt = mine.receipt,
           pc' \in Places, mem' \in MemoryType, UNCHANGED <<faults, requests>>, Located'
    PROVE  Typed' /\ History'
<1>1. TypeOK'
  BY WroteMine DEF WriteArtifact, Typed, TypeOK
<1>2. JobsTyped'
  BY DEF WriteArtifact, Typed, JobsTyped
<1> QED BY <1>1, <1>2, WriteStableHistory DEF Typed

---------------------------------------------------------------------------
(* Type: runLocalRealCampaign *)

(* A runner that starts loads the state and takes the lock.                *)
LEMMA StartTyped ==
    ASSUME Typed, NEW resume \in BOOLEAN, Start(resume)
    PROVE  Typed' /\ CoreStable
<1>1. PICK quota \in {1, None} : mem' = [NoMemory EXCEPT !.quota = quota]
  BY DEF Start
<1>2. TypeOK'
  BY <1>1, NoMemoryType, Sets DEF Start, Typed, TypeOK, MemoryType, NoMemory, Places
<1>3. Located'
  BY <1>1, Sets DEF Start, Located, NoMemory, Idle, Attempting, AfterPanel, active, mine,
     Typed, TypeOK, MemoryType
<1>4. JobsTyped' /\ CoreStable
  BY DEF Start, Typed, JobsTyped, CoreStable
<1> QED BY <1>2, <1>3, <1>4 DEF Typed

(* A runner that begins marks the campaign as running.                     *)
LEMMA BeginTyped ==
    ASSUME Typed, Begin
    PROVE  Typed' /\ CoreStable
<1> DEFINE new == [st EXCEPT !.status = "running", !.reason = None]
<1>1. new \in StateType /\ SameCore(new)
  BY DEF Typed, TypeOK, StateType, Statuses, SameCore
<1>2. UpdateState(new) /\ Goto("loop") /\ st' = new
  BY DEF Begin, UpdateState
<1> HIDE DEF new
<1>3. Located'
  BY <1>1, <1>2 DEF Goto, Typed, Located, Idle, Attempting, AfterPanel
<1> QED BY <1>1, <1>2, <1>3, ControlTyped DEF Goto, Places, Typed, TypeOK

(* The top of the loop stops on a request, a quota or the budget.          *)
LEMMA LoopStopsTyped ==
    ASSUME Typed, LoopStops
    PROVE  Typed' /\ CoreStable
<1>1. LoopStopReason \in Reasons
  BY DEF LoopStopReason, LoopStops, Reasons
<1> QED BY <1>1, StopTyped DEF LoopStops

(* The active experiment's first artifact is written once.                 *)
LEMMA RecordExperimentTyped ==
    ASSUME Typed, History, RecordExperiment
    PROVE  Typed' /\ History'
<1>1. CASE Block("unexpected-runner-failure") \/ Block("completed-experiment-panel-missing")
  BY <1>1, BlockTyped, CoreStableHistory DEF Reasons, Contradictions
<1>2. CASE ~(Block("unexpected-runner-failure") \/ Block("completed-experiment-panel-missing"))
  <2> DEFINE new == [mine EXCEPT !.before = st.champion]
  <2>1. /\ WriteArtifact(new)
        /\ mine.receipt # None => mine.accepted # None
        /\ Goto(IF mine.receipt = None THEN "panel" ELSE "finalize")
    BY <1>2 DEF RecordExperiment
  <2>2. active # None
    BY DEF Typed, Located, RecordExperiment, Idle
  <2>3. mine' = new /\ active' = active /\ mine \in ArtifactType
    BY <2>1, <2>2, WroteMine
  <2>4. /\ new \in ArtifactType /\ new.publication = mine.publication
        /\ new.decision = mine.decision /\ new.receipt = mine.receipt
        /\ new.accepted = mine.accepted
    <3>1. st.champion \in Revisions
      BY DEF Typed, TypeOK, StateType
    <3> QED BY <2>3, <3>1 DEF ArtifactType
  <2> HIDE DEF new
  <2>5. Located'
    BY <2>1, <2>2, <2>3, <2>4 DEF Goto, Typed, Located, Idle, Attempting, AfterPanel,
       RecordExperiment
  <2> QED BY <2>1, <2>2, <2>4, <2>5, WriteTyped DEF Goto, Typed, TypeOK, Places
<1> QED BY <1>1, <1>2

(* A change of phase touches the phase only (setPhase).                    *)
LEMMA SetPhaseTyped ==
    ASSUME Typed, SetPhase
    PROVE  Typed' /\ CoreStable
<1> DEFINE new == [st EXCEPT !.phase = PhaseOf[pc]]
<1>1. PhaseOf[pc] \in Phases
  BY DEF SetPhase, PhaseOf, Phases
<1>2. new \in StateType /\ SameCore(new)
  BY <1>1 DEF Typed, TypeOK, StateType, SameCore
<1>3. UpdateState(new) /\ Goto(pc) /\ st' = new
  BY DEF SetPhase, UpdateState
<1> HIDE DEF new
<1>4. Located'
  BY <1>2, <1>3 DEF UpdateState, Goto, Typed, Located, SameCore, active, mine, Attempt
<1> QED BY <1>2, <1>3, <1>4, ControlTyped DEF Goto, Typed, TypeOK

---------------------------------------------------------------------------
(* Type: preparePanel, a panel already chosen or retained *)

(* A recorded reuse of a panel is replayed or refused.                     *)
LEMMA ReplayReuseTyped ==
    ASSUME Typed, History, ReplayReuse
    PROVE  Typed' /\ History'
<1>1. CASE Block("retained-panel-reuse-invalid") \/ Block("retained-panel-reuse-diverged")
  BY <1>1, BlockTyped, CoreStableHistory DEF Reasons, Contradictions
<1>2. CASE ~(Block("retained-panel-reuse-invalid") \/ Block("retained-panel-reuse-diverged"))
  <2> DEFINE source == art[mine.reused.source].accepted
             new == [mine EXCEPT !.accepted = source]
  <2>1. /\ WriteArtifact(new)
        /\ Goto("prepared")
        /\ ValidReuse(mine.reused)
    BY <1>2 DEF ReplayReuse
  <2>2. active # None
    BY DEF Typed, Located, ReplayReuse, Idle
  <2>3. mine' = new /\ active' = active /\ mine \in ArtifactType /\ active \in Experiments
    BY <2>1, <2>2, WroteMine
  <2>4. source # None /\ mine.reused # None
    BY <2>1 DEF ValidReuse, ReplayReuse
  <2>5. source \in AcceptedType
    <3>1. mine.reused.source \in Experiments
      BY <2>3, <2>4 DEF ArtifactType
    <3>2. art[mine.reused.source] \in ArtifactType
      BY <3>1 DEF Typed, TypeOK
    <3> QED BY <3>2, <2>4 DEF ArtifactType
  <2> HIDE DEF source
  <2>6. /\ new \in ArtifactType /\ new.publication = mine.publication
        /\ new.decision = mine.decision /\ new.receipt = mine.receipt
        /\ new.accepted = source
    BY <2>3, <2>5 DEF ArtifactType
  <2> HIDE DEF new
  <2>7. Located'
    BY <2>1, <2>2, <2>3, <2>4, <2>6 DEF Goto, Typed, Located, Idle, Attempting, AfterPanel,
       ReplayReuse, WriteArtifact
  <2> QED BY <2>1, <2>2, <2>6, <2>7, WriteTyped DEF Goto, Typed, TypeOK, Places
<1> QED BY <1>1, <1>2

(* A recorded acceptance of a panel is replayed or refused.                *)
LEMMA ReplayAcceptedTyped ==
    ASSUME Typed, ReplayAccepted
    PROVE  Typed' /\ CoreStable
<1>1. CASE Block("retained-panel-reuse-evidence-missing")
  BY <1>1, BlockTyped DEF Reasons, Contradictions
<1>2. CASE AccountCost("panel", mine.accepted.panel.ordinal, mine.accepted.cost, "prepared")
  <2>1. active # None
    BY DEF Typed, Located, ReplayAccepted, Idle
  <2>2. mine \in ArtifactType
    BY <2>1 DEF Typed, TypeOK, StateType, mine, active
  <2>3. mine.accepted \in AcceptedType
    BY <2>2 DEF ReplayAccepted, ArtifactType
  <2>4. mine.accepted.panel.ordinal \in Ordinals \cup {0} /\ mine.accepted.cost \in Costs
    BY <2>3 DEF AcceptedType, Panels
  <2>5. pc' = "prepared" /\ mem' = mem /\ art' = art /\ st'.active = st.active => Located'
    BY <2>1 DEF Typed, Located, ReplayAccepted, Idle, Attempting, AfterPanel, active, mine
  <2> QED BY <1>2, <2>1, <2>4, <2>5, AccountTyped DEF Arms, Places
<1> QED BY <1>1, <1>2 DEF ReplayAccepted

(* A retained panel is taken over by the active experiment or refused.     *)
LEMMA ReuseRetainedTyped ==
    ASSUME Typed, History, ReuseRetained
    PROVE  Typed' /\ History'
<1>1. ASSUME NEW r \in Reasons, Block(r)
      PROVE  Typed' /\ History'
  BY <1>1, BlockTyped, CoreStableHistory
<1>2. CASE ~\E r \in Reasons : Block(r)
  <2> DEFINE reuse == [source |-> active - 1, revision |-> st.champion,
                       panel |-> art[active - 1].accepted.panel]
             new == [mine EXCEPT !.reused = reuse]
  <2>1. /\ active - 1 >= 1 /\ art[active - 1].accepted # None
        /\ WriteArtifact(new)
        /\ Goto("panel")
    BY <1>2 DEF ReuseRetained, Reasons, Contradictions
  <2>2. active # None
    BY DEF Typed, Located, ReuseRetained, Idle
  <2>3. mine' = new /\ active' = active /\ mine \in ArtifactType /\ active \in Experiments
    BY <2>1, <2>2, WroteMine
  <2>4. active - 1 \in Experiments
    BY <2>1, <2>3, ConstantsAssumption DEF Experiments
  <2>5. reuse \in [source : Experiments, revision : Revisions, panel : Panels]
    <3>1. art[active - 1] \in ArtifactType
      BY <2>4 DEF Typed, TypeOK
    <3>2. art[active - 1].accepted.panel \in Panels
      BY <3>1, <2>1 DEF ArtifactType, AcceptedType
    <3> QED BY <2>4, <3>2 DEF Typed, TypeOK, StateType
  <2> HIDE DEF reuse
  <2>6. /\ new \in ArtifactType /\ new.publication = mine.publication
        /\ new.decision = mine.decision /\ new.receipt = mine.receipt
    BY <2>3, <2>5 DEF ArtifactType
  <2> HIDE DEF new
  <2>7. Located'
    BY <2>1, <2>2, <2>3 DEF Goto, Typed, Located, Idle, Attempting, AfterPanel, ReuseRetained
  <2> QED BY <2>1, <2>2, <2>6, <2>7, WriteTyped DEF Goto, Typed, TypeOK, Places
<1> QED BY <1>1, <1>2

(* Screening begins with the policy of the state.                          *)
LEMMA EnterScreeningTyped ==
    ASSUME Typed, EnterScreening
    PROVE  Typed' /\ CoreStable
<1> DEFINE new == [st EXCEPT !.phase = "panel-screening"]
<1>1. new \in StateType /\ SameCore(new)
  BY DEF Typed, TypeOK, StateType, SameCore, Phases
<1>2. UpdateState(new) /\ Goto("chain") /\ st' = new
  BY DEF EnterScreening, UpdateState
<1> HIDE DEF new
<1>3. Located'
  BY <1>1, <1>2 DEF UpdateState, Goto, Typed, Located, SameCore, active, mine,
     Idle, Attempting, AfterPanel, EnterScreening
<1> QED BY <1>1, <1>2, <1>3, ControlTyped DEF Goto, Typed, TypeOK, Places

---------------------------------------------------------------------------
(* Type: preparePanel, the attempts *)

(* The chain of persisted attempts is read and checked.                    *)
LEMMA ReadAttemptChainTyped ==
    ASSUME Typed, ReadAttemptChain
    PROVE  Typed' /\ CoreStable
<1>1. CASE Block("panel-attempt-chain-has-gap") \/ Block("panel-attempt-chain-invalid")
  BY <1>1, BlockTyped DEF Reasons, Contradictions
<1>2. CASE UpdateState(st) /\ Goto("runtime")
  <2>1. Located'
    BY <1>2 DEF UpdateState, Goto, Typed, Located, active, mine,
       Idle, Attempting, AfterPanel, ReadAttemptChain
  <2> QED BY <1>2, <2>1, GotoTyped DEF Places
<1> QED BY <1>1, <1>2 DEF ReadAttemptChain

(* The champion's runtime is there before the first screen.                *)
LEMMA ChampionRuntimeTyped ==
    ASSUME Typed, ChampionRuntime
    PROVE  Typed' /\ CoreStable
<1>1. CASE Failure("unexpected-runner-failure") \/ Cancelled
  BY <1>1, FailureTyped, CancelledTyped DEF Reasons
<1>2. CASE ~(Failure("unexpected-runner-failure") \/ Cancelled)
  <2>1. /\ UpdateState(st) /\ pc' = "screen" /\ pc = "runtime"
        /\ mem' = [mem EXCEPT !.ordinal = 1, !.policy = st.history]
        /\ UNCHANGED <<faults, requests>>
    BY <1>2 DEF ChampionRuntime
  <2>2. st \in StateType /\ SameCore(st)
    BY DEF Typed, TypeOK, SameCore
  <2>3. mem' \in MemoryType /\ mem'.ordinal = 1 /\ mem'.quota = mem.quota
    <3>1. st.history \in Histories /\ mem \in MemoryType
      BY DEF Typed, TypeOK, StateType
    <3>2. 1 \in 0..(MaxPanelAttempts + 1)
      BY ConstantsAssumption
    <3> QED BY <2>1, <3>1, <3>2 DEF MemoryType
  <2>4. Located'
    BY <2>1, <2>3 DEF UpdateState, Typed, Located, active, mine, Idle, Attempting, AfterPanel
  <2> QED BY <2>1, <2>2, <2>3, <2>4, ControlTyped DEF Places
<1> QED BY <1>1, <1>2

(* The attempts of an experiment run out and it blocks.                    *)
LEMMA ScreensExhaustedTyped ==
    ASSUME Typed, ScreensExhausted
    PROVE  Typed' /\ CoreStable
BY BlockTyped DEF ScreensExhausted, Reasons

(* A persisted attempt is found and replayed.                              *)
LEMMA ReplayAttemptTyped ==
    ASSUME Typed, ReplayAttempt
    PROVE  Typed' /\ CoreStable
<1>1. st \in StateType /\ SameCore(st)
  BY DEF Typed, TypeOK, SameCore
<1>2. mem' \in MemoryType /\ mem'.ordinal = mem.ordinal /\ mem'.quota = mem.quota
  BY DEF ReplayAttempt, Typed, TypeOK, MemoryType
<1>3. mem.ordinal \in Ordinals
  BY ConstantsAssumption DEF ReplayAttempt, Screening, Typed, TypeOK, MemoryType, Located, Ordinals
<1>4. Located'
  BY <1>2, <1>3 DEF ReplayAttempt, Screening, UpdateState, Typed, Located, active, mine, Attempt,
     Idle, Attempting, AfterPanel
<1> QED BY <1>1, <1>2, <1>4, ControlTyped DEF ReplayAttempt, Places

(* No screen starts over budget.                                           *)
LEMMA ScreenOverBudgetTyped ==
    ASSUME Typed, ScreenOverBudget
    PROVE  Typed' /\ CoreStable
BY StopTyped DEF ScreenOverBudget, Reasons

(* A job of the adapter leaves its receipt and nothing else. *)
LEMMA RunJobTyped ==
    ASSUME Typed, active # None, NEW arm \in Arms, NEW o \in Ordinals \cup {0},
           NEW panel \in Panels \cup {None}, NEW revision \in Revisions,
           NEW outcomes \in SUBSET (PanelOutcomes \cup Dispositions \cup {None}),
           arm = "panel" => panel \in Panels /\ outcomes \subseteq PanelOutcomes,
           arm = "candidate" => panel \in Panels /\ outcomes \subseteq Dispositions,
           RunJob(arm, o, panel, revision, outcomes)
    PROVE  Typed' /\ CoreStable
<1>1. PICK outcome \in outcomes, cost \in Costs :
        jobs' = jobs \cup {[exp |-> active, arm |-> arm, ordinal |-> o, panel |-> panel,
                            revision |-> revision, outcome |-> outcome, cost |-> cost]}
  BY DEF RunJob
<1>2. UNCHANGED <<st, catalog, stopReq, art, remote, pc, mem, faults, requests>>
  BY DEF RunJob, Goto
<1>3. active \in Experiments
  BY DEF Typed, TypeOK, StateType, active
<1> DEFINE j == [exp |-> active, arm |-> arm, ordinal |-> o, panel |-> panel,
                 revision |-> revision, outcome |-> outcome, cost |-> cost]
<1>4. /\ j \in JobType /\ j.arm = arm /\ j.panel = panel /\ j.outcome = outcome
      /\ outcome \in outcomes
  BY <1>3 DEF JobType
<1>5. jobs' = jobs \cup {j}
  BY <1>1
<1> HIDE DEF j
<1>6. TypeOK'
  BY <1>2, <1>4, <1>5 DEF Typed, TypeOK
<1>7. JobsTyped'
  BY <1>4, <1>5 DEF Typed, JobsTyped
<1>8. Located' /\ CoreStable
  BY <1>2 DEF Typed, Located, CoreStable, active, mine, Attempt
<1> QED BY <1>6, <1>7, <1>8 DEF Typed

(* The ordinal and the selection of a screen that is about to run.         *)
LEMMA SelectionTyped ==
    ASSUME Typed, Live
    PROVE  active # None /\ mem.ordinal \in Ordinals /\ Selection \in Panels
<1>1. active # None /\ active \in Experiments
  BY DEF Typed, TypeOK, StateType, Located, Live, Screening, Idle, active
<1>2. mem.ordinal \in Ordinals
  BY ConstantsAssumption DEF Live, Screening, Typed, TypeOK, MemoryType, Located, Ordinals
<1>3. mem \in MemoryType /\ catalog \in Seq(Screen)
  BY DEF Typed, TypeOK
<1> QED BY <1>1, <1>2, <1>3 DEF Selection, Panels, MemoryType

(* The champion's arm leaves a typed receipt.                              *)
LEMMA ChampionArmRunsTyped ==
    ASSUME Typed, ChampionArmRuns
    PROVE  Typed' /\ CoreStable
<1>1. active # None /\ mem.ordinal \in Ordinals /\ Selection \in Panels
  BY SelectionTyped DEF ChampionArmRuns
<1>2. st.champion \in Revisions
  BY DEF Typed, TypeOK, StateType
<1> QED BY <1>1, <1>2, RunJobTyped DEF ChampionArmRuns, Arms

(* A champion's arm that fails or is cancelled ends the run.               *)
LEMMA ChampionArmFailsTyped ==
    ASSUME Typed, ChampionArmFails
    PROVE  Typed' /\ CoreStable
BY FailureTyped, CancelledTyped DEF ChampionArmFails, Reasons

(* The history an attempt leads to is a history.                           *)
LEMMA HistoryAfterType ==
    ASSUME NEW h \in Histories, NEW outcome \in PanelOutcomes
    PROVE  HistoryAfter(h, outcome) \in Histories
<1>1. CASE outcome = "infrastructure-invalid"
  BY <1>1 DEF HistoryAfter
<1>2. CASE outcome # "infrastructure-invalid"
  <2>1. (outcome = "saturated") \in BOOLEAN
    OBVIOUS
  <2>2. Pushed(h, outcome = "saturated") \in Histories
    BY <2>1, PushedType
  <2> QED BY <1>2, <2>2 DEF HistoryAfter
<1> QED BY <1>1, <1>2

(* The catalog an attempt leads to is a sequence of screens.               *)
LEMMA CatalogAfterType ==
    ASSUME NEW c \in Seq(Screen), NEW outcome, NEW o \in Ordinals, active \in Experiments
    PROVE  CatalogAfter(c, outcome, o) \in Seq(Screen)
<1>1. [exp |-> active, ordinal |-> o] \in Screen
  BY DEF Screen
<1> QED BY <1>1 DEF CatalogAfter

(* A fresh attempt is written once, with the history and the catalog       *)
(* before and after it.                                                    *)
LEMMA RecordAttemptTyped ==
    ASSUME Typed, History, RecordAttempt
    PROVE  Typed' /\ History'
<1>1. CASE Block("unexpected-runner-failure")
  BY <1>1, BlockTyped, CoreStableHistory DEF Reasons
<1>2. CASE ~Block("unexpected-runner-failure")
  <2>1. active # None /\ mem.ordinal \in Ordinals /\ Selection \in Panels
    BY SelectionTyped DEF RecordAttempt
  <2>2. PICK j \in Job("panel", mem.ordinal) :
          /\ WriteArtifact([mine EXCEPT !.attempts[mem.ordinal] =
                [panel |-> Selection, outcome |-> j.outcome, cost |-> j.cost,
                 revision |-> j.revision,
                 historyBefore |-> st.history,
                 historyAfter |-> HistoryAfter(st.history, j.outcome),
                 catalogBefore |-> catalog,
                 catalogAfter |-> CatalogAfter(catalog, j.outcome, mem.ordinal)]])
          /\ pc' = "account"
          /\ mem' = [mem EXCEPT !.fresh = TRUE]
          /\ UNCHANGED <<faults, requests>>
    BY <1>2 DEF RecordAttempt
  <2> DEFINE a == [panel |-> Selection, outcome |-> j.outcome, cost |-> j.cost,
                   revision |-> j.revision,
                   historyBefore |-> st.history,
                   historyAfter |-> HistoryAfter(st.history, j.outcome),
                   catalogBefore |-> catalog,
                   catalogAfter |-> CatalogAfter(catalog, j.outcome, mem.ordinal)]
             new == [mine EXCEPT !.attempts[mem.ordinal] = a]
  <2>3. WriteArtifact(new)
    BY <2>2
  <2>4. mine' = new /\ active' = active /\ mine \in ArtifactType /\ active \in Experiments
    BY <2>1, <2>3, WroteMine
  <2>5. j.outcome \in PanelOutcomes /\ j.cost \in Costs /\ j.revision \in Revisions
    BY DEF Typed, JobsTyped, TypeOK, JobType, Job
  <2>6. st.history \in Histories /\ catalog \in Seq(Screen) /\ mem \in MemoryType
    BY DEF Typed, TypeOK, StateType
  <2>7. a \in AttemptType
    BY <2>1, <2>4, <2>5, <2>6, HistoryAfterType, CatalogAfterType DEF AttemptType
  <2> HIDE DEF a
  <2>8. /\ new \in ArtifactType /\ new.publication = mine.publication
        /\ new.decision = mine.decision /\ new.receipt = mine.receipt
        /\ new.attempts[mem.ordinal] = a
    BY <2>1, <2>4, <2>7 DEF ArtifactType
  <2> HIDE DEF new
  <2>9. a # None
    BY <2>7, ArtifactsAssumption
  <2>10. mem' \in MemoryType /\ mem'.ordinal = mem.ordinal /\ mem'.quota = mem.quota
    BY <2>2, <2>6 DEF MemoryType
  <2>11. Located'
    BY <2>1, <2>2, <2>3, <2>4, <2>8, <2>9, <2>10 DEF Typed, Located, Idle, Attempting,
       AfterPanel, RecordAttempt, Live, Screening, Attempt
  <2> QED BY <2>1, <2>2, <2>3, <2>8, <2>10, <2>11, WriteTyped DEF Places
<1> QED BY <1>1, <1>2

(* The attempt a place between "account" and "assess" is about.            *)
LEMMA AttemptTyped ==
    ASSUME Typed, pc \in Attempting
    PROVE  /\ active # None /\ active \in Experiments /\ mine \in ArtifactType
           /\ mem.ordinal \in Ordinals
           /\ Attempt(mem.ordinal) # None /\ Attempt(mem.ordinal) \in AttemptType
<1>1. active # None /\ active \in Experiments /\ mine \in ArtifactType
  BY DEF Typed, TypeOK, StateType, Located, Idle, Attempting, active, mine
<1>2. mem.ordinal \in Ordinals /\ Attempt(mem.ordinal) # None
  BY DEF Typed, Located
<1>3. Attempt(mem.ordinal) \in AttemptType
  BY <1>1, <1>2 DEF ArtifactType, Attempt
<1> QED BY <1>1, <1>2, <1>3

(* The cost of an attempt enters the ledger (accountCost).                 *)
LEMMA AccountAttemptTyped ==
    ASSUME Typed, AccountAttempt
    PROVE  Typed' /\ CoreStable
<1>1. /\ active # None /\ mem.ordinal \in Ordinals
      /\ Attempt(mem.ordinal) # None /\ Attempt(mem.ordinal) \in AttemptType
  BY AttemptTyped DEF AccountAttempt, Attempting
<1>2. Attempt(mem.ordinal).cost \in Costs
  BY <1>1 DEF AttemptType
<1>3. pc' = "history" /\ mem' = mem /\ art' = art /\ st'.active = st.active => Located'
  BY <1>1 DEF Typed, Located, AccountAttempt, Idle, Attempting, AfterPanel, active, mine, Attempt
<1> QED BY <1>1, <1>2, <1>3, AccountTyped DEF AccountAttempt, Arms, Places

(* The history becomes the attempt's or is refused.                        *)
LEMMA ReconcileHistoryTyped ==
    ASSUME Typed, ReconcileHistory
    PROVE  Typed' /\ CoreStable
<1>1. CASE Block("panel-history-replay-diverged")
  BY <1>1, BlockTyped DEF Reasons, Contradictions
<1>2. CASE ~Block("panel-history-replay-diverged")
  <2> DEFINE a == Attempt(mem.ordinal)
             new == IF st.history # a.historyAfter /\ st.history = a.historyBefore
                    THEN [st EXCEPT !.history = a.historyAfter] ELSE st
  <2>1. UpdateState(new) /\ Goto("catalog") /\ st' = new /\ pc = "history"
    BY <1>2 DEF ReconcileHistory, UpdateState
  <2>2. /\ active # None /\ mem.ordinal \in Ordinals
        /\ a # None /\ a \in AttemptType
    BY <2>1, AttemptTyped DEF Attempting
  <2>3. a.historyAfter \in Histories
    BY <2>2 DEF AttemptType
  <2> HIDE DEF a
  <2>4. new \in StateType /\ SameCore(new)
    BY <2>3 DEF Typed, TypeOK, StateType, SameCore
  <2> HIDE DEF new
  <2>5. Located'
    BY <2>1, <2>2, <2>4 DEF UpdateState, Goto, Typed, Located, SameCore, a, Attempt,
       Idle, Attempting, AfterPanel, active, mine
  <2> QED BY <2>1, <2>4, <2>5, ControlTyped DEF Goto, Typed, TypeOK, Places
<1> QED BY <1>1, <1>2

(* The catalog becomes the attempt's or is refused.                        *)
LEMMA ReconcileCatalogTyped ==
    ASSUME Typed, ReconcileCatalog
    PROVE  Typed' /\ CoreStable
<1>1. CASE Block("panel-catalog-replay-diverged")
  BY <1>1, BlockTyped DEF Reasons, Contradictions
<1>2. CASE ~Block("panel-catalog-replay-diverged")
  <2> DEFINE a == Attempt(mem.ordinal)
  <2>1. /\ pc = "catalog" /\ pc' = "assess"
        /\ catalog' = IF catalog = a.catalogBefore THEN a.catalogAfter ELSE catalog
        /\ mem' = IF mem.fresh THEN mem ELSE [mem EXCEPT !.policy = st.history]
        /\ UNCHANGED <<st, stopReq, art, jobs, remote, faults, requests>>
    BY <1>2 DEF ReconcileCatalog
  <2>2. /\ active # None /\ mem.ordinal \in Ordinals
        /\ a # None /\ a \in AttemptType
    BY <2>1, AttemptTyped DEF Attempting
  <2>3. catalog' \in Seq(Screen)
    BY <2>1, <2>2 DEF AttemptType, Typed, TypeOK
  <2>4. mem' \in MemoryType /\ mem'.ordinal = mem.ordinal /\ mem'.quota = mem.quota
    <3>1. mem \in MemoryType /\ st.history \in Histories
      BY DEF Typed, TypeOK, StateType
    <3> QED BY <2>1, <3>1 DEF MemoryType
  <2>5. TypeOK'
    BY <2>1, <2>3, <2>4 DEF Typed, TypeOK, Places
  <2>6. Located'
    BY <2>1, <2>2, <2>4 DEF Typed, Located, Attempt, Idle, Attempting, AfterPanel, active, mine
  <2> QED BY <2>1, <2>5, <2>6 DEF Typed, JobsTyped, CoreStable
<1> QED BY <1>1, <1>2

(* The next screen: its ordinal is one more, within the memory's range.    *)
LEMMA NextOrdinalTyped ==
    ASSUME Typed, pc \in Attempting, NEW new \in MemoryType, new.ordinal = mem.ordinal,
           new.quota = mem.quota, NextOrdinal(new)
    PROVE  Typed' /\ CoreStable
<1>1. active # None /\ mem.ordinal \in Ordinals
  BY AttemptTyped
<1>2. new.ordinal + 1 \in 0..(MaxPanelAttempts + 1) /\ new.ordinal + 1 >= 1
  BY <1>1, ConstantsAssumption DEF Ordinals
<1>3. mem' \in MemoryType /\ mem'.ordinal >= 1 /\ mem'.quota = mem.quota
  BY <1>2 DEF NextOrdinal, MemoryType
<1>4. st \in StateType /\ SameCore(st)
  BY DEF Typed, TypeOK, SameCore
<1>5. Located'
  BY <1>1, <1>3 DEF NextOrdinal, UpdateState, Typed, Located, Idle, Attempting, AfterPanel,
     active, mine
<1> QED BY <1>3, <1>4, <1>5, ControlTyped DEF NextOrdinal, Places

(* A saturated panel is excluded and the next attempt begins.              *)
LEMMA PanelSaturatedTyped ==
    ASSUME Typed, PanelSaturated
    PROVE  Typed' /\ CoreStable
<1> DEFINE policy == Advanced(mem.policy, TRUE)
           new == [mem EXCEPT !.excluded = @ \cup {mem.ordinal}, !.policy = policy]
<1>1. mem \in MemoryType /\ mem.ordinal \in Ordinals /\ pc \in Attempting
  BY AttemptTyped DEF PanelSaturated, Attempting, Typed, TypeOK
<1>2. policy \in Histories
  BY <1>1, PushedType DEF Advanced, MemoryType
<1> HIDE DEF policy
<1>3. new \in MemoryType /\ new.ordinal = mem.ordinal /\ new.quota = mem.quota
  BY <1>1, <1>2 DEF MemoryType
<1>4. NextOrdinal(new)
  BY DEF PanelSaturated, policy
<1> QED BY <1>1, <1>3, <1>4, NextOrdinalTyped

(* An attempt without valid infrastructure is retried or opens the         *)
(* circuit.                                                                *)
LEMMA PanelInfrastructureInvalidTyped ==
    ASSUME Typed, PanelInfrastructureInvalid
    PROVE  Typed' /\ CoreStable
<1>1. CASE mem.infra + 1 > MaxInfraRetries
  BY <1>1, BlockTyped DEF PanelInfrastructureInvalid, Reasons
<1>2. CASE ~(mem.infra + 1 > MaxInfraRetries)
  <2> DEFINE new == [mem EXCEPT !.infra = @ + 1]
  <2>1. mem \in MemoryType /\ pc \in Attempting
    BY DEF PanelInfrastructureInvalid, Attempting, Typed, TypeOK
  <2>2. mem.infra + 1 \in 0..MaxInfraRetries
    BY <1>2, <2>1, ConstantsAssumption DEF MemoryType
  <2>3. new \in MemoryType /\ new.ordinal = mem.ordinal /\ new.quota = mem.quota
    BY <2>1, <2>2 DEF MemoryType
  <2>4. NextOrdinal(new)
    BY <1>2 DEF PanelInfrastructureInvalid
  <2> QED BY <2>1, <2>3, <2>4, NextOrdinalTyped
<1> QED BY <1>1, <1>2

(* An accepted panel is recorded for the experiment.                       *)
LEMMA PanelAcceptedTyped ==
    ASSUME Typed, History, PanelAccepted
    PROVE  Typed' /\ History'
<1> DEFINE a == Attempt(mem.ordinal)
           accepted == AcceptedFrom(a)
           new == [mine EXCEPT !.accepted = accepted]
<1>1. WriteArtifact(new) /\ Goto("prepared") /\ pc = "assess"
  BY DEF PanelAccepted
<1>2. active # None /\ mine \in ArtifactType /\ a \in AttemptType
  BY <1>1, AttemptTyped DEF Attempting
<1>3. accepted \in AcceptedType /\ accepted # None
  BY <1>2, ArtifactsAssumption DEF AcceptedFrom, AttemptType, AcceptedType
<1> HIDE DEF a, accepted
<1>4. /\ new \in ArtifactType /\ new.publication = mine.publication
      /\ new.decision = mine.decision /\ new.receipt = mine.receipt
      /\ new.accepted = accepted
  BY <1>2, <1>3 DEF ArtifactType
<1>5. mine' = new /\ active' = active
  BY <1>1, <1>2, WroteMine
<1> HIDE DEF new
<1>6. Located'
  BY <1>1, <1>2, <1>3, <1>4, <1>5 DEF Goto, Typed, Located, Idle, Attempting, AfterPanel
<1> QED BY <1>1, <1>2, <1>4, <1>6, WriteTyped DEF Goto, Typed, TypeOK, Places

(* A phase boundary stops, or lets the runner go on with its panel.        *)
LEMMA BoundaryTyped ==
    ASSUME Typed, NEW here, NEW there, Boundary(here, there),
           \/ here = "prepared" /\ there = "optimizer"
           \/ here = "candidate" /\ there = "evaluation"
    PROVE  Typed' /\ CoreStable
<1>1. CASE Stop("operator-requested") \/ Stop("campaign-cost-limit-reached")
  BY <1>1, StopTyped DEF Reasons
<1>2. CASE ~(Stop("operator-requested") \/ Stop("campaign-cost-limit-reached"))
  <2>1. UpdateState(st) /\ Goto(there) /\ pc = here
    BY <1>2 DEF Boundary
  <2>2. Located'
    BY <2>1 DEF UpdateState, Goto, Typed, Located, Idle, Attempting, AfterPanel, active, mine
  <2> QED BY <2>1, <2>2, GotoTyped DEF Places
<1> QED BY <1>1, <1>2

(* The boundary after the panel: stop, budget or optimizer.                *)
LEMMA PanelPreparedTyped ==
    ASSUME Typed, PanelPrepared
    PROVE  Typed' /\ CoreStable
BY BoundaryTyped DEF PanelPrepared

---------------------------------------------------------------------------
(* Type: the optimizer and the candidate *)

(* A place after the panel has an active experiment with a panel.          *)
LEMMA AfterPanelTyped ==
    ASSUME Typed, pc \in AfterPanel
    PROVE  /\ active # None /\ active \in Experiments /\ mine \in ArtifactType
           /\ mine.accepted # None /\ mine.accepted \in AcceptedType
<1>1. active # None /\ active \in Experiments /\ mine \in ArtifactType /\ mine.accepted # None
  BY DEF Typed, TypeOK, StateType, Located, Idle, AfterPanel, active, mine
<1> QED BY <1>1 DEF ArtifactType

(* The optimizer leaves a typed receipt.                                   *)
LEMMA OptimizerRunsTyped ==
    ASSUME Typed, OptimizerRuns
    PROVE  Typed' /\ CoreStable
<1>1. active # None /\ st.champion \in Revisions
  BY AfterPanelTyped DEF OptimizerRuns, InPhase, AfterPanel, Typed, TypeOK, StateType
<1> QED BY <1>1, RunJobTyped DEF OptimizerRuns, Arms

(* An optimizer that fails or is cancelled ends the run.                   *)
LEMMA OptimizerFailsTyped ==
    ASSUME Typed, OptimizerFails
    PROVE  Typed' /\ CoreStable
BY FailureTyped, CancelledTyped DEF OptimizerFails, Reasons

(* The optimizer's receipt is recorded once.                               *)
LEMMA RecordOptimizerTyped ==
    ASSUME Typed, History, RecordOptimizer
    PROVE  Typed' /\ History'
<1>1. PICK j \in Job("optimizer", 0) :
        WriteArtifact([mine EXCEPT !.optimizer = [revision |-> j.revision, cost |-> j.cost]])
  BY DEF RecordOptimizer
<1> DEFINE new == [mine EXCEPT !.optimizer = [revision |-> j.revision, cost |-> j.cost]]
<1>2. WriteArtifact(new) /\ Goto("optimizer") /\ pc = "optimizer"
  BY <1>1 DEF RecordOptimizer, InPhase
<1>3. active # None /\ mine \in ArtifactType
  BY <1>2, AfterPanelTyped DEF AfterPanel
<1>4. j.revision \in Revisions /\ j.cost \in Costs
  BY DEF Job, Typed, TypeOK, JobType
<1>5. /\ new \in ArtifactType /\ new.publication = mine.publication
      /\ new.decision = mine.decision /\ new.receipt = mine.receipt
      /\ new.accepted = mine.accepted
  BY <1>3, <1>4 DEF ArtifactType
<1>6. mine' = new /\ active' = active
  BY <1>2, <1>3, WroteMine
<1> HIDE DEF new
<1>7. Located'
  BY <1>2, <1>3, <1>5, <1>6 DEF Goto, Typed, Located, Idle, Attempting, AfterPanel
<1> QED BY <1>2, <1>3, <1>5, <1>7, WriteTyped DEF Goto, Typed, TypeOK

(* The cost of the optimizer enters the ledger.                            *)
LEMMA AccountOptimizerTyped ==
    ASSUME Typed, AccountOptimizer
    PROVE  Typed' /\ CoreStable
<1>1. active # None /\ mine \in ArtifactType /\ pc = "optimizer"
  BY AfterPanelTyped DEF AccountOptimizer, InPhase, AfterPanel
<1>2. mine.optimizer.cost \in Costs
  BY <1>1 DEF AccountOptimizer, ArtifactType
<1>3. pc' = "optimized" /\ mem' = mem /\ art' = art /\ st'.active = st.active => Located'
  BY <1>1 DEF Typed, Located, Idle, Attempting, AfterPanel, active, mine
<1> QED BY <1>1, <1>2, <1>3, AccountTyped DEF AccountOptimizer, Arms, Places

(* The boundary after the optimizer.                                       *)
LEMMA OptimizerDoneTyped ==
    ASSUME Typed, OptimizerDone
    PROVE  Typed' /\ CoreStable
<1>1. CASE Stop("operator-requested")
  BY <1>1, StopTyped DEF Reasons
<1>2. CASE ~Stop("operator-requested")
  <2>1. UpdateState(st) /\ Goto("validation") /\ pc = "optimized"
    BY <1>2 DEF OptimizerDone
  <2>2. Located'
    BY <2>1 DEF UpdateState, Goto, Typed, Located, Idle, Attempting, AfterPanel, active, mine
  <2> QED BY <2>1, <2>2, GotoTyped DEF Places
<1> QED BY <1>1, <1>2

(* The validation leaves a runtime or an invalid candidate.                *)
LEMMA ValidateCandidateTyped ==
    ASSUME Typed, History, ValidateCandidate
    PROVE  Typed' /\ History'
<1>1. active # None /\ mine \in ArtifactType /\ pc = "validation"
  BY AfterPanelTyped DEF ValidateCandidate, InPhase, AfterPanel
<1>2. CASE WriteArtifact([mine EXCEPT !.runtime = TRUE]) /\ Goto("built")
  <2> DEFINE new == [mine EXCEPT !.runtime = TRUE]
  <2>1. /\ new \in ArtifactType /\ new.publication = mine.publication
        /\ new.decision = mine.decision /\ new.receipt = mine.receipt
        /\ new.accepted = mine.accepted
    <3>1. new \in ArtifactType
      BY <1>1 DEF ArtifactType
    <3> QED BY <1>1, <3>1 DEF ArtifactType
  <2>2. WriteArtifact(new) /\ mine' = new /\ active' = active
    BY <1>1, <1>2, WroteMine
  <2> HIDE DEF new
  <2>3. Located'
    BY <1>1, <1>2, <2>1, <2>2 DEF Goto, Typed, Located, Idle, Attempting, AfterPanel
  <2> QED BY <1>1, <1>2, <2>1, <2>2, <2>3, WriteTyped DEF Goto, Typed, TypeOK, Places
<1>3. CASE WriteArtifact([mine EXCEPT !.candidate = "invalid"]) /\ Goto("decision")
  <2> DEFINE new == [mine EXCEPT !.candidate = "invalid"]
  <2>1. /\ new \in ArtifactType /\ new.publication = mine.publication
        /\ new.decision = mine.decision /\ new.receipt = mine.receipt
        /\ new.accepted = mine.accepted /\ new.candidate = "invalid"
    BY <1>1 DEF ArtifactType
  <2>2. WriteArtifact(new) /\ mine' = new /\ active' = active
    BY <1>1, <1>3, WroteMine
  <2> HIDE DEF new
  <2>3. Located'
    <3>1. "invalid" # None /\ "invalid" # "valid"
      BY ArtifactsAssumption
    <3> QED BY <3>1, <1>1, <1>3, <2>1, <2>2 DEF Goto, Typed, Located, Idle, Attempting, AfterPanel
  <2> QED BY <1>1, <1>3, <2>1, <2>2, <2>3, WriteTyped DEF Goto, Typed, TypeOK, Places
<1> QED BY <1>2, <1>3 DEF ValidateCandidate

(* A validation that fails or is cancelled ends the run.                   *)
LEMMA ValidationFailsTyped ==
    ASSUME Typed, ValidationFails
    PROVE  Typed' /\ CoreStable
BY FailureTyped, CancelledTyped DEF ValidationFails, Reasons

(* A valid candidate is recorded after its runtime.                        *)
LEMMA RecordValidCandidateTyped ==
    ASSUME Typed, History, RecordValidCandidate
    PROVE  Typed' /\ History'
<1> DEFINE new == [mine EXCEPT !.candidate = "valid"]
<1>1. active # None /\ mine \in ArtifactType /\ pc = "built"
  BY AfterPanelTyped DEF RecordValidCandidate, AfterPanel
<1>2. /\ new \in ArtifactType /\ new.publication = mine.publication
      /\ new.decision = mine.decision /\ new.receipt = mine.receipt
      /\ new.accepted = mine.accepted /\ new.candidate = "valid" /\ "valid" # None
  BY <1>1, ArtifactsAssumption DEF ArtifactType
<1>3. WriteArtifact(new) /\ Goto("candidate") /\ mine' = new /\ active' = active
  BY <1>1, WroteMine DEF RecordValidCandidate
<1> HIDE DEF new
<1>4. Located'
  BY <1>1, <1>2, <1>3 DEF Goto, Typed, Located, Idle, Attempting, AfterPanel
<1> QED BY <1>1, <1>2, <1>3, <1>4, WriteTyped DEF Goto, Typed, TypeOK, Places

(* A recorded candidate is replayed.                                       *)
LEMMA ReplayCandidateTyped ==
    ASSUME Typed, ReplayCandidate
    PROVE  Typed' /\ CoreStable
<1> DEFINE there == IF mine.candidate = "valid" THEN "candidate" ELSE "decision"
<1>1. there \in Places /\ UpdateState(st) /\ Goto(there)
  BY DEF ReplayCandidate, Places
<1>2. Located'
  BY <1>1 DEF ReplayCandidate, InPhase, UpdateState, Goto, Typed, Located, Idle, Attempting,
     AfterPanel, active, mine
<1> QED BY <1>1, <1>2, GotoTyped

(* An invalid candidate is decided on, a valid one evaluated.              *)
LEMMA CandidateReadyTyped ==
    ASSUME Typed, CandidateReady
    PROVE  Typed' /\ CoreStable
BY BoundaryTyped, BlockTyped DEF CandidateReady, Reasons, Contradictions

(* The candidate's arm leaves a typed receipt.                             *)
LEMMA CandidateArmRunsTyped ==
    ASSUME Typed, CandidateArmRuns
    PROVE  Typed' /\ CoreStable
<1>1. active # None /\ active \in Experiments /\ mine.accepted \in AcceptedType
  BY AfterPanelTyped DEF CandidateArmRuns, InPhase, AfterPanel
<1>2. mine.accepted.panel \in Panels /\ mine.accepted.panel.ordinal \in Ordinals
  BY <1>1 DEF AcceptedType, Panels
<1>3. active \in Revisions
  BY <1>1, Sets
<1> QED BY <1>1, <1>2, <1>3, RunJobTyped DEF CandidateArmRuns, Arms

(* A candidate's arm that fails or is cancelled ends the run.              *)
LEMMA CandidateArmFailsTyped ==
    ASSUME Typed, CandidateArmFails
    PROVE  Typed' /\ CoreStable
BY FailureTyped, CancelledTyped DEF CandidateArmFails, Reasons

(* The evaluation of the candidate is recorded once.                       *)
LEMMA RecordEvaluationTyped ==
    ASSUME Typed, History, RecordEvaluation
    PROVE  Typed' /\ History'
<1>1. PICK j \in Job("candidate", mine.accepted.panel.ordinal) :
        WriteArtifact([mine EXCEPT !.evaluation =
            [panel |-> j.panel, outcome |-> j.outcome, cost |-> j.cost]])
  BY DEF RecordEvaluation
<1> DEFINE evaluation == [panel |-> j.panel, outcome |-> j.outcome, cost |-> j.cost]
           new == [mine EXCEPT !.evaluation = evaluation]
<1>2. WriteArtifact(new) /\ Goto("evaluation") /\ pc = "evaluation"
  BY <1>1 DEF RecordEvaluation, InPhase
<1>3. active # None /\ mine \in ArtifactType
  BY <1>2, AfterPanelTyped DEF AfterPanel
<1>4. evaluation \in EvaluationType
  BY DEF Job, Typed, TypeOK, JobsTyped, JobType, EvaluationType
<1> HIDE DEF evaluation
<1>5. /\ new \in ArtifactType /\ new.publication = mine.publication
      /\ new.decision = mine.decision /\ new.receipt = mine.receipt
      /\ new.accepted = mine.accepted /\ new.candidate = mine.candidate
  BY <1>3, <1>4 DEF ArtifactType
<1>6. mine' = new /\ active' = active
  BY <1>2, <1>3, WroteMine
<1> HIDE DEF new
<1>7. Located'
  BY <1>2, <1>3, <1>5, <1>6 DEF Goto, Typed, Located, Idle, Attempting, AfterPanel
<1> QED BY <1>2, <1>3, <1>5, <1>7, WriteTyped DEF Goto, Typed, TypeOK

(* The cost of the evaluation enters the ledger.                           *)
LEMMA AccountEvaluationTyped ==
    ASSUME Typed, AccountEvaluation
    PROVE  Typed' /\ CoreStable
<1>1. active # None /\ mine \in ArtifactType /\ pc = "evaluation"
  BY AfterPanelTyped DEF AccountEvaluation, InPhase, AfterPanel
<1>2. mine.evaluation.cost \in Costs
  BY <1>1 DEF AccountEvaluation, ArtifactType, EvaluationType
<1>3. pc' = "decision" /\ mem' = mem /\ art' = art /\ st'.active = st.active => Located'
  BY <1>1 DEF Typed, Located, AccountEvaluation, Idle, Attempting, AfterPanel, active, mine
<1> QED BY <1>1, <1>2, <1>3, AccountTyped DEF AccountEvaluation, Arms, Places

---------------------------------------------------------------------------
(* Decision, publication and the installation of the champion *)

(* The decision is written while the remote cannot show the experiment.    *)
LEMMA DecideTyped ==
    ASSUME Typed, History, Decide
    PROVE  Typed' /\ History'
<1>1. CASE Block("unexpected-runner-failure")
  BY <1>1, BlockTyped, CoreStableHistory DEF Reasons
<1>2. CASE ~Block("unexpected-runner-failure")
  <2>1. /\ active # None /\ active \in Experiments /\ mine \in ArtifactType
        /\ pc = "decision" /\ mine.decision = None
    BY AfterPanelTyped DEF Decide, InPhase, AfterPanel
  <2>2. PICK d \in Dispositions :
          WriteArtifact([mine EXCEPT !.decision = d]) /\ Goto("decision")
    <3>1. CASE mine.candidate = "invalid"
      BY <1>2, <3>1 DEF Decide, Dispositions
    <3>2. CASE mine.candidate = "valid"
      <4>1. mine.evaluation \in EvaluationType
        BY <2>1, <3>2 DEF Typed, Located, ArtifactType
      <4>2. mine.evaluation.outcome \in Dispositions
        BY <4>1 DEF EvaluationType
      <4> QED BY <1>2, <3>2, <4>2 DEF Decide
    <3> QED BY <3>1, <3>2 DEF Decide
  <2> DEFINE new == [mine EXCEPT !.decision = d]
  <2>3. /\ new \in ArtifactType /\ new.publication = mine.publication
        /\ new.decision = d /\ new.receipt = mine.receipt
        /\ new.accepted = mine.accepted /\ new.candidate = mine.candidate
        /\ new.evaluation = mine.evaluation
    BY <2>1, <2>2 DEF ArtifactType
  <2>4. WriteArtifact(new) /\ mine' = new /\ active' = active /\ st' = st
    BY <2>1, <2>2, WroteMine
  <2> HIDE DEF new
  <2>5. Typed'
    <3>1. TypeOK'
      BY <2>1, <2>2, <2>3, <2>4 DEF WriteArtifact, Goto, Typed, TypeOK
    <3>2. Located'
      BY <2>1, <2>2, <2>3, <2>4 DEF Goto, Typed, Located, Idle, Attempting, AfterPanel
    <3> QED BY <3>1, <3>2, <2>4 DEF WriteArtifact, Typed, JobsTyped
  <2>6. mine.publication = None /\ mine.receipt = None /\ RemoteChampion # active
    <3>1. None \notin Dispositions /\ "promote" # None
      BY ArtifactsAssumption DEF Dispositions
    <3>2. RemoteChampion # active
      BY <2>1, <3>1 DEF History, Agreeing
    <3>3. mine.receipt = None
      BY <2>1, <3>1 DEF History, Agreeing, ArtifactType, ReceiptType
    <3> QED BY <2>1, <3>2, <3>3 DEF History, Agreeing
  <2>7. RemoteChampion' = RemoteChampion /\ remote' = remote
    BY <2>4 DEF WriteArtifact, RemoteChampion
  <2>8. Agreeing'
    BY <2>3, <2>4, <2>6, <2>7 DEF Agreeing
  <2>9. Installed(Len(remote))
    BY <2>6 DEF History, PublishedBeforeInstalled
  <2>10. Counted' /\ PublishedBeforeInstalled'
    BY <2>4, <2>7, <2>9 DEF History, Counted, PublishedBeforeInstalled, Installed, active
  <2>11. Untouched'
    BY <2>1, <2>4, Sets DEF WriteArtifact, History, Untouched, Counted, active, Typed, TypeOK,
       StateType
  <2> QED BY <2>5, <2>8, <2>10, <2>11 DEF History
<1> QED BY <1>1, <1>2

(* A promoted candidate goes to publication, any other to the advance.     *)
LEMMA DecidedTyped ==
    ASSUME Typed, Decided
    PROVE  Typed' /\ CoreStable
<1>1. CASE mine.decision = "promote" /\ ~PublicationEnabled
  BY <1>1, BlockTyped DEF Decided, Reasons
<1>2. CASE ~(mine.decision = "promote" /\ ~PublicationEnabled)
  <2> DEFINE there == IF mine.decision = "promote" THEN "publication" ELSE "advance"
  <2>1. there \in Places /\ UpdateState(st) /\ Goto(there)
    BY <1>2 DEF Decided, Places
  <2>2. Located'
    BY <2>1 DEF Decided, UpdateState, Goto, Typed, Located, Idle, Attempting, AfterPanel,
       active, mine
  <2> QED BY <2>1, <2>2, GotoTyped
<1> QED BY <1>1, <1>2

(* The push puts the remote one commit ahead of the champion.              *)
LEMMA PushChampionTyped ==
    ASSUME Typed, History, PushChampion
    PROVE  Typed' /\ History'
<1>1. CASE Block("promotion-publication-pending")
  BY <1>1, BlockTyped, CoreStableHistory DEF Reasons
<1>2. CASE ~Block("promotion-publication-pending")
  <2>1. /\ active # None /\ active \in Experiments /\ mine \in ArtifactType
        /\ pc = "publication" /\ mine.publication = None /\ mine.decision = "promote"
    BY AfterPanelTyped DEF PushChampion, InPhase, AfterPanel, Typed, Located
  <2>2. /\ remote' = Append(remote, active) /\ RemoteChampion # active
        /\ UNCHANGED <<st, catalog, stopReq, art, jobs, pc, mem, faults, requests>>
    BY <1>2, <2>1 DEF PushChampion, Goto
  <2>3. /\ remote \in Seq(Experiments) /\ remote' \in Seq(Experiments)
        /\ Len(remote') = Len(remote) + 1 /\ Len(remote) \in Nat
        /\ remote'[Len(remote')] = active /\ remote' # <<>>
        /\ \A i \in 1..Len(remote) : remote'[i] = remote[i]
    BY <2>1, <2>2 DEF Typed, TypeOK
  <2>4. RemoteChampion' = active /\ active' = active /\ mine' = mine
    BY <2>2, <2>3 DEF RemoteChampion, active, mine
  <2>5. Typed'
    <3>1. TypeOK'
      BY <2>2, <2>3 DEF Typed, TypeOK
    <3>2. Located'
      BY <2>2, <2>4 DEF Typed, Located, Attempt
    <3> QED BY <3>1, <3>2, <2>2 DEF Typed, JobsTyped
  <2>6. Untouched'
    BY <2>2, <2>4 DEF History, Untouched
  <2>7. mine.receipt = None
    BY <2>1, <2>2 DEF History, Agreeing
  <2>8. Agreeing'
    BY <2>1, <2>4, <2>7 DEF Agreeing
  <2>9. Installed(Len(remote))
    BY <2>2 DEF History, PublishedBeforeInstalled
  <2>10. Counted' /\ PublishedBeforeInstalled'
    BY <2>1, <2>2, <2>3, <2>4, <2>9 DEF History, Counted, PublishedBeforeInstalled, Installed
  <2> QED BY <2>5, <2>6, <2>8, <2>10 DEF History
<1> QED BY <1>1, <1>2

(* A publication that fails leaves the campaign pending.                   *)
LEMMA PublicationFailsTyped ==
    ASSUME Typed, PublicationFails
    PROVE  Typed' /\ CoreStable
BY FailureTyped DEF PublicationFails, Reasons

(* A publication is recorded once.                                         *)
LEMMA RecordPublicationTyped ==
    ASSUME Typed, History, RecordPublication
    PROVE  Typed' /\ History'
<1>1. /\ active # None /\ active \in Experiments /\ mine \in ArtifactType
      /\ pc = "publication" /\ RemoteChampion = active /\ mine.publication = None
  BY AfterPanelTyped DEF RecordPublication, InPhase, AfterPanel
<1> DEFINE new == [mine EXCEPT !.publication = active]
<1>2. /\ new \in ArtifactType /\ new.publication = active
      /\ new.decision = mine.decision /\ new.receipt = mine.receipt
      /\ new.accepted = mine.accepted
  BY <1>1 DEF ArtifactType
<1>3. WriteArtifact(new) /\ mine' = new /\ active' = active /\ st' = st /\ Goto("publication")
  BY <1>1, WroteMine DEF RecordPublication
<1> HIDE DEF new
<1>4. RemoteChampion' = RemoteChampion /\ remote' = remote
  BY <1>3 DEF WriteArtifact, RemoteChampion
<1>5. Typed'
  <2>1. TypeOK'
    BY <1>1, <1>2, <1>3 DEF WriteArtifact, Goto, Typed, TypeOK
  <2>2. Located'
    BY <1>1, <1>2, <1>3 DEF Goto, Typed, Located, Idle, Attempting, AfterPanel
  <2> QED BY <2>1, <2>2, <1>3 DEF WriteArtifact, Typed, JobsTyped
<1>6. Untouched'
  BY <1>1, <1>3, Sets DEF WriteArtifact, History, Untouched, Counted, active, Typed, TypeOK,
     StateType
<1>7. Agreeing'
  BY <1>1, <1>2, <1>3, <1>4 DEF History, Agreeing
<1>8. Counted' /\ PublishedBeforeInstalled'
  BY <1>2, <1>3, <1>4 DEF History, Counted, PublishedBeforeInstalled, Installed
<1> QED BY <1>5, <1>6, <1>7, <1>8 DEF History

(* A recorded publication is replayed.                                     *)
LEMMA PublishedTyped ==
    ASSUME Typed, History, Published
    PROVE  Typed' /\ CoreStable
<1>1. pc = "publication" /\ UpdateState(st) /\ Goto("advance") /\ mine.publication # None
  BY DEF Published, InPhase
<1>2. mine.publication = active
  BY <1>1, AfterPanelTyped DEF AfterPanel, History, Agreeing
<1>3. Located'
  BY <1>1, <1>2 DEF UpdateState, Goto, Typed, Located, Idle, Attempting, AfterPanel, active, mine
<1> QED BY <1>1, <1>3, GotoTyped DEF Places

(* The receipt names the commit on the remote exactly when it promotes.    *)
LEMMA AdvanceTyped ==
    ASSUME Typed, History, Advance
    PROVE  Typed' /\ History'
<1> DEFINE promoted == mine.decision = "promote"
           r == [before |-> st.champion,
                 after |-> IF promoted THEN mine.publication ELSE st.champion,
                 panel |-> mine.accepted.panel,
                 decision |-> mine.decision,
                 publication |-> IF promoted THEN mine.publication ELSE None,
                 charged |-> LedgerOf(active)]
           new == [mine EXCEPT !.receipt = r]
<1>1. /\ active # None /\ active \in Experiments /\ mine \in ArtifactType
      /\ mine.accepted \in AcceptedType /\ pc = "advance"
      /\ mine.decision # None /\ (promoted => mine.publication = active)
  BY AfterPanelTyped DEF Advance, InPhase, AfterPanel, Typed, Located
<1>2. st.champion \in Revisions
  BY DEF Typed, TypeOK, StateType
<1>3. mine.accepted.panel \in Panels /\ mine.decision \in Dispositions
  BY <1>1 DEF AcceptedType, ArtifactType
<1>4. LedgerOf(active) \in
        SUBSET [exp : Experiments, arm : Arms, ordinal : Ordinals \cup {0}, cost : Costs]
  BY DEF LedgerOf, Typed, TypeOK, StateType
<1>5. /\ r \in ReceiptType
      /\ r.decision = mine.decision /\ (promoted => r.after = active)
      /\ (~promoted => r.after = st.champion)
  BY <1>1, <1>2, <1>3, <1>4, Sets DEF ReceiptType
<1>6. r # None
  BY <1>5, ArtifactsAssumption
<1> HIDE DEF r
<1>7. /\ new \in ArtifactType /\ new.publication = mine.publication
      /\ new.decision = mine.decision /\ new.receipt = r
      /\ new.accepted = mine.accepted
  BY <1>1, <1>5 DEF ArtifactType
<1>8. WriteArtifact(new) /\ Goto("finalize")
  BY DEF Advance, r
<1>9. mine' = new /\ active' = active /\ st' = st
  BY <1>1, <1>8, WroteMine
<1> HIDE DEF new
<1>10. RemoteChampion' = RemoteChampion /\ remote' = remote
  BY <1>8 DEF WriteArtifact, RemoteChampion
<1>11. Typed'
  <2>1. TypeOK'
    BY <1>1, <1>7, <1>8 DEF WriteArtifact, Goto, Typed, TypeOK, Places
  <2>2. Located'
    BY <1>1, <1>6, <1>7, <1>8, <1>9 DEF Goto, Typed, Located, Idle, Attempting, AfterPanel
  <2> QED BY <2>1, <2>2, <1>8 DEF WriteArtifact, Typed, JobsTyped
<1>12. Untouched'
  BY <1>1, <1>8, <1>9, Sets DEF WriteArtifact, History, Untouched, Counted, active, Typed, TypeOK,
     StateType
<1>13. promoted => RemoteChampion = active
  BY <1>1, Sets DEF History, Agreeing
<1>14. Agreeing'
  BY <1>1, <1>5, <1>7, <1>9, <1>10, <1>13 DEF History, Agreeing
<1>15. Counted' /\ PublishedBeforeInstalled'
  BY <1>7, <1>9, <1>10 DEF History, Counted, PublishedBeforeInstalled, Installed
<1> QED BY <1>11, <1>12, <1>14, <1>15 DEF History

(* A valid receipt installs what the remote shows and closes the count.    *)
LEMMA FinalizeTyped ==
    ASSUME Typed, History, Finalize
    PROVE  Typed' /\ History'
<1>1. CASE Block("completed-experiment-receipt-invalid")
  BY <1>1, BlockTyped, CoreStableHistory DEF Reasons, Contradictions
<1>2. CASE ~Block("completed-experiment-receipt-invalid")
  <2> DEFINE r == mine.receipt
             promoted == r.decision = "promote"
             new == [st EXCEPT !.status = "running",
                               !.champion = r.after,
                               !.next = @ + 1,
                               !.active = None,
                               !.phase = None,
                               !.retained = IF promoted THEN None
                                            ELSE [panel |-> r.panel, revision |-> st.champion],
                               !.completed = @ + 1,
                               !.promotions = @ + (IF promoted THEN 1 ELSE 0)]
  <2>1. /\ UpdateState(new) /\ pc' = "loop" /\ pc = "finalize"
        /\ mem' = [NoMemory EXCEPT !.quota = IF mem.quota = None THEN None ELSE mem.quota - 1]
        /\ UNCHANGED <<faults, requests>>
    BY <1>2 DEF Finalize
  <2>2. /\ active # None /\ active \in Experiments /\ mine \in ArtifactType
        /\ st \in StateType /\ mem \in MemoryType /\ r # None
    BY <2>1, AfterPanelTyped DEF AfterPanel, Typed, TypeOK, Located
  <2>3. r \in ReceiptType
    BY <2>2 DEF ArtifactType
  <2>4. /\ active = st.next /\ st.active = st.next /\ st.completed = st.next - 1
        /\ st.promotions <= st.completed
        /\ st.champion < st.next /\ st.next \in 1..MaxExperiments
        /\ st.promotions \in Nat /\ st.champion \in Nat
    BY <2>2 DEF History, Counted, active, StateType, Experiments, Revisions
  <2>5. /\ promoted => r.after = active /\ RemoteChampion = active
        /\ ~promoted => r.after = st.champion /\ RemoteChampion # active
    BY <2>2, <2>3 DEF History, Agreeing
  <2> DEFINE retained == IF promoted THEN None
                         ELSE [panel |-> r.panel, revision |-> st.champion]
             more == IF promoted THEN 1 ELSE 0
  <2>6. retained \in [panel : Panels, revision : Revisions] \cup {None}
    BY <2>2, <2>3 DEF ReceiptType, StateType
  <2>7. /\ r.after \in Revisions /\ r.after < st.next + 1
        /\ st.next + 1 \in 1..(MaxExperiments + 1)
        /\ st.completed + 1 \in 0..MaxExperiments
        /\ st.promotions + more \in 0..MaxExperiments
        /\ st.promotions + more <= st.completed + 1
    BY <2>2, <2>4, <2>5, Sets, ConstantsAssumption DEF StateType
  <2>8. /\ st' = new /\ UNCHANGED <<catalog, stopReq, art, jobs, remote>>
    BY <2>1 DEF UpdateState
  <2>9. /\ st' \in StateType
        /\ st'.champion = r.after /\ st'.next = st.next + 1 /\ st'.active = None
        /\ st'.completed = st.completed + 1 /\ st'.promotions = st.promotions + more
    <3> HIDE DEF promoted, r
    <3>1. st' = [st EXCEPT !.status = "running", !.champion = r.after, !.next = st.next + 1,
                           !.active = None, !.phase = None, !.retained = retained,
                           !.completed = st.completed + 1, !.promotions = st.promotions + more]
      BY <2>2, <2>8 DEF StateType
    <3> HIDE DEF retained, more
    <3> QED BY <3>1, <2>2, <2>6, <2>7 DEF StateType, Statuses
  <2> HIDE DEF new, retained
  <2>10. mem' \in MemoryType /\ (mem'.quota = 0 => pc' = "loop")
    <3>1. mem.quota \in {1, None}
      BY <2>1, <2>2 DEF Typed, Located, MemoryType
    <3>2. (IF mem.quota = None THEN None ELSE mem.quota - 1) \in {0, None}
      BY <3>1
    <3> QED BY <2>1, <3>2, NoMemoryType DEF MemoryType
  <2>11. Typed'
    <3>1. TypeOK'
      BY <2>1, <2>8, <2>9, <2>10 DEF Typed, TypeOK, Places
    <3>2. Located'
      BY <2>1, <2>9, <2>10 DEF Located, Idle, Attempting, AfterPanel, active
    <3> QED BY <3>1, <3>2, <2>8 DEF Typed, JobsTyped
  <2>12. Untouched'
    <3> SUFFICES ASSUME NEW x \in Experiments, x > st.next + 1 \/ x = st.next + 1
                 PROVE  art[x] = NoArtifacts
      BY <2>8, <2>9 DEF Untouched, active
    <3>1. x > st.next
      BY <2>4, Sets
    <3> QED BY <3>1 DEF History, Untouched
  <2>13. Agreeing'
    BY <2>9 DEF Agreeing, active
  <2>14. Installed(Len(remote))'
    <3>1. remote \in Seq(Experiments) /\ Len(remote) \in Nat /\ (Len(remote) = 0 <=> remote = <<>>)
      BY DEF Typed, TypeOK
    <3>2. CASE promoted
      <4>1. RemoteChampion = active /\ r.after = active
        BY <2>5, <3>2
      <4>2. remote # <<>> /\ remote[Len(remote)] = active
        BY <2>2, <4>1 DEF RemoteChampion
      <4>3. ~Installed(Len(remote))
        BY <3>1, <4>2, <2>4 DEF Installed
      <4>4. Installed(Len(remote) - 1)
        BY <4>3 DEF History, PublishedBeforeInstalled
      <4> QED BY <3>1, <3>2, <4>1, <4>2, <4>4, <2>8, <2>9 DEF Installed
    <3>3. CASE ~promoted
      <4>1. Installed(Len(remote))
        BY <2>5, <3>3 DEF History, PublishedBeforeInstalled
      <4> QED BY <3>3, <4>1, <2>5, <2>8, <2>9, <2>4 DEF Installed
    <3> QED BY <3>2, <3>3
  <2>15. Counted' /\ PublishedBeforeInstalled'
    BY <2>4, <2>7, <2>9, <2>14 DEF Counted, PublishedBeforeInstalled, active
  <2> QED BY <2>11, <2>12, <2>13, <2>15 DEF History
<1> QED BY <1>1, <1>2

(* The first write of an experiment finds nothing of it on disk.           *)
LEMMA OpenExperimentTyped ==
    ASSUME Typed, History, OpenExperiment
    PROVE  Typed' /\ History'
<1>0. mem.quota # 0
  BY ArtifactsAssumption DEF OpenExperiment, LoopStopReason, Reasons
<1>1. CASE active # None
  <2>1. UpdateState(st) /\ Goto("experiment") /\ pc = "loop"
    BY <1>1 DEF OpenExperiment
  <2>2. Located'
    BY <1>0, <1>1, <2>1 DEF UpdateState, Goto, Typed, Located, Idle, Attempting, AfterPanel, active, mine
  <2> QED BY <2>1, <2>2, GotoTyped, CoreStableHistory DEF Places
<1>2. CASE active = None
  <2> DEFINE new == [st EXCEPT !.active = st.next, !.phase = "panel-screening"]
  <2>1. UpdateState(new) /\ Goto("experiment") /\ pc = "loop" /\ st.next <= MaxExperiments
    BY <1>2 DEF OpenExperiment
  <2>2. st \in StateType /\ st.next \in Experiments
    BY <2>1, ConstantsAssumption DEF Typed, TypeOK, StateType, Experiments
  <2>3. /\ new \in StateType /\ new.active = st.next /\ new.next = st.next
        /\ new.champion = st.champion /\ new.completed = st.completed
        /\ new.promotions = st.promotions
    BY <2>2 DEF StateType, Phases
  <2>4. st' = new /\ UNCHANGED <<catalog, stopReq, art, jobs, remote, mem, faults, requests>>
    BY <2>1 DEF UpdateState, Goto
  <2> HIDE DEF new
  <2>5. st.next # None
    BY <2>2, Sets
  <2>6. Typed'
    <3>1. TypeOK'
      BY <2>1, <2>3, <2>4 DEF Goto, Typed, TypeOK, Places
    <3>2. Located'
      BY <1>0, <2>1, <2>3, <2>4, <2>5 DEF Goto, Typed, Located, Idle, Attempting, AfterPanel, active
    <3> QED BY <3>1, <3>2, <2>4 DEF Typed, JobsTyped
  <2>7. Untouched' /\ art[st.next] = NoArtifacts
    BY <1>2, <2>2, <2>3, <2>4, <2>5 DEF History, Untouched, active
  <2>8. Installed(Len(remote)) /\ st.champion < st.next
    BY <1>2 DEF History, Counted
  <2>9. RemoteChampion # st.next
    <3>1. st.champion \in Nat /\ st.next \in Nat /\ remote \in Seq(Experiments)
      BY <2>2, Sets DEF StateType, Typed, TypeOK
    <3>2. CASE remote = <<>>
      BY <3>2, <2>5 DEF RemoteChampion
    <3>3. CASE remote # <<>>
      BY <3>1, <3>3, <2>8 DEF RemoteChampion, Installed
    <3> QED BY <3>2, <3>3
  <2>10. Agreeing'
    BY <2>3, <2>4, <2>7, <2>9 DEF Agreeing, active, mine, RemoteChampion, NoArtifacts
  <2>11. Counted' /\ PublishedBeforeInstalled'
    BY <2>3, <2>4, <2>5, <2>8 DEF History, Counted, PublishedBeforeInstalled, Installed, active
  <2> QED BY <2>6, <2>7, <2>10, <2>11 DEF History
<1> QED BY <1>1, <1>2

---------------------------------------------------------------------------
(* The operator, and the machine *)

(* The operator's request touches the stop file only.                      *)
LEMMA RequestStopTyped ==
    ASSUME Typed, NEW mode \in {"after-phase", "cancel-active"}, RequestStop(mode)
    PROVE  Typed' /\ CoreStable
<1>1. requests' \in 0..MaxRequests
  BY ConstantsAssumption DEF RequestStop, Typed, TypeOK
<1>2. TypeOK'
  BY <1>1 DEF RequestStop, Typed, TypeOK
<1>3. Located'
  BY DEF RequestStop, Typed, Located, active, mine, Attempt
<1> QED BY <1>2, <1>3 DEF RequestStop, Typed, JobsTyped, CoreStable

(* A crash loses the local variables and nothing on disk.                  *)
LEMMA CrashTyped ==
    ASSUME Typed, Crash
    PROVE  Typed' /\ CoreStable
<1>1. faults' \in 0..MaxFaults
  BY ConstantsAssumption DEF Crash, Typed, TypeOK
<1>2. TypeOK'
  BY <1>1, NoMemoryType DEF Crash, disk, Typed, TypeOK, Places
<1>3. Located'
  BY Sets DEF Crash, disk, Located, NoMemory, Idle, Attempting, AfterPanel, active, mine,
     Typed
<1> QED BY <1>2, <1>3 DEF Crash, disk, Typed, JobsTyped, CoreStable

---------------------------------------------------------------------------
(* The inductive invariant *)

(* The invariant is its typing part and its historical part.               *)
LEMMA InductiveParts == Inductive <=> Typed /\ History
BY DEF Inductive, Typed, History

(* The invariant holds of a campaign just initialized.                     *)
LEMMA InitInductive == Init => Inductive
<1> SUFFICES ASSUME Init PROVE Typed /\ History
  BY InductiveParts
<1>1. st \in StateType
  <2>1. <<>> \in Histories
    BY ConstantsAssumption DEF Histories
  <2> QED BY <2>1, Sets, ConstantsAssumption DEF Init, InitialState, StateType, Statuses
<1>2. TypeOK
  BY <1>1, NoMemoryType, NoArtifactsType, ConstantsAssumption DEF Init, TypeOK, Places
<1>3. Located /\ JobsTyped
  BY Sets DEF Init, InitialState, Located, JobsTyped, Idle, Attempting, AfterPanel, NoMemory, active
<1>4. Untouched /\ Agreeing
  BY DEF Init, InitialState, Untouched, Agreeing, active
<1>5. Counted /\ PublishedBeforeInstalled
  BY DEF Init, InitialState, Counted, PublishedBeforeInstalled, Installed, active
<1> QED BY <1>2, <1>3, <1>4, <1>5 DEF Typed, History

(* The steps of the loop preserve the invariant.                           *)
LEMMA CampaignInductive == Inductive /\ Campaign => Inductive'
<1> SUFFICES ASSUME Typed, History, Campaign PROVE Typed' /\ History'
  BY DEF Inductive, Typed, History
<1>1. CASE Begin
  BY <1>1, BeginTyped, CoreStableHistory
<1>2. CASE LoopStops
  BY <1>2, LoopStopsTyped, CoreStableHistory
<1>3. CASE OpenExperiment
  BY <1>3, OpenExperimentTyped
<1>4. CASE AtBound
  <2>1. UNCHANGED vars
    BY <1>4 DEF AtBound
  <2>2. Typed'
    BY <2>1 DEF vars, disk, Typed, TypeOK, Located, JobsTyped, active, mine, Attempt
  <2>3. CoreStable
    BY <2>1 DEF vars, disk, CoreStable
  <2> QED BY <2>2, <2>3, CoreStableHistory
<1>5. CASE RecordExperiment
  BY <1>5, RecordExperimentTyped
<1>6. CASE SetPhase
  BY <1>6, SetPhaseTyped, CoreStableHistory
<1> QED BY <1>1, <1>2, <1>3, <1>4, <1>5, <1>6 DEF Campaign

(* The steps of the panel's preparation preserve the invariant.            *)
LEMMA PanelInductive == Inductive /\ Panel => Inductive'
<1> SUFFICES ASSUME Typed, History, Panel PROVE Typed' /\ History'
  BY DEF Inductive, Typed, History
<1>1. CASE ReplayReuse \/ ReuseRetained
  BY <1>1, ReplayReuseTyped, ReuseRetainedTyped
<1>2. CASE ReplayAccepted \/ EnterScreening \/ ReadAttemptChain \/ ChampionRuntime
  BY <1>2, ReplayAcceptedTyped, EnterScreeningTyped, ReadAttemptChainTyped, ChampionRuntimeTyped,
     CoreStableHistory
<1>3. CASE ScreensExhausted \/ ReplayAttempt \/ ScreenOverBudget \/ ChampionArmRuns
  BY <1>3, ScreensExhaustedTyped, ReplayAttemptTyped, ScreenOverBudgetTyped,
     ChampionArmRunsTyped, CoreStableHistory
<1>4. CASE RecordAttempt \/ PanelAccepted
  BY <1>4, RecordAttemptTyped, PanelAcceptedTyped
<1>5. CASE AccountAttempt \/ ReconcileHistory \/ ReconcileCatalog
  BY <1>5, AccountAttemptTyped, ReconcileHistoryTyped, ReconcileCatalogTyped, CoreStableHistory
<1>6. CASE PanelSaturated \/ PanelInfrastructureInvalid \/ PanelPrepared
  BY <1>6, PanelSaturatedTyped, PanelInfrastructureInvalidTyped, PanelPreparedTyped,
     CoreStableHistory
<1> QED BY <1>1, <1>2, <1>3, <1>4, <1>5, <1>6 DEF Panel

(* The steps of optimizer, validation and evaluation preserve the          *)
(* invariant.                                                              *)
LEMMA CandidateInductive == Inductive /\ Candidate => Inductive'
<1> SUFFICES ASSUME Typed, History, Candidate PROVE Typed' /\ History'
  BY DEF Inductive, Typed, History
<1>1. CASE OptimizerRuns \/ AccountOptimizer \/ OptimizerDone \/ ReplayCandidate
  BY <1>1, OptimizerRunsTyped, AccountOptimizerTyped, OptimizerDoneTyped, ReplayCandidateTyped,
     CoreStableHistory
<1>2. CASE CandidateReady \/ CandidateArmRuns \/ AccountEvaluation
  BY <1>2, CandidateReadyTyped, CandidateArmRunsTyped, AccountEvaluationTyped, CoreStableHistory
<1>3. CASE RecordOptimizer \/ ValidateCandidate \/ RecordValidCandidate \/ RecordEvaluation
  BY <1>3, RecordOptimizerTyped, ValidateCandidateTyped, RecordValidCandidateTyped,
     RecordEvaluationTyped
<1> QED BY <1>1, <1>2, <1>3 DEF Candidate

(* Decision, publication, advance and finalization preserve the invariant. *)
LEMMA ConclusionInductive == Inductive /\ Conclusion => Inductive'
<1> SUFFICES ASSUME Typed, History, Conclusion PROVE Typed' /\ History'
  BY DEF Inductive, Typed, History
<1>1. CASE Decide \/ PushChampion \/ RecordPublication \/ Advance \/ Finalize
  BY <1>1, DecideTyped, PushChampionTyped, RecordPublicationTyped, AdvanceTyped, FinalizeTyped
<1>2. CASE Decided \/ Published
  BY <1>2, DecidedTyped, PublishedTyped, CoreStableHistory
<1> QED BY <1>1, <1>2 DEF Conclusion

(* Starts, requests, failures and crashes preserve the invariant.          *)
LEMMA EnvironmentInductive ==
    ASSUME Inductive,
           \/ \E resume \in BOOLEAN : Start(resume)
           \/ \E mode \in {"after-phase", "cancel-active"} : RequestStop(mode)
           \/ OperationFails
           \/ Crash
    PROVE  Inductive'
<1> SUFFICES ASSUME Typed, History PROVE Typed' /\ CoreStable
  BY CoreStableHistory DEF Inductive, Typed, History
<1>1. ASSUME NEW resume \in BOOLEAN, Start(resume) PROVE Typed' /\ CoreStable
  BY <1>1, StartTyped
<1>2. ASSUME NEW mode \in {"after-phase", "cancel-active"}, RequestStop(mode)
      PROVE  Typed' /\ CoreStable
  BY <1>2, RequestStopTyped
<1>3. CASE OperationFails
  BY <1>3, ChampionArmFailsTyped, OptimizerFailsTyped, ValidationFailsTyped,
     CandidateArmFailsTyped, PublicationFailsTyped DEF OperationFails
<1>4. CASE Crash
  BY <1>4, CrashTyped
<1> QED BY <1>1, <1>2, <1>3, <1>4

(* Every step preserves the invariant.                                     *)
LEMMA NextInductive == Inductive /\ [Next]_vars => Inductive'
<1> SUFFICES ASSUME Inductive, [Next]_vars PROVE Inductive'
  OBVIOUS
<1>1. CASE Progress
  BY <1>1, CampaignInductive, PanelInductive, CandidateInductive, ConclusionInductive
     DEF Progress
<1>2. CASE \/ \E resume \in BOOLEAN : Start(resume)
           \/ \E mode \in {"after-phase", "cancel-active"} : RequestStop(mode)
           \/ OperationFails
           \/ Crash
  BY <1>2, EnvironmentInductive
<1>3. CASE UNCHANGED vars
  <2>1. Typed'
    BY <1>3, InductiveParts DEF vars, disk, Typed, TypeOK, Located, JobsTyped, active, mine, Attempt
  <2>2. CoreStable
    BY <1>3 DEF vars, disk, CoreStable
  <2> QED BY <2>1, <2>2, InductiveParts, CoreStableHistory DEF Inductive, Typed, History
<1> QED BY <1>1, <1>2, <1>3 DEF Next

(* The inductive invariant holds of every behaviour of the runner.         *)
THEOREM InductiveInvariant == Spec => []Inductive
BY InitInductive, NextInductive, PTL DEF Spec

(* Every durable file and local variable keeps its type: runner.ts never   *)
(* writes an artifact that a later runner could not read.                  *)
THEOREM TypeCorrect == Spec => []TypeOK
<1>1. Inductive => TypeOK
  BY DEF Inductive
<1> QED BY <1>1, InductiveInvariant, PTL

(* Whatever crashes, lost push results, stop requests and budget stops the *)
(* runner goes through, the champion installed in runner-state.json is one *)
(* the remote already shows, and the remote is at most the commit of the   *)
(* active, promoted experiment ahead of it.                                *)
THEOREM ChampionPublishedFirst == Spec => []PublishedBeforeInstalled
<1>1. Inductive => PublishedBeforeInstalled
  BY DEF Inductive
<1> QED BY <1>1, InductiveInvariant, PTL

---------------------------------------------------------------------------
(* The runner implements the campaign's promise: the refinement that the   *)
(* run runner_crash checks on a small instance.                            *)

(* A step the promise does not see. *)
Quiet ==
    /\ st'.champion = st.champion /\ st'.next = st.next
    /\ st'.ledger = st.ledger /\ remote' = remote

PromiseCharges == [exp : Experiments, arm : Arms, ordinal : Ordinals \cup {0}, cost : Costs]

(* A step the promise does not see is a stutter of it.                     *)
LEMMA QuietStutters == Quiet => UNCHANGED Promise!vars
BY DEF Quiet, Promise!vars

(* The end of an invocation, a write of an artifact, a job, a move.        *)
LEMMA FinishQuiet ==
    ASSUME Typed, NEW s, NEW r, Finish(s, r)
    PROVE  Quiet
BY DEF Finish, UpdateState, Quiet, Typed, TypeOK, StateType

(* A stop is a step the promise does not see.                              *)
LEMMA StopQuiet == ASSUME Typed, NEW r, Stop(r) PROVE Quiet
BY FinishQuiet DEF Stop

(* A blocked campaign is a step the promise does not see.                  *)
LEMMA BlockQuiet == ASSUME Typed, NEW r, Block(r) PROVE Quiet
BY FinishQuiet DEF Block

(* A failed operation is a step the promise does not see.                  *)
LEMMA FailureQuiet == ASSUME Typed, NEW r, Failure(r) PROVE Quiet
BY FinishQuiet DEF Failure

(* A cancellation is a step the promise does not see.                      *)
LEMMA CancelledQuiet == ASSUME Typed, Cancelled PROVE Quiet
BY StopQuiet DEF Cancelled

(* An artifact by itself is a step the promise does not see.               *)
LEMMA WriteQuiet == ASSUME NEW new, WriteArtifact(new) PROVE Quiet
BY DEF WriteArtifact, Quiet

(* An unchanged state is a step the promise does not see.                  *)
LEMMA StayQuiet == ASSUME UpdateState(st) PROVE Quiet
BY DEF UpdateState, Quiet

(* accountCost charges the experiment in progress, or nothing.             *)
LEMMA AccountCharges ==
    ASSUME Typed, History, active # None, NEW arm \in Arms, NEW o \in Ordinals \cup {0},
           NEW c \in Costs, NEW there, AccountCost(arm, o, c, there)
    PROVE  Quiet \/ \E l \in PromiseCharges : Promise!Charge(l)
<1>1. CASE Block("model-cost-replay-diverged")
  BY <1>1, BlockQuiet
<1>2. CASE ~Block("model-cost-replay-diverged") /\ EntriesFor(st.ledger, active, arm, o) # {}
  BY <1>2, StayQuiet DEF AccountCost
<1>3. CASE ~Block("model-cost-replay-diverged") /\ EntriesFor(st.ledger, active, arm, o) = {}
  <2> DEFINE l == LedgerEntry(active, arm, o, c)
  <2>1. /\ active = st.next /\ active \in Experiments /\ st.next \in Nat
        /\ st \in StateType
    BY DEF History, Counted, Typed, TypeOK, StateType, active
  <2>2. l \in PromiseCharges /\ l.exp = st.next
    BY <2>1 DEF LedgerEntry, PromiseCharges
  <2>3. UpdateState([st EXCEPT !.ledger = @ \cup {l}])
    BY <1>3 DEF AccountCost
  <2> HIDE DEF l
  <2>4. /\ st'.ledger = st.ledger \cup {l} /\ remote' = remote
        /\ st'.champion = st.champion /\ st'.next = st.next
    BY <2>1, <2>3 DEF UpdateState, StateType
  <2>5. Promise!Charge(l)
    BY <2>1, <2>2, <2>4, Sets DEF Promise!Charge, Promise!Current
  <2> QED BY <2>2, <2>5
<1> QED BY <1>1, <1>2, <1>3

(* Pushing is on top of the champion. *)
LEMMA PushPushes ==
    ASSUME Typed, History, PushChampion
    PROVE  Quiet \/ Promise!Push
<1>1. CASE Block("promotion-publication-pending")
  BY <1>1, BlockQuiet
<1>2. CASE ~Block("promotion-publication-pending")
  <2>1. /\ RemoteChampion \in {None, st.champion} /\ RemoteChampion # active
        /\ remote' = Append(remote, active) /\ st' = st
    BY <1>2 DEF PushChampion
  <2>2. active # None /\ active = st.next /\ st.next \in Nat
    BY AfterPanelTyped DEF PushChampion, InPhase, AfterPanel, History, Counted, Typed, TypeOK,
       StateType
  <2>3. Installed(Len(remote))
    BY <2>1 DEF History, PublishedBeforeInstalled
  <2>4. remote \in Seq(Experiments)
    BY DEF Typed, TypeOK
  <2>5. Promise!RemoteChampion = st.champion
    BY <2>3, <2>4 DEF Promise!RemoteChampion, Installed
  <2>6. Promise!Push
    BY <2>1, <2>2, <2>5 DEF Promise!Push, Promise!Current
  <2> QED BY <2>6
<1> QED BY <1>1, <1>2

(* Finalizing installs what the remote shows. *)
LEMMA FinalizeCompletes ==
    ASSUME Typed, History, Finalize, Inductive'
    PROVE  Quiet \/ Promise!Complete
<1>1. CASE Block("completed-experiment-receipt-invalid")
  BY <1>1, BlockQuiet
<1>2. CASE ~Block("completed-experiment-receipt-invalid")
  <2>1. /\ st'.next = st.next + 1 /\ st'.active = None /\ st'.ledger = st.ledger
        /\ remote' = remote
    BY <1>2 DEF Finalize, UpdateState, Typed, TypeOK, StateType
  <2>2. st.next \in Nat /\ remote \in Seq(Experiments)
    BY DEF Typed, TypeOK, StateType
  <2>3. Installed(Len(remote))'
    BY <2>1 DEF Inductive, Counted, active
  <2>4. st'.champion = Promise!RemoteChampion
    BY <2>1, <2>2, <2>3 DEF Installed, Promise!RemoteChampion
  <2> QED BY <2>1, <2>2, <2>4 DEF Promise!Complete, Promise!Current
<1> QED BY <1>1, <1>2

(* The promise sees no step of the loop.                                   *)
LEMMA CampaignRefines ==
    ASSUME Typed, History, Campaign PROVE Quiet
<1>1. CASE Begin
  BY <1>1 DEF Begin, UpdateState, Quiet, Typed, TypeOK, StateType
<1>2. CASE LoopStops
  BY <1>2, StopQuiet DEF LoopStops
<1>3. CASE OpenExperiment
  BY <1>3 DEF OpenExperiment, UpdateState, Quiet, Typed, TypeOK, StateType
<1>4. CASE AtBound
  BY <1>4 DEF AtBound, vars, disk, Quiet
<1>5. CASE RecordExperiment
  BY <1>5, BlockQuiet, WriteQuiet DEF RecordExperiment
<1>6. CASE SetPhase
  BY <1>6 DEF SetPhase, UpdateState, Quiet, Typed, TypeOK, StateType
<1> QED BY <1>1, <1>2, <1>3, <1>4, <1>5, <1>6 DEF Campaign

(* Of the panel's preparation the promise sees the charges.                *)
LEMMA PanelRefines ==
    ASSUME Typed, History, Panel
    PROVE  Quiet \/ \E l \in PromiseCharges : Promise!Charge(l)
<1>1. CASE ReplayReuse \/ ReuseRetained
  BY <1>1, BlockQuiet, WriteQuiet DEF ReplayReuse, ReuseRetained
<1>2. CASE ReplayAccepted
  <2>1. CASE Block("retained-panel-reuse-evidence-missing")
    BY <2>1, BlockQuiet
  <2>2. CASE AccountCost("panel", mine.accepted.panel.ordinal, mine.accepted.cost, "prepared")
    <3>1. active # None /\ mine \in ArtifactType
      BY <1>2 DEF Typed, TypeOK, StateType, Located, ReplayAccepted, Idle, mine, active
    <3>2. mine.accepted.panel.ordinal \in Ordinals \cup {0} /\ mine.accepted.cost \in Costs
      BY <1>2, <3>1 DEF ReplayAccepted, ArtifactType, AcceptedType, Panels
    <3> QED BY <2>2, <3>1, <3>2, AccountCharges DEF Arms
  <2> QED BY <1>2, <2>1, <2>2 DEF ReplayAccepted
<1>3. CASE EnterScreening
  BY <1>3 DEF EnterScreening, UpdateState, Quiet, Typed, TypeOK, StateType
<1>4. CASE ReadAttemptChain \/ ChampionRuntime \/ ScreensExhausted
  BY <1>4, BlockQuiet, StayQuiet, FailureQuiet, CancelledQuiet
     DEF ReadAttemptChain, ChampionRuntime, ScreensExhausted
<1>5. CASE ReplayAttempt \/ ScreenOverBudget
  BY <1>5, StayQuiet, StopQuiet DEF ReplayAttempt, ScreenOverBudget
<1>6. CASE ChampionArmRuns
  BY <1>6 DEF ChampionArmRuns, RunJob, Quiet
<1>7. CASE RecordAttempt \/ PanelAccepted
  BY <1>7, BlockQuiet, WriteQuiet DEF RecordAttempt, PanelAccepted
<1>8. CASE AccountAttempt
  <2>1. /\ active # None /\ mem.ordinal \in Ordinals
        /\ Attempt(mem.ordinal) \in AttemptType
    BY <1>8, AttemptTyped DEF AccountAttempt, Attempting
  <2>2. Attempt(mem.ordinal).cost \in Costs
    BY <2>1 DEF AttemptType
  <2> QED BY <1>8, <2>1, <2>2, AccountCharges DEF AccountAttempt, Arms
<1>9. CASE ReconcileHistory
  <2>1. CASE Block("panel-history-replay-diverged")
    BY <2>1, BlockQuiet
  <2>2. CASE ~Block("panel-history-replay-diverged")
    BY <1>9, <2>2 DEF ReconcileHistory, UpdateState, Quiet, Typed, TypeOK, StateType
  <2> QED BY <2>1, <2>2
<1>10. CASE ReconcileCatalog
  BY <1>10, BlockQuiet DEF ReconcileCatalog, Quiet
<1>11. CASE PanelSaturated \/ PanelInfrastructureInvalid
  BY <1>11, StayQuiet, BlockQuiet DEF PanelSaturated, PanelInfrastructureInvalid, NextOrdinal
<1>12. CASE PanelPrepared
  BY <1>12, StayQuiet, StopQuiet DEF PanelPrepared, Boundary
<1> QED BY <1>1, <1>2, <1>3, <1>4, <1>5, <1>6, <1>7, <1>8, <1>9, <1>10, <1>11, <1>12 DEF Panel

(* Of the candidate's steps the promise sees the charges.                  *)
LEMMA CandidateRefines ==
    ASSUME Typed, History, Candidate
    PROVE  Quiet \/ \E l \in PromiseCharges : Promise!Charge(l)
<1>1. CASE OptimizerRuns \/ CandidateArmRuns
  BY <1>1 DEF OptimizerRuns, CandidateArmRuns, RunJob, Quiet
<1>2. CASE RecordOptimizer \/ RecordEvaluation
  BY <1>2, WriteQuiet DEF RecordOptimizer, RecordEvaluation
<1>3. CASE AccountOptimizer
  <2>1. active # None /\ mine \in ArtifactType
    BY <1>3, AfterPanelTyped DEF AccountOptimizer, InPhase, AfterPanel
  <2>2. mine.optimizer.cost \in Costs
    BY <1>3, <2>1 DEF AccountOptimizer, ArtifactType
  <2> QED BY <1>3, <2>1, <2>2, AccountCharges DEF AccountOptimizer, Arms
<1>4. CASE AccountEvaluation
  <2>1. active # None /\ mine \in ArtifactType
    BY <1>4, AfterPanelTyped DEF AccountEvaluation, InPhase, AfterPanel
  <2>2. mine.evaluation.cost \in Costs
    BY <1>4, <2>1 DEF AccountEvaluation, ArtifactType, EvaluationType
  <2> QED BY <1>4, <2>1, <2>2, AccountCharges DEF AccountEvaluation, Arms
<1>5. CASE OptimizerDone \/ ReplayCandidate
  BY <1>5, StayQuiet, StopQuiet DEF OptimizerDone, ReplayCandidate
<1>6. CASE ValidateCandidate \/ RecordValidCandidate
  BY <1>6, WriteQuiet DEF ValidateCandidate, RecordValidCandidate
<1>7. CASE CandidateReady
  BY <1>7, StayQuiet, StopQuiet, BlockQuiet DEF CandidateReady, Boundary
<1> QED BY <1>1, <1>2, <1>3, <1>4, <1>5, <1>6, <1>7 DEF Candidate

(* Of the conclusion the promise sees the push and the completion.         *)
LEMMA ConclusionRefines ==
    ASSUME Typed, History, Conclusion, Inductive'
    PROVE  Quiet \/ Promise!Push \/ Promise!Complete
<1>1. CASE PushChampion
  BY <1>1, PushPushes
<1>2. CASE Finalize
  BY <1>2, FinalizeCompletes
<1>3. CASE Decide \/ RecordPublication \/ Advance
  BY <1>3, BlockQuiet, WriteQuiet DEF Decide, RecordPublication, Advance
<1>4. CASE Decided \/ Published
  BY <1>4, BlockQuiet, StayQuiet DEF Decided, Published
<1> QED BY <1>1, <1>2, <1>3, <1>4 DEF Conclusion

(* The promise sees no start, request, failure or crash.                   *)
LEMMA EnvironmentQuiet ==
    ASSUME Typed,
           \/ \E resume \in BOOLEAN : Start(resume)
           \/ \E mode \in {"after-phase", "cancel-active"} : RequestStop(mode)
           \/ OperationFails
           \/ Crash
    PROVE  Quiet
<1>1. CASE OperationFails
  BY <1>1, FailureQuiet, CancelledQuiet DEF OperationFails, ChampionArmFails, OptimizerFails,
     ValidationFails, CandidateArmFails, PublicationFails
<1>2. CASE ~OperationFails
  BY <1>2 DEF Start, RequestStop, Crash, disk, Quiet
<1> QED BY <1>1, <1>2

(* Every step of the runner is one of the promise or a stutter.            *)
LEMMA StepRefines ==
    Inductive /\ Inductive' /\ [Next]_vars => [Promise!Next]_Promise!vars
<1> SUFFICES ASSUME Inductive, Inductive', [Next]_vars
             PROVE  [Promise!Next]_Promise!vars
  OBVIOUS
<1>1. Typed /\ History
  BY DEF Inductive, Typed, History
<1>2. CASE Progress
  <2>1. \/ Quiet \/ Promise!Push \/ Promise!Complete
        \/ \E l \in PromiseCharges : Promise!Charge(l)
    BY <1>1, <1>2, CampaignRefines, PanelRefines, CandidateRefines, ConclusionRefines DEF Progress
  <2> QED BY <2>1, QuietStutters DEF Promise!Next, PromiseCharges
<1>3. CASE \/ \E resume \in BOOLEAN : Start(resume)
           \/ \E mode \in {"after-phase", "cancel-active"} : RequestStop(mode)
           \/ OperationFails
           \/ Crash
  BY <1>1, <1>3, EnvironmentQuiet, QuietStutters
<1>4. CASE UNCHANGED vars
  BY <1>4, QuietStutters DEF vars, disk, Quiet
<1> QED BY <1>2, <1>3, <1>4 DEF Next

(* The runner keeps the campaign's promise, for every budget, number of    *)
(* attempts, window and pattern of crashes, failures and stop requests:    *)
(* champions are pushed once, in order, on top of the installed one, and   *)
(* every charge is of the experiment in progress.                          *)
THEOREM RunnerKeepsPromise == Spec => KeepsPromise
<1>1. Init => Promise!Init
  BY DEF Init, InitialState, Promise!Init
<1>2. Inductive /\ Inductive' /\ [Next]_vars => [Promise!Next]_Promise!vars
  BY StepRefines
<1> QED BY <1>1, <1>2, InductiveInvariant, PTL DEF Spec, KeepsPromise, Promise!Spec

(* The promise's own variables keep their types.                           *)
LEMMA PromiseTyped == Promise!Spec => []Promise!TypeOK
<1>1. Promise!Init => Promise!TypeOK
  BY DEF Promise!Init, Promise!TypeOK
<1>2. Promise!TypeOK /\ [Promise!Next]_Promise!vars => Promise!TypeOK'
  <2> SUFFICES ASSUME Promise!TypeOK, [Promise!Next]_Promise!vars PROVE Promise!TypeOK'
    OBVIOUS
  <2>1. CASE Promise!Push
    BY <2>1 DEF Promise!TypeOK, Promise!Push, Promise!Current
  <2>2. CASE Promise!Complete
    <3>1. Promise!RemoteChampion \in Nat
      BY DEF Promise!TypeOK, Promise!RemoteChampion
    <3> QED BY <2>2, <3>1 DEF Promise!TypeOK, Promise!Complete, Promise!Current
  <2>3. ASSUME NEW l \in PromiseCharges, Promise!Charge(l) PROVE Promise!TypeOK'
    BY <2>3 DEF Promise!TypeOK, Promise!Charge, PromiseCharges
  <2>4. CASE UNCHANGED Promise!vars
    BY <2>4 DEF Promise!TypeOK, Promise!vars
  <2> QED BY <2>1, <2>2, <2>3, <2>4 DEF Promise!Next, PromiseCharges
<1> QED BY <1>1, <1>2, PTL DEF Promise!Spec

(* Whatever keeps the promise is never two commits ahead.                  *)
LEMMA PromiseNeverTwoAhead == Promise!Spec => []Promise!InstalledOrInFlight
<1>1. Promise!Init => Promise!InstalledOrInFlight
  BY DEF Promise!Init, Promise!InstalledOrInFlight, Promise!RemoteChampion
<1>2. /\ Promise!TypeOK /\ Promise!InstalledOrInFlight /\ [Promise!Next]_Promise!vars
      => Promise!InstalledOrInFlight'
  <2> SUFFICES ASSUME Promise!TypeOK, Promise!InstalledOrInFlight, [Promise!Next]_Promise!vars
               PROVE  Promise!InstalledOrInFlight'
    OBVIOUS
  <2>1. CASE Promise!Push
    <3>1. remote' # <<>> /\ remote'[Len(remote')] = Promise!Current
      BY <2>1 DEF Promise!TypeOK, Promise!Push, Promise!Current
    <3> QED BY <2>1, <3>1 DEF Promise!InstalledOrInFlight, Promise!RemoteChampion, Promise!Push,
            Promise!Current
  <2>2. CASE Promise!Complete
    BY <2>2 DEF Promise!InstalledOrInFlight, Promise!RemoteChampion, Promise!Complete
  <2>3. ASSUME NEW l \in PromiseCharges, Promise!Charge(l) PROVE Promise!InstalledOrInFlight'
    BY <2>3 DEF Promise!InstalledOrInFlight, Promise!RemoteChampion, Promise!Charge, Promise!Current
  <2>4. CASE UNCHANGED Promise!vars
    BY <2>4 DEF Promise!InstalledOrInFlight, Promise!RemoteChampion, Promise!vars, Promise!Current
  <2> QED BY <2>1, <2>2, <2>3, <2>4 DEF Promise!Next, PromiseCharges
<1> QED BY <1>1, <1>2, PromiseTyped, PTL DEF Promise!Spec

(* The remote is at most the commit of the experiment in progress ahead of *)
(* the champion the runner has installed, whatever it has been through.    *)
THEOREM NeverTwoAhead == Spec => []Promise!InstalledOrInFlight
BY RunnerKeepsPromise, PromiseNeverTwoAhead DEF KeepsPromise

---------------------------------------------------------------------------
(* Steps that leave the disk as it is *)

(* What the layers depend on, the place and the memory apart. *)
Still ==
    /\ UNCHANGED <<catalog, art, jobs>>
    /\ st'.active = st.active /\ st'.next = st.next /\ st'.champion = st.champion
    /\ st'.retained = st.retained /\ st'.history = st.history /\ st'.ledger = st.ledger

(* A step after which no experiment is being worked on, and nothing is     *)
(* remembered of one, or a runner that is where it was.                    *)
Ends == Still /\ pc' \in Idle /\ (mem'.excluded = {} \/ (pc \in Idle /\ mem' = mem))
Stays == Still /\ pc' = pc /\ mem' = mem

(* An invocation that ends changes the status and the reason only.         *)
LEMMA FinishEnds ==
    ASSUME Typed, NEW s, NEW r, Finish(s, r)
    PROVE  Ends
<1>1. Still /\ pc' \in Idle
  BY DEF Finish, UpdateState, Still, Idle, Typed, TypeOK, StateType
<1>2. mem'.excluded = {}
  BY DEF Finish, NoMemory
<1> QED BY <1>1, <1>2 DEF Ends

(* A stop ends the invocation.                                             *)
LEMMA StopEnds == ASSUME Typed, NEW r, Stop(r) PROVE Ends
BY FinishEnds DEF Stop

(* A contradiction on disk, or a refused operation, ends the invocation.   *)
LEMMA BlockEnds == ASSUME Typed, NEW r, Block(r) PROVE Ends
BY FinishEnds DEF Block

(* A failed or cancelled operation ends the invocation.                    *)
LEMMA OperationFailsEnds == ASSUME Typed, OperationFails PROVE Ends
<1>1. ASSUME NEW r, Failure(r) PROVE Ends
  BY <1>1, FinishEnds DEF Failure
<1>2. ASSUME Cancelled PROVE Ends
  BY <1>2, StopEnds DEF Cancelled
<1> QED BY <1>1, <1>2 DEF OperationFails, ChampionArmFails, OptimizerFails, ValidationFails,
     CandidateArmFails, PublicationFails

(* A crash, a start and the first step of an invocation are not at work on *)
(* an experiment.                                                          *)
LEMMA OutsideEnds ==
    ASSUME Typed, Crash \/ Begin \/ LoopStops \/ \E resume \in BOOLEAN : Start(resume)
    PROVE  Ends
<1>1. CASE Crash \/ \E resume \in BOOLEAN : Start(resume)
  <2>1. mem'.excluded = {}
    BY <1>1 DEF Crash, Start, NoMemory
  <2> QED BY <1>1, <2>1 DEF Crash, disk, Start, Ends, Still, Idle
<1>2. CASE Begin
  BY <1>2 DEF Begin, UpdateState, Goto, Ends, Still, Idle, Typed, TypeOK, StateType
<1>3. CASE LoopStops
  BY <1>3, StopEnds DEF LoopStops
<1> QED BY <1>1, <1>2, <1>3

(* The runner stays where it is: a phase that begins, a request, a push.   *)
LEMMA RestStays ==
    ASSUME Typed, \/ SetPhase \/ AtBound \/ UNCHANGED vars
                  \/ \E mode \in {"after-phase", "cancel-active"} : RequestStop(mode)
                  \/ PushChampion
    PROVE  Stays \/ Ends
<1>1. CASE SetPhase
  BY <1>1 DEF SetPhase, UpdateState, Goto, Stays, Still, Typed, TypeOK, StateType
<1>2. CASE AtBound \/ UNCHANGED vars
  BY <1>2 DEF AtBound, vars, disk, Stays, Still
<1>3. CASE \E mode \in {"after-phase", "cancel-active"} : RequestStop(mode)
  BY <1>3 DEF RequestStop, Stays, Still
<1>4. CASE PushChampion
  <2>1. CASE Block("promotion-publication-pending")
    BY <2>1, BlockEnds
  <2>2. CASE ~Block("promotion-publication-pending")
    BY <1>4, <2>2 DEF PushChampion, InPhase, Goto, Stays, Still
  <2> QED BY <2>1, <2>2
<1> QED BY <1>1, <1>2, <1>3, <1>4

---------------------------------------------------------------------------
(* The files of the active experiment *)

Replaying == {"chain", "runtime", "screen"} \cup Attempting

(* A panel taken over is the one the experiment before it was accepted on. *)
ReuseFiled == active # None /\ mine.reused # None =>
    /\ mine.reused.source = active - 1
    /\ mine.accepted # None => mine.accepted = art[active - 1].accepted

(* Any other panel is the experiment's own accepted attempt. *)
AcceptanceFiled == active # None /\ mine.reused = None /\ mine.accepted # None =>
    \E o \in Ordinals : /\ Attempt(o) # None /\ Attempt(o).outcome = "accepted"
                        /\ mine.accepted = AcceptedFrom(Attempt(o))

(* An attempt leads from the history and catalog it found to its own, and  *)
(* all before it were made and not accepted.                               *)
TriedBefore(o) == \A i \in Ordinals :
    i < o => Attempt(i) # None /\ Attempt(i).outcome # "accepted"

Link(o) ==
    /\ Attempt(o).panel.exp = active /\ Attempt(o).panel.ordinal = o
    /\ Attempt(o).historyAfter = HistoryAfter(Attempt(o).historyBefore, Attempt(o).outcome)
    /\ Attempt(o).catalogAfter = CatalogAfter(Attempt(o).catalogBefore, Attempt(o).outcome, o)
    /\ TriedBefore(o)

Chained == active # None => \A o \in Ordinals : Attempt(o) # None => Link(o)

RuntimeFiled == active # None /\ mine.candidate = "valid" => mine.runtime

(* A retained panel is the one of the experiment that is just over. *)
RetainedFiled == st.retained # None => st.next >= 2 /\ art[st.next - 1].accepted # None

(* A receipt is the last file, and sums up the others and the ledger. *)
ReceiptFiled == active # None /\ mine.receipt # None =>
    /\ pc \in Idle \cup {"experiment", "finalize"}
    /\ mine.accepted # None
    /\ mine.receipt.before = st.champion
    /\ mine.receipt.panel = mine.accepted.panel
    /\ mine.receipt.charged = LedgerOf(active)
    /\ mine.receipt.publication = IF mine.receipt.decision = "promote"
                                  THEN mine.receipt.after ELSE None

(* What is known of the files at each place. *)
Staged ==
    /\ pc \in Replaying => mine.reused = None /\ mine.accepted = None /\ ~Retained
    /\ pc = "built" => mine.runtime
    /\ pc \in {"candidate", "evaluation"} => mine.candidate = "valid"

Tried == pc \in {"screen"} \cup Attempting => TriedBefore(mem.ordinal)

Documents == ReuseFiled /\ AcceptanceFiled /\ Chained /\ RuntimeFiled /\ RetainedFiled
Documented == Documents /\ ReceiptFiled /\ Staged /\ Tried

(* What the documents depend on; the ledger, the receipts of the adapter,  *)
(* the history and the catalog may change.                                 *)
Unwritten ==
    /\ art' = art /\ st'.active = st.active /\ st'.next = st.next
    /\ st'.champion = st.champion /\ st'.retained = st.retained

(* Nothing else is read back from files that did not change.               *)
LEMMA StillDocuments == ASSUME Documents, Unwritten PROVE Documents'
<1>1. ReuseFiled' /\ AcceptanceFiled' /\ RuntimeFiled' /\ RetainedFiled'
  BY DEF Documents, Unwritten, ReuseFiled, AcceptanceFiled, RuntimeFiled, RetainedFiled, active, mine,
     Attempt
<1>2. Chained'
  BY DEF Documents, Unwritten, Chained, Link, TriedBefore, active, mine, Attempt, CatalogAfter
<1> QED BY <1>1, <1>2 DEF Documents

(* The end of an invocation leaves the files as they are.                  *)
LEMMA EndsDocumented == ASSUME Documented, Ends PROVE Documented'
<1>1. Documents' /\ ReceiptFiled'
  BY StillDocuments DEF Documented, Ends, Still, Unwritten, ReceiptFiled, active, mine, LedgerOf
<1>2. Staged' /\ Tried'
  BY DEF Ends, Staged, Tried, Idle, Replaying, Attempting
<1> QED BY <1>1, <1>2 DEF Documented

(* A runner that stays where it is leaves the files as they are.           *)
LEMMA StaysDocumented == ASSUME Documented, Stays PROVE Documented'
<1>1. Documents' /\ ReceiptFiled'
  BY StillDocuments DEF Documented, Stays, Still, Unwritten, ReceiptFiled, active, mine, LedgerOf
<1>2. Staged' /\ Tried'
  BY DEF Documented, Stays, Still, Staged, Tried, TriedBefore, Attempt, active, mine, Retained
<1> QED BY <1>1, <1>2 DEF Documented

(* Between the panel and the advance there is no receipt yet.              *)
LEMMA NoReceiptYet ==
    ASSUME Typed, Documented, pc \notin Idle \cup {"experiment", "finalize"}
    PROVE  /\ active # None /\ active \in Experiments /\ mine \in ArtifactType
           /\ mine.receipt = None
BY DEF Typed, TypeOK, StateType, Located, Idle, Documented, ReceiptFiled, active, mine

(* A runner that moves on from a place without a receipt, writing no file, *)
(* need only know what its new place says.                                 *)
LEMMA MoveDocumented ==
    ASSUME Typed, Documented, Unwritten, pc \notin Idle \cup {"experiment", "finalize"},
           Staged', Tried'
    PROVE  Documented'
<1>1. active # None /\ mine.receipt = None
  BY NoReceiptYet
<1>2. Documents' /\ ReceiptFiled'
  BY <1>1, StillDocuments DEF Documented, Unwritten, ReceiptFiled, active, mine
<1> QED BY <1>2 DEF Documented

(* A file written of the active experiment leaves every other's alone.     *)
LEMMA WroteOne ==
    ASSUME Typed, History, active # None, NEW new, WriteArtifact(new)
    PROVE  /\ mine' = new /\ active' = active /\ active = st.next /\ active \in Experiments
           /\ UNCHANGED <<st, catalog, jobs>>
           /\ \A x \in Experiments : x # active => art'[x] = art[x]
           /\ art'[active - 1] = art[active - 1]
<1>1. mine' = new /\ active' = active /\ active \in Experiments /\ active = st.next
  BY WroteMine DEF History, Counted
<1>2. UNCHANGED <<st, catalog, jobs>> /\ art' = [art EXCEPT ![active] = new]
  BY DEF WriteArtifact
<1>3. \A x \in Experiments : x # active => art'[x] = art[x]
  BY <1>2 DEF Typed, TypeOK
<1>4. active - 1 # active /\ active \in Nat
  BY <1>1, Sets
<1>5. art'[active - 1] = art[active - 1]
  <2>1. CASE active - 1 \in Experiments
    BY <1>3, <1>4, <2>1
  <2>2. CASE active - 1 \notin Experiments
    BY <1>2, <1>4, <2>2 DEF Typed, TypeOK
  <2> QED BY <2>1, <2>2
<1> QED BY <1>1, <1>2, <1>3, <1>5

(* A file that is none of those the documents speak of.                    *)
LEMMA WriteDocuments ==
    ASSUME Typed, History, Documents, active # None, NEW new, WriteArtifact(new),
           new.reused = mine.reused, new.accepted = mine.accepted, new.attempts = mine.attempts,
           new.candidate = mine.candidate, new.runtime = mine.runtime
    PROVE  Documents'
<1>1. /\ mine' = new /\ active' = active /\ active = st.next /\ st' = st
      /\ art'[active - 1] = art[active - 1]
  BY WroteOne
<1>2. \A o : Attempt(o)' = Attempt(o)
  BY <1>1 DEF Attempt
<1>3. ReuseFiled' /\ RuntimeFiled' /\ RetainedFiled'
  BY <1>1 DEF Documents, ReuseFiled, RuntimeFiled, RetainedFiled
<1>4. AcceptanceFiled'
  BY <1>1, <1>2 DEF Documents, AcceptanceFiled
<1>5. Chained'
  BY <1>1, <1>2 DEF Documents, Chained, Link, TriedBefore, CatalogAfter
<1> QED BY <1>3, <1>4, <1>5 DEF Documents

(* A file of another kind, written at a place without a receipt.           *)
LEMMA WriteDocumented ==
    ASSUME Typed, History, Documented, active # None, NEW new, WriteArtifact(new),
           new.reused = mine.reused, new.accepted = mine.accepted, new.attempts = mine.attempts,
           new.candidate = mine.candidate, new.runtime = mine.runtime,
           new.receipt = mine.receipt, mine.receipt = None,
           pc' = pc, mem' = mem
    PROVE  Documented'
<1>1. Documents'
  BY WriteDocuments DEF Documented
<1>2. mine' = new /\ active' = active /\ st' = st
  BY WroteOne
<1> QED BY <1>1, <1>2 DEF Documented, ReceiptFiled, Staged, Tried, TriedBefore, Attempt, Retained

(* The experiment is opened: a new one has no files.                       *)
LEMMA OpenExperimentDocumented ==
    ASSUME Typed, History, Documented, OpenExperiment
    PROVE  Documented'
<1>1. pc = "loop" /\ pc' = "experiment" /\ UNCHANGED <<catalog, art, jobs>>
  BY DEF OpenExperiment, UpdateState, Goto
<1>2. Staged' /\ Tried'
  BY <1>1 DEF Staged, Tried, Replaying, Attempting
<1>3. CASE active # None
  <2>1. Still
    BY <1>1, <1>3 DEF OpenExperiment, UpdateState, Still
  <2> QED BY <1>1, <1>2, <2>1, StillDocuments DEF Documented, Still, Unwritten, ReceiptFiled, active, mine, LedgerOf
<1>4. CASE active = None
  <2>1. /\ st' = [st EXCEPT !.active = st.next, !.phase = "panel-screening"]
        /\ st \in StateType /\ st.next <= MaxExperiments
    BY <1>4 DEF OpenExperiment, UpdateState, Typed, TypeOK
  <2>2. st'.active = st.next /\ st'.next = st.next /\ st'.retained = st.retained
        /\ st.next \in Experiments
    BY <2>1, ConstantsAssumption DEF StateType, Experiments
  <2>3. mine' = NoArtifacts
    BY <1>1, <1>4, <2>2 DEF History, Untouched, mine, active
  <2>4. Documents'
    BY <1>1, <2>2, <2>3, ArtifactsAssumption DEF Documented, Documents, ReuseFiled, AcceptanceFiled, Chained, RuntimeFiled,
       RetainedFiled, Attempt, NoArtifacts
  <2> QED BY <1>2, <2>3, <2>4 DEF Documented, ReceiptFiled, NoArtifacts
<1> QED BY <1>3, <1>4

(* The first file names the champion the experiment starts from.           *)
LEMMA RecordExperimentDocumented ==
    ASSUME Typed, History, Documented, RecordExperiment
    PROVE  Documented'
<1>1. CASE Ends
  BY <1>1, EndsDocumented
<1>2. CASE ~Ends
  <2> DEFINE new == [mine EXCEPT !.before = st.champion]
  <2>1. /\ WriteArtifact(new) /\ pc = "experiment"
        /\ pc' = IF mine.receipt = None THEN "panel" ELSE "finalize"
    BY <1>2, BlockEnds DEF RecordExperiment, Goto
  <2>2. active # None /\ mine \in ArtifactType
    BY <2>1, WroteMine DEF Typed, Located, Idle
  <2>3. /\ new.reused = mine.reused /\ new.accepted = mine.accepted
        /\ new.attempts = mine.attempts /\ new.candidate = mine.candidate
        /\ new.runtime = mine.runtime /\ new.receipt = mine.receipt
    BY <2>2 DEF ArtifactType
  <2> HIDE DEF new
  <2>4. mine' = new /\ active' = active /\ st' = st
    BY <2>1, <2>2, WroteOne
  <2>5. Documents'
    BY <2>1, <2>2, <2>3, WriteDocuments DEF Documented
  <2> QED BY <2>1, <2>3, <2>4, <2>5 DEF Documented, ReceiptFiled, Staged, Tried, Replaying, Attempting,
          LedgerOf
<1> QED BY <1>1, <1>2

(* The panel of a recorded reuse is copied from its source.                *)
LEMMA ReplayReuseDocumented ==
    ASSUME Typed, History, Documented, ReplayReuse
    PROVE  Documented'
<1>1. CASE Ends
  BY <1>1, EndsDocumented
<1>2. CASE ~Ends
  <2> DEFINE source == art[mine.reused.source].accepted
             new == [mine EXCEPT !.accepted = source]
  <2>1. /\ WriteArtifact(new) /\ pc = "panel" /\ pc' = "prepared" /\ mine.reused # None
        /\ mine.accepted \in {None, source}
    BY <1>2, BlockEnds DEF ReplayReuse, Goto
  <2>2. active # None /\ mine \in ArtifactType /\ mine.receipt = None
    BY <2>1, NoReceiptYet DEF Idle
  <2>3. source = art[active - 1].accepted
    BY <2>1, <2>2 DEF Documented, Documents, ReuseFiled
  <2> HIDE DEF source
  <2>4. /\ new.reused = mine.reused /\ new.accepted = source
        /\ new.attempts = mine.attempts /\ new.candidate = mine.candidate
        /\ new.runtime = mine.runtime /\ new.receipt = mine.receipt
    BY <2>2 DEF ArtifactType
  <2> HIDE DEF new
  <2>5. /\ mine' = new /\ active' = active /\ st' = st /\ active = st.next
        /\ art'[active - 1] = art[active - 1]
    BY <2>1, <2>2, WroteOne
  <2>6. ReuseFiled' /\ AcceptanceFiled' /\ RuntimeFiled' /\ RetainedFiled'
    BY <2>1, <2>3, <2>4, <2>5 DEF Documented, Documents, ReuseFiled, AcceptanceFiled, RuntimeFiled,
       RetainedFiled
  <2>7. Chained'
    BY <2>4, <2>5 DEF Documented, Documents, Chained, Link, TriedBefore, Attempt, CatalogAfter
  <2> QED BY <2>1, <2>2, <2>4, <2>5, <2>6, <2>7 DEF Documented, Documents, ReceiptFiled, Staged, Tried,
          Replaying, Attempting
<1> QED BY <1>1, <1>2

(* The provenance of a panel taken over names the experiment just over.    *)
LEMMA ReuseRetainedDocumented ==
    ASSUME Typed, History, Documented, ReuseRetained
    PROVE  Documented'
<1>1. CASE Ends
  BY <1>1, EndsDocumented
<1>2. CASE ~Ends
  <2> DEFINE reuse == [source |-> active - 1, revision |-> st.champion,
                       panel |-> art[active - 1].accepted.panel]
             new == [mine EXCEPT !.reused = reuse]
  <2>1. /\ WriteArtifact(new) /\ pc = "panel" /\ pc' = "panel" /\ mine.accepted = None
    BY <1>2, BlockEnds DEF ReuseRetained, Goto
  <2>2. active # None /\ mine \in ArtifactType /\ mine.receipt = None
    BY <2>1, NoReceiptYet DEF Idle
  <2>3. reuse.source = active - 1
    OBVIOUS
  <2> HIDE DEF reuse
  <2>4. /\ new.reused = reuse /\ new.accepted = mine.accepted
        /\ new.attempts = mine.attempts /\ new.candidate = mine.candidate
        /\ new.runtime = mine.runtime /\ new.receipt = mine.receipt
    BY <2>2 DEF ArtifactType
  <2> HIDE DEF new
  <2>5. /\ mine' = new /\ active' = active /\ st' = st /\ active = st.next
        /\ art'[active - 1] = art[active - 1]
    BY <2>1, <2>2, WroteOne
  <2>6. ReuseFiled' /\ AcceptanceFiled' /\ RuntimeFiled' /\ RetainedFiled'
    BY <2>1, <2>3, <2>4, <2>5 DEF Documented, Documents, ReuseFiled, AcceptanceFiled, RuntimeFiled,
       RetainedFiled
  <2>7. Chained'
    BY <2>4, <2>5 DEF Documented, Documents, Chained, Link, TriedBefore, Attempt, CatalogAfter
  <2> QED BY <2>1, <2>2, <2>4, <2>5, <2>6, <2>7 DEF Documented, Documents, ReceiptFiled, Staged, Tried,
          Replaying, Attempting
<1> QED BY <1>1, <1>2

(* accountCost writes one charge at most, and only if none is known.       *)
LEMMA AccountEffect ==
    ASSUME Typed, NEW arm, NEW o, NEW c, NEW there, AccountCost(arm, o, c, there), ~Ends
    PROVE  /\ Unwritten /\ UNCHANGED <<catalog, jobs>> /\ st'.history = st.history
           /\ pc' = there /\ mem' = mem
           /\ \A l \in EntriesFor(st.ledger, active, arm, o) : l.cost = c
           /\ \/ /\ EntriesFor(st.ledger, active, arm, o) # {}
                 /\ st'.ledger = st.ledger
              \/ /\ EntriesFor(st.ledger, active, arm, o) = {}
                 /\ st'.ledger = st.ledger \cup {LedgerEntry(active, arm, o, c)}
<1> DEFINE known == EntriesFor(st.ledger, active, arm, o)
           new == IF known # {} THEN st
                  ELSE [st EXCEPT !.ledger = @ \cup {LedgerEntry(active, arm, o, c)}]
<1>1. (\A l \in known : l.cost = c) /\ UpdateState(new) /\ Goto(there)
  BY BlockEnds DEF AccountCost
<1>2. st' = new /\ UNCHANGED <<catalog, art, jobs>> /\ pc' = there /\ mem' = mem
  BY <1>1 DEF UpdateState, Goto
<1>3. st \in StateType
  BY DEF Typed, TypeOK
<1>4. CASE known # {}
  BY <1>1, <1>2, <1>4 DEF Unwritten
<1>5. CASE known = {}
  <2>1. st' = [st EXCEPT !.ledger = @ \cup {LedgerEntry(active, arm, o, c)}]
    BY <1>2, <1>5
  <2> QED BY <1>1, <1>2, <1>3, <1>5, <2>1 DEF Unwritten, StateType
<1> QED BY <1>4, <1>5

(* The charges of a replayed panel, of an attempt, of the optimizer and of *)
(* the evaluation touch no file.                                           *)
LEMMA AccountsDocumented ==
    ASSUME Typed, Documented,
           ReplayAccepted \/ AccountAttempt \/ AccountOptimizer \/ AccountEvaluation
    PROVE  Documented'
<1>1. CASE Ends
  BY <1>1, EndsDocumented
<1>2. CASE ~Ends
  <2>1. \/ pc = "panel" /\ pc' = "prepared"
        \/ pc = "account" /\ pc' = "history"
        \/ pc = "optimizer" /\ pc' = "optimized"
        \/ pc = "evaluation" /\ pc' = "decision"
    BY <1>2, AccountEffect, BlockEnds DEF ReplayAccepted, AccountAttempt, AccountOptimizer, AccountEvaluation,
       InPhase
  <2>2. Unwritten
    BY <1>2, AccountEffect, BlockEnds DEF ReplayAccepted, AccountAttempt, AccountOptimizer, AccountEvaluation
  <2>3. mem' = mem
    BY <1>2, AccountEffect, BlockEnds DEF ReplayAccepted, AccountAttempt, AccountOptimizer, AccountEvaluation
  <2>4. Staged' /\ Tried'
    BY <2>1, <2>2, <2>3 DEF Documented, Staged, Tried, TriedBefore, Attempt, Unwritten, Replaying, Attempting, active, mine, Retained
  <2> QED BY <2>1, <2>2, <2>4, MoveDocumented DEF Idle
<1> QED BY <1>1, <1>2

(* A job leaves its receipt and the runner where it is.                    *)
LEMMA RunsDocumented ==
    ASSUME Typed, Documented, ChampionArmRuns \/ OptimizerRuns \/ CandidateArmRuns
    PROVE  Documented'
<1>1. /\ Unwritten /\ pc' = pc /\ mem' = mem
      /\ pc \in {"screen", "optimizer", "evaluation"}
  BY DEF ChampionArmRuns, OptimizerRuns, CandidateArmRuns, RunJob, Goto, Unwritten, Live, Screening,
     InPhase
<1>2. Staged' /\ Tried'
  BY <1>1 DEF Documented, Staged, Tried, TriedBefore, Attempt, Unwritten, active, mine, Retained
<1> QED BY <1>1, <1>2, MoveDocumented DEF Idle

(* The history and the catalog are no file of an experiment.               *)
LEMMA ReconcileDocumented ==
    ASSUME Typed, Documented, ReconcileHistory \/ ReconcileCatalog
    PROVE  Documented'
<1>1. CASE Ends
  BY <1>1, EndsDocumented
<1>2. CASE ~Ends
  <2>1. /\ pc \in {"history", "catalog"} /\ pc' \in {"catalog", "assess"} /\ art' = art
        /\ mem'.ordinal = mem.ordinal
    BY <1>2, BlockEnds DEF ReconcileHistory, ReconcileCatalog, UpdateState, Goto, Typed, TypeOK, MemoryType
  <2>2. Unwritten
    BY <1>2, <2>1, BlockEnds DEF ReconcileHistory, ReconcileCatalog, UpdateState, Unwritten, Typed, TypeOK, StateType
  <2>3. Staged' /\ Tried'
    BY <2>1, <2>2 DEF Documented, Staged, Tried, TriedBefore, Attempt, Unwritten, Replaying, Attempting, active, mine, Retained
  <2> QED BY <2>1, <2>2, <2>3, MoveDocumented DEF Idle
<1> QED BY <1>1, <1>2

(* The runner enters the screening, and goes from attempt to attempt.      *)
LEMMA ScreensDocumented ==
    ASSUME Typed, Documented,
           \/ EnterScreening \/ ReadAttemptChain \/ ChampionRuntime \/ ReplayAttempt
           \/ PanelSaturated \/ PanelInfrastructureInvalid
    PROVE  Documented'
<1>1. CASE Ends
  BY <1>1, EndsDocumented
<1>2. CASE ~Ends
  <2>1. \/ pc = "panel" /\ pc' = "chain" /\ mine.reused = None /\ mine.accepted = None /\ ~Retained
        \/ pc \in Replaying /\ pc' \in Replaying
    <3>1. CASE EnterScreening
      BY <3>1 DEF EnterScreening, Goto
    <3>2. CASE ReadAttemptChain
      BY <1>2, <3>2, BlockEnds DEF ReadAttemptChain, Goto, Replaying
    <3>3. CASE ChampionRuntime
      BY <1>2, <3>3, FinishEnds, StopEnds DEF ChampionRuntime, Failure, Cancelled, Replaying
    <3>4. CASE ReplayAttempt
      BY <3>4 DEF ReplayAttempt, Screening, Replaying, Attempting
    <3>5. CASE PanelSaturated \/ PanelInfrastructureInvalid
      BY <1>2, <3>5, BlockEnds DEF PanelSaturated, PanelInfrastructureInvalid, NextOrdinal, Replaying,
         Attempting
    <3> QED BY <3>1, <3>2, <3>3, <3>4, <3>5
  <2>2. Unwritten
    <3>1. CASE EnterScreening
      BY <3>1 DEF EnterScreening, UpdateState, Unwritten, Typed, TypeOK, StateType
    <3>2. CASE ~EnterScreening
      BY <1>2, <3>2, BlockEnds, FinishEnds, StopEnds DEF ReadAttemptChain, ChampionRuntime, Failure, Cancelled,
         ReplayAttempt, PanelSaturated, PanelInfrastructureInvalid, NextOrdinal, UpdateState, Unwritten
    <3> QED BY <3>1, <3>2
  <2>3. Staged'
    BY <2>1, <2>2 DEF Documented, Staged, Unwritten, Replaying, Attempting, active, mine, Retained
  <2>4. Tried'
    <3>1. CASE EnterScreening \/ ReadAttemptChain
      BY <1>2, <3>1, BlockEnds DEF EnterScreening, ReadAttemptChain, Goto, Tried, Attempting
    <3>2. CASE ChampionRuntime
      <4>1. mem'.ordinal = 1
        BY <1>2, <3>2, FinishEnds, StopEnds DEF ChampionRuntime, Failure, Cancelled, Typed, TypeOK, MemoryType
      <4> QED BY <4>1, Sets DEF Tried, TriedBefore
    <3>3. CASE ReplayAttempt
      <4>1. mem'.ordinal = mem.ordinal /\ pc = "screen"
        BY <3>3 DEF ReplayAttempt, Screening, Typed, TypeOK, MemoryType
      <4> QED BY <4>1, <2>2 DEF Documented, Tried, TriedBefore, Attempt, Unwritten, active, mine
    <3>4. CASE PanelSaturated \/ PanelInfrastructureInvalid
      <4>1. /\ mem'.ordinal = mem.ordinal + 1 /\ pc = "assess"
            /\ Attempt(mem.ordinal).outcome # "accepted"
        BY <1>2, <3>4, BlockEnds DEF PanelSaturated, PanelInfrastructureInvalid, NextOrdinal, Typed,
           TypeOK, MemoryType
      <4>2. Attempt(mem.ordinal) # None /\ mem.ordinal \in Ordinals
        BY <4>1 DEF Typed, Located, Attempting
      <4>3. TriedBefore(mem.ordinal)
        BY <4>1 DEF Documented, Tried, Attempting
      <4>4. \A i \in Ordinals : i < mem.ordinal + 1 => i < mem.ordinal \/ i = mem.ordinal
        <5> SUFFICES ASSUME NEW i \in Ordinals, i < mem.ordinal + 1
                     PROVE  i < mem.ordinal \/ i = mem.ordinal
          OBVIOUS
        <5>1. i \in Nat /\ mem.ordinal \in Nat
          BY <4>2, Sets
        <5> QED BY <5>1
      <4> QED BY <4>1, <4>2, <4>3, <4>4, <2>2 DEF Tried, TriedBefore, Attempt, Unwritten, active, mine
    <3> QED BY <3>1, <3>2, <3>3, <3>4
  <2> QED BY <2>1, <2>2, <2>3, <2>4, MoveDocumented DEF Idle, Replaying, Attempting
<1> QED BY <1>1, <1>2

(* The runner goes from the panel to the decision and on.                  *)
LEMMA PhasesDocumented ==
    ASSUME Typed, Documented,
           \/ PanelPrepared \/ OptimizerDone \/ ReplayCandidate \/ CandidateReady \/ Decided
           \/ Published
    PROVE  Documented'
<1>1. CASE Ends
  BY <1>1, EndsDocumented
<1>2. CASE ~Ends
  <2>1. /\ UpdateState(st)
        /\ \/ pc = "prepared" /\ pc' = "optimizer"
           \/ pc = "optimized" /\ pc' = "validation"
           \/ pc = "validation" /\ pc' = "decision"
           \/ pc = "validation" /\ pc' = "candidate" /\ mine.candidate = "valid"
           \/ pc = "candidate" /\ pc' = "evaluation"
           \/ pc = "decision" /\ pc' \in {"publication", "advance"}
           \/ pc = "publication" /\ pc' = "advance"
    <3>1. CASE PanelPrepared \/ OptimizerDone
      BY <1>2, <3>1, StopEnds DEF PanelPrepared, Boundary, OptimizerDone, Goto
    <3>2. CASE ReplayCandidate \/ CandidateReady
      BY <1>2, <3>2, StopEnds, BlockEnds DEF ReplayCandidate, CandidateReady, Boundary, InPhase, Goto
    <3>3. CASE Decided \/ Published
      BY <1>2, <3>3, BlockEnds DEF Decided, Published, InPhase, Goto
    <3> QED BY <3>1, <3>2, <3>3
  <2>2. Unwritten
    BY <2>1 DEF UpdateState, Unwritten
  <2>3. Staged' /\ Tried'
    BY <2>1, <2>2 DEF Documented, Staged, Tried, Unwritten, Replaying, Attempting, active, mine, Retained
  <2> QED BY <2>1, <2>2, <2>3, MoveDocumented DEF Idle
<1> QED BY <1>1, <1>2

(* A fresh attempt follows every attempt made before it, and no later one. *)
LEMMA LiveIsLast ==
    ASSUME Typed, Documented, Live
    PROVE  /\ mem.ordinal \in Ordinals /\ TriedBefore(mem.ordinal)
           /\ \A o \in Ordinals : Attempt(o) # None => o < mem.ordinal
<1>1. active # None /\ mem.ordinal \in Ordinals
  BY SelectionTyped
<1>2. TriedBefore(mem.ordinal)
  BY DEF Documented, Tried, Live, Screening
<1>3. ASSUME NEW o \in Ordinals, Attempt(o) # None PROVE o < mem.ordinal
  <2>1. Link(o)
    BY <1>1, <1>3 DEF Documented, Documents, Chained
  <2>2. ~(mem.ordinal < o) /\ o # mem.ordinal
    BY <1>1, <1>3, <2>1 DEF Link, TriedBefore, Live
  <2>3. o \in Nat /\ mem.ordinal \in Nat
    BY <1>1, Sets
  <2> QED BY <2>2, <2>3
<1> QED BY <1>1, <1>2, <1>3

(* The attempt that RecordAttempt writes. *)
Attempted(j) ==
    [panel |-> Selection, outcome |-> j.outcome, cost |-> j.cost,
     revision |-> j.revision,
     historyBefore |-> st.history,
     historyAfter |-> HistoryAfter(st.history, j.outcome),
     catalogBefore |-> catalog,
     catalogAfter |-> CatalogAfter(catalog, j.outcome, mem.ordinal)]

(* A screen's attempt is the one of its job, and the only change of a file.*)
LEMMA RecordAttemptEffect ==
    ASSUME Typed, History, Documented, RecordAttempt, ~Ends
    PROVE  \E j \in Job("panel", mem.ordinal) :
              /\ j.panel = Selection
              /\ WriteArtifact([mine EXCEPT !.attempts[mem.ordinal] = Attempted(j)])
              /\ Live
              /\ pc = "screen" /\ pc' = "account" /\ mem' = [mem EXCEPT !.fresh = TRUE]
              /\ active # None /\ active' = active /\ mine \in ArtifactType
              /\ UNCHANGED <<st, catalog, jobs>>
              /\ mine'.reused = mine.reused /\ mine'.accepted = mine.accepted
              /\ mine'.candidate = mine.candidate /\ mine'.runtime = mine.runtime
              /\ mine'.optimizer = mine.optimizer /\ mine'.evaluation = mine.evaluation
              /\ mine'.receipt = mine.receipt
              /\ mem'.ordinal = mem.ordinal /\ mem'.policy = mem.policy
              /\ mem'.excluded = mem.excluded /\ mem'.fresh = TRUE
              /\ Attempt(mem.ordinal)' = Attempted(j) /\ Attempted(j) # None
              /\ \A o \in Ordinals : o # mem.ordinal => Attempt(o)' = Attempt(o)
<1>1. /\ active # None /\ mem.ordinal \in Ordinals /\ Selection \in Panels /\ mem \in MemoryType
      /\ active \in Experiments /\ mine \in ArtifactType /\ pc = "screen" /\ Live
  BY SelectionTyped, NoReceiptYet DEF RecordAttempt, Live, Screening, Typed, TypeOK, Idle
<1>2. PICK j \in Job("panel", mem.ordinal) :
        /\ j.panel = Selection
        /\ WriteArtifact([mine EXCEPT !.attempts[mem.ordinal] = Attempted(j)])
        /\ pc' = "account"
        /\ mem' = [mem EXCEPT !.fresh = TRUE]
  BY BlockEnds DEF RecordAttempt, Attempted
<1>3. j.outcome \in PanelOutcomes /\ j.cost \in Costs /\ j.revision \in Revisions
  BY DEF Typed, JobsTyped, TypeOK, JobType, Job
<1>4. st.history \in Histories /\ catalog \in Seq(Screen)
  BY DEF Typed, TypeOK, StateType
<1>5. Attempted(j) \in AttemptType
  BY <1>1, <1>3, <1>4, HistoryAfterType, CatalogAfterType DEF Attempted, AttemptType
<1>6. Attempted(j) # None
  BY <1>5, ArtifactsAssumption
<1>7. PICK a : a = Attempted(j)
  OBVIOUS
<1>8. PICK new : new = [mine EXCEPT !.attempts[mem.ordinal] = a]
  OBVIOUS
<1>9. /\ new.reused = mine.reused /\ new.accepted = mine.accepted
      /\ new.candidate = mine.candidate /\ new.runtime = mine.runtime
      /\ new.optimizer = mine.optimizer /\ new.evaluation = mine.evaluation
      /\ new.receipt = mine.receipt
      /\ new.attempts[mem.ordinal] = a
      /\ \A o \in Ordinals : o # mem.ordinal => new.attempts[o] = mine.attempts[o]
  BY <1>1, <1>8 DEF ArtifactType
<1>10. WriteArtifact(new)
  BY <1>2, <1>7, <1>8
<1>11. mine' = new /\ active' = active /\ UNCHANGED <<st, catalog, jobs>>
  BY <1>1, <1>10, WroteOne
<1>12. /\ mem'.ordinal = mem.ordinal /\ mem'.policy = mem.policy
       /\ mem'.excluded = mem.excluded /\ mem'.fresh = TRUE
  BY <1>1, <1>2 DEF MemoryType
<1>13. /\ Attempt(mem.ordinal)' = a
       /\ \A o \in Ordinals : o # mem.ordinal => Attempt(o)' = Attempt(o)
  <2>1. \A o \in Ordinals : Attempt(o)' = new.attempts[o]
    BY <1>11 DEF Attempt
  <2>2. Attempt(mem.ordinal)' = mine'.attempts[mem'.ordinal]
    BY DEF Attempt
  <2> QED BY <1>1, <1>9, <1>11, <1>12, <2>1, <2>2 DEF Attempt
<1> QED BY <1>1, <1>2, <1>6, <1>7, <1>9, <1>11, <1>12, <1>13

(* A fresh attempt becomes the last of the chain.                          *)
LEMMA RecordAttemptDocumented ==
    ASSUME Typed, History, Documented, RecordAttempt
    PROVE  Documented'
<1>1. CASE Ends
  BY <1>1, EndsDocumented
<1>2. CASE ~Ends
  <2>1. PICK j \in Job("panel", mem.ordinal) :
              /\ j.panel = Selection
              /\ WriteArtifact([mine EXCEPT !.attempts[mem.ordinal] = Attempted(j)])
              /\ Live
              /\ pc = "screen" /\ pc' = "account"
              /\ active # None /\ active' = active /\ mine \in ArtifactType
              /\ UNCHANGED <<st, catalog, jobs>>
              /\ mine'.reused = mine.reused /\ mine'.accepted = mine.accepted
              /\ mine'.candidate = mine.candidate /\ mine'.runtime = mine.runtime
              /\ mine'.receipt = mine.receipt
              /\ mem'.ordinal = mem.ordinal
              /\ Attempt(mem.ordinal)' = Attempted(j)
              /\ \A o \in Ordinals : o # mem.ordinal => Attempt(o)' = Attempt(o)
    BY <1>2, RecordAttemptEffect
  <2>2. PICK k : k = mem.ordinal
    OBVIOUS
  <2>3. /\ k \in Ordinals /\ TriedBefore(k)
        /\ \A o \in Ordinals : Attempt(o) # None => o < k
    BY <2>1, <2>2, LiveIsLast
  <2>4. mine.receipt = None /\ mine.accepted = None /\ mine.reused = None /\ ~Retained
    BY <2>1, NoReceiptYet DEF Idle, Documented, Staged, Replaying
  <2>5. /\ art'[active - 1] = art[active - 1] /\ active = st.next
    BY <2>1, WroteOne
  <2>6. ReuseFiled' /\ AcceptanceFiled' /\ RuntimeFiled' /\ RetainedFiled'
    BY <2>1, <2>4, <2>5 DEF Documented, Documents, ReuseFiled, AcceptanceFiled, RuntimeFiled,
       RetainedFiled
  <2>7. Attempt(k)' = Attempted(j)
    BY <2>1, <2>2 DEF Attempt
  <2>8. \A o \in Ordinals : o # k => Attempt(o)' = Attempt(o)
    BY <2>1, <2>2
  <2>9. \A i \in Ordinals : i < k => i # k
    BY <2>3, Sets
  <2>10. TriedBefore(k)'
    BY <2>2, <2>3, <2>8, <2>9 DEF TriedBefore
  <2>11. Link(k)'
    BY <2>1, <2>2, <2>7, <2>10 DEF Link, Attempted, Selection, CatalogAfter
  <2>12. ASSUME NEW o \in Ordinals, Attempt(o)' # None PROVE Link(o)'
    <3>1. CASE o = k
      BY <2>11, <3>1
    <3>2. CASE o # k
      <4>1. Attempt(o) # None /\ Attempt(o)' = Attempt(o) /\ o < k
        BY <2>3, <2>8, <2>12, <3>2
      <4>2. Link(o)
        BY <2>1, <4>1 DEF Documented, Documents, Chained
      <4>3. \A i \in Ordinals : i < o => i # k
        BY <2>3, <4>1, Sets
      <4>4. TriedBefore(o)'
        BY <2>8, <4>2, <4>3 DEF Link, TriedBefore
      <4> QED BY <2>1, <4>1, <4>2, <4>4 DEF Link, CatalogAfter
    <3> QED BY <3>1, <3>2
  <2>13. Chained'
    BY <2>12 DEF Chained
  <2>14. Staged' /\ Tried'
    BY <2>1, <2>2, <2>4, <2>10 DEF Staged, Tried, Retained, TriedBefore
  <2> QED BY <2>1, <2>4, <2>6, <2>13, <2>14 DEF Documented, Documents, ReceiptFiled
<1> QED BY <1>1, <1>2

(* The accepted attempt is copied to the experiment's accepted panel.      *)
LEMMA PanelAcceptedDocumented ==
    ASSUME Typed, History, Documented, PanelAccepted
    PROVE  Documented'
<1> DEFINE k == mem.ordinal
           accepted == AcceptedFrom(Attempt(k))
           new == [mine EXCEPT !.accepted = accepted]
<1>1. WriteArtifact(new) /\ pc = "assess" /\ pc' = "prepared" /\ Attempt(k).outcome = "accepted"
  BY DEF PanelAccepted, Goto
<1>2. /\ active # None /\ mine \in ArtifactType /\ mine.receipt = None
      /\ k \in Ordinals /\ Attempt(k) # None
  BY <1>1, NoReceiptYet, AttemptTyped DEF Idle, Attempting
<1>3. mine.reused = None
  BY <1>1 DEF Documented, Staged, Replaying, Attempting
<1>4. PICK ok : ok = accepted
  OBVIOUS
<1>5. /\ new.reused = mine.reused /\ new.accepted = ok
      /\ new.attempts = mine.attempts /\ new.candidate = mine.candidate
      /\ new.runtime = mine.runtime /\ new.receipt = mine.receipt
  BY <1>2, <1>4 DEF ArtifactType
<1>6. /\ mine' = new /\ active' = active /\ st' = st /\ active = st.next
      /\ art'[active - 1] = art[active - 1]
  BY <1>1, <1>2, WroteOne
<1>7. \A o : Attempt(o)' = Attempt(o)
  BY <1>5, <1>6 DEF Attempt
<1>8. ReuseFiled' /\ RuntimeFiled' /\ RetainedFiled'
  BY <1>2, <1>3, <1>5, <1>6 DEF Documented, Documents, ReuseFiled, RuntimeFiled, RetainedFiled
<1>9. AcceptanceFiled'
  BY <1>1, <1>2, <1>4, <1>5, <1>6, <1>7 DEF AcceptanceFiled
<1>10. Chained'
  BY <1>6, <1>7 DEF Documented, Documents, Chained, Link, TriedBefore, CatalogAfter
<1> QED BY <1>1, <1>2, <1>5, <1>6, <1>8, <1>9, <1>10 DEF Documented, Documents, ReceiptFiled,
        Staged, Tried, Replaying, Attempting

(* The files of the optimizer, the evaluation, the decision and the        *)
(* publication are none that the documents speak of.                       *)
LEMMA RecordsDocumented ==
    ASSUME Typed, History, Documented,
           RecordOptimizer \/ RecordEvaluation \/ Decide \/ RecordPublication
    PROVE  Documented'
<1>1. CASE Ends
  BY <1>1, EndsDocumented
<1>2. CASE ~Ends
  <2>1. pc \in {"optimizer", "evaluation", "decision", "publication"} /\ pc' = pc /\ mem' = mem
    BY <1>2, BlockEnds DEF RecordOptimizer, RecordEvaluation, Decide, RecordPublication, InPhase, Goto
  <2>2. active # None /\ mine \in ArtifactType /\ mine.receipt = None
    BY <2>1, NoReceiptYet DEF Idle
  <2>3. \E new : /\ WriteArtifact(new)
                 /\ new.reused = mine.reused /\ new.accepted = mine.accepted
                 /\ new.attempts = mine.attempts /\ new.candidate = mine.candidate
                 /\ new.runtime = mine.runtime /\ new.receipt = mine.receipt
    <3>1. CASE RecordOptimizer
      <4>1. PICK j \in Job("optimizer", 0) :
              WriteArtifact([mine EXCEPT !.optimizer = [revision |-> j.revision, cost |-> j.cost]])
        BY <3>1 DEF RecordOptimizer
      <4>2. PICK a : a = [revision |-> j.revision, cost |-> j.cost]
        OBVIOUS
      <4>3. WriteArtifact([mine EXCEPT !.optimizer = a])
        BY <4>1, <4>2
      <4> QED BY <2>2, <4>3 DEF ArtifactType
    <3>2. CASE RecordEvaluation
      <4>1. PICK j \in Job("candidate", mine.accepted.panel.ordinal) :
              WriteArtifact([mine EXCEPT !.evaluation =
                  [panel |-> j.panel, outcome |-> j.outcome, cost |-> j.cost]])
        BY <3>2 DEF RecordEvaluation
      <4>2. PICK a : a = [panel |-> j.panel, outcome |-> j.outcome, cost |-> j.cost]
        OBVIOUS
      <4>3. WriteArtifact([mine EXCEPT !.evaluation = a])
        BY <4>1, <4>2
      <4> QED BY <2>2, <4>3 DEF ArtifactType
    <3>3. CASE Decide
      <4>1. PICK d : WriteArtifact([mine EXCEPT !.decision = d])
        BY <1>2, <3>3, BlockEnds DEF Decide
      <4> QED BY <2>2, <4>1 DEF ArtifactType
    <3>4. CASE RecordPublication
      <4>1. WriteArtifact([mine EXCEPT !.publication = active])
        BY <3>4 DEF RecordPublication
      <4> QED BY <2>2, <4>1 DEF ArtifactType
    <3> QED BY <3>1, <3>2, <3>3, <3>4
  <2> QED BY <2>1, <2>2, <2>3, WriteDocumented
<1> QED BY <1>1, <1>2

(* A candidate is filed as valid only once its runtime is.                 *)
LEMMA CandidateDocumented ==
    ASSUME Typed, History, Documented, ValidateCandidate \/ RecordValidCandidate
    PROVE  Documented'
<1>1. PICK new : /\ WriteArtifact(new)
                 /\ \/ /\ new = [mine EXCEPT !.runtime = TRUE]
                       /\ pc = "validation" /\ pc' = "built"
                    \/ /\ new = [mine EXCEPT !.candidate = "invalid"]
                       /\ pc = "validation" /\ pc' = "decision"
                    \/ /\ new = [mine EXCEPT !.candidate = "valid"]
                       /\ pc = "built" /\ pc' = "candidate"
  BY DEF ValidateCandidate, RecordValidCandidate, InPhase, Goto
<1>2. active # None /\ mine \in ArtifactType /\ mine.receipt = None
  BY <1>1, NoReceiptYet DEF Idle
<1>3. /\ new.reused = mine.reused /\ new.accepted = mine.accepted
      /\ new.attempts = mine.attempts /\ new.receipt = mine.receipt
  BY <1>1, <1>2 DEF ArtifactType
<1>4. \/ pc' = "built" /\ new.runtime = TRUE
      \/ pc' = "decision" /\ new.candidate = "invalid" /\ new.runtime = mine.runtime
      \/ pc = "built" /\ pc' = "candidate" /\ new.candidate = "valid" /\ new.runtime = mine.runtime
  BY <1>1, <1>2 DEF ArtifactType
<1>5. /\ mine' = new /\ active' = active /\ st' = st /\ active = st.next
      /\ art'[active - 1] = art[active - 1]
  BY <1>1, <1>2, WroteOne
<1>6. \A o : Attempt(o)' = Attempt(o)
  BY <1>3, <1>5 DEF Attempt
<1>7. ReuseFiled' /\ AcceptanceFiled' /\ RetainedFiled'
  BY <1>3, <1>5, <1>6 DEF Documented, Documents, ReuseFiled, AcceptanceFiled, RetainedFiled
<1>8. RuntimeFiled' /\ Staged' /\ Tried'
  BY <1>4, <1>5 DEF Documented, RuntimeFiled, Staged, Tried, Replaying, Attempting
<1>9. Chained'
  BY <1>5, <1>6 DEF Documented, Documents, Chained, Link, TriedBefore, CatalogAfter
<1> QED BY <1>2, <1>3, <1>5, <1>7, <1>8, <1>9 DEF Documented, Documents, ReceiptFiled

(* The receipt is written last, from the other files and the ledger.       *)
LEMMA AdvanceDocumented ==
    ASSUME Typed, History, Documented, Advance
    PROVE  Documented'
<1> DEFINE r == [before |-> st.champion,
                 after |-> IF mine.decision = "promote" THEN mine.publication ELSE st.champion,
                 panel |-> mine.accepted.panel,
                 decision |-> mine.decision,
                 publication |-> IF mine.decision = "promote" THEN mine.publication ELSE None,
                 charged |-> LedgerOf(active)]
           new == [mine EXCEPT !.receipt = r]
<1>1. WriteArtifact(new) /\ pc = "advance" /\ pc' = "finalize"
  BY DEF Advance, InPhase, Goto
<1>2. active # None /\ mine \in ArtifactType /\ mine.accepted # None
  BY <1>1, AfterPanelTyped DEF AfterPanel
<1>3. /\ r.before = st.champion /\ r.panel = mine.accepted.panel /\ r.charged = LedgerOf(active)
      /\ r.publication = IF r.decision = "promote" THEN r.after ELSE None
  OBVIOUS
<1> HIDE DEF r
<1>4. /\ new.reused = mine.reused /\ new.accepted = mine.accepted
      /\ new.attempts = mine.attempts /\ new.candidate = mine.candidate
      /\ new.runtime = mine.runtime /\ new.receipt = r
  BY <1>2 DEF ArtifactType
<1> HIDE DEF new
<1>5. Documents'
  BY <1>1, <1>2, <1>4, WriteDocuments DEF Documented
<1>6. mine' = new /\ active' = active /\ st' = st
  BY <1>1, <1>2, WroteOne
<1>7. ReceiptFiled'
  BY <1>1, <1>2, <1>3, <1>4, <1>6 DEF ReceiptFiled, LedgerOf
<1> QED BY <1>1, <1>5, <1>7 DEF Documented, Staged, Tried, Replaying, Attempting

(* What the end of an experiment does to the state and the rest.           *)
LEMMA FinalizeEffect ==
    ASSUME Typed, History, Finalize, ~Ends
    PROVE  /\ active # None /\ active = st.next /\ active \in Experiments
           /\ mine.accepted # None /\ mine.receipt # None
           /\ pc = "finalize" /\ pc' = "loop" /\ UNCHANGED <<catalog, art, jobs>>
           /\ st'.active = None /\ st'.next = st.next + 1 /\ st'.next \in Nat
           /\ st'.ledger = st.ledger /\ st'.history = st.history
<1>1. pc = "finalize"
  BY DEF Finalize
<1>2. /\ active # None /\ active \in Experiments /\ mine.accepted # None /\ mine.receipt # None
      /\ active = st.next /\ st \in StateType
  BY <1>1, AfterPanelTyped DEF AfterPanel, Typed, TypeOK, Located, History, Counted
<1>3. PICK champion, retained, completed, promotions :
        /\ st' = [st EXCEPT !.status = "running", !.champion = champion, !.next = @ + 1,
                            !.active = None, !.phase = None, !.retained = retained,
                            !.completed = completed, !.promotions = promotions]
        /\ UNCHANGED <<catalog, art, jobs>> /\ pc' = "loop"
  <2>1. Finalize /\ ~Block("completed-experiment-receipt-invalid")
    BY BlockEnds
  <2>2. PICK r, promoted :
          /\ r = mine.receipt /\ promoted = (r.decision = "promote")
          /\ st' = [st EXCEPT !.status = "running", !.champion = r.after, !.next = @ + 1,
                       !.active = None, !.phase = None,
                       !.retained = IF promoted THEN None
                                    ELSE [panel |-> r.panel, revision |-> st.champion],
                       !.completed = @ + 1, !.promotions = @ + (IF promoted THEN 1 ELSE 0)]
          /\ UNCHANGED <<catalog, art, jobs>> /\ pc' = "loop"
    BY <2>1 DEF Finalize, UpdateState
  <2> QED BY <2>2
<1>4. /\ st'.active = None /\ st'.next = st.next + 1
      /\ st'.ledger = st.ledger /\ st'.history = st.history
  BY <1>2, <1>3 DEF StateType
<1>5. st.next + 1 \in Nat
  BY <1>2, Sets
<1> QED BY <1>1, <1>2, <1>3, <1>4, <1>5

(* The experiment that is over leaves its panel behind.                    *)
LEMMA FinalizeDocumented ==
    ASSUME Typed, History, Documented, Finalize
    PROVE  Documented'
<1>1. CASE Ends
  BY <1>1, EndsDocumented
<1>2. CASE ~Ends
  <2>1. /\ active # None /\ active = st.next /\ active \in Experiments
        /\ mine.accepted # None /\ pc' = "loop" /\ art' = art
        /\ st'.active = None /\ st'.next = st.next + 1
    BY <1>2, FinalizeEffect
  <2>2. active' = None
    BY <2>1 DEF active
  <2>3. RetainedFiled'
    <3>1. st'.next - 1 = st.next /\ st'.next >= 2
      BY <2>1, Sets
    <3> QED BY <2>1, <3>1 DEF RetainedFiled, mine, active
  <2> QED BY <2>1, <2>2, <2>3 DEF Documented, Documents, ReuseFiled, AcceptanceFiled, Chained,
          RuntimeFiled, ReceiptFiled, Staged, Tried, Replaying, Attempting
<1> QED BY <1>1, <1>2

(* A campaign just initialized has no files.                               *)
LEMMA InitDocumented == Init => Documented
BY DEF Init, InitialState, Documented, Documents, ReuseFiled, AcceptanceFiled, Chained, RuntimeFiled,
   RetainedFiled, ReceiptFiled, Staged, Tried, Replaying, Attempting, active

(* Every step keeps what the files say of one another.                     *)
LEMMA NextDocumented == Inductive /\ Documented /\ [Next]_vars => Documented'
<1> SUFFICES ASSUME Typed, History, Documented, [Next]_vars PROVE Documented'
  BY InductiveParts
<1>1. CASE \/ Crash \/ OperationFails \/ Begin \/ LoopStops
           \/ \E resume \in BOOLEAN : Start(resume)
  BY <1>1, OutsideEnds, OperationFailsEnds, EndsDocumented
<1>2. CASE \/ SetPhase \/ AtBound \/ UNCHANGED vars
           \/ \E mode \in {"after-phase", "cancel-active"} : RequestStop(mode)
           \/ PushChampion
  BY <1>2, RestStays, EndsDocumented, StaysDocumented
<1>3. CASE OpenExperiment \/ RecordExperiment \/ ReplayReuse \/ ReuseRetained
  BY <1>3, OpenExperimentDocumented, RecordExperimentDocumented, ReplayReuseDocumented,
     ReuseRetainedDocumented
<1>4. CASE ReplayAccepted \/ AccountAttempt \/ AccountOptimizer \/ AccountEvaluation
  BY <1>4, AccountsDocumented
<1>5. CASE ChampionArmRuns \/ OptimizerRuns \/ CandidateArmRuns
  BY <1>5, RunsDocumented
<1>6. CASE ReconcileHistory \/ ReconcileCatalog
  BY <1>6, ReconcileDocumented
<1>7. CASE \/ EnterScreening \/ ReadAttemptChain \/ ChampionRuntime \/ ReplayAttempt
           \/ PanelSaturated \/ PanelInfrastructureInvalid
  BY <1>7, ScreensDocumented
<1>8. CASE \/ PanelPrepared \/ OptimizerDone \/ ReplayCandidate \/ CandidateReady \/ Decided
           \/ Published
  BY <1>8, PhasesDocumented
<1>9. CASE RecordAttempt \/ PanelAccepted
  BY <1>9, RecordAttemptDocumented, PanelAcceptedDocumented
<1>10. CASE RecordOptimizer \/ RecordEvaluation \/ Decide \/ RecordPublication
  BY <1>10, RecordsDocumented
<1>11. CASE ValidateCandidate \/ RecordValidCandidate \/ Advance \/ Finalize
  BY <1>11, CandidateDocumented, AdvanceDocumented, FinalizeDocumented
<1>12. CASE ScreensExhausted \/ ScreenOverBudget
  BY <1>12, BlockEnds, StopEnds, EndsDocumented DEF ScreensExhausted, ScreenOverBudget
<1> QED BY <1>1, <1>2, <1>3, <1>4, <1>5, <1>6, <1>7, <1>8, <1>9, <1>10, <1>11, <1>12
        DEF Next, Progress, Campaign, Panel, Candidate, Conclusion

---------------------------------------------------------------------------
(* The receipts of paid jobs, the files made from them, and the ledger *)

KeyOf(j) == IF j.arm = "panel" THEN j.ordinal ELSE 0

PaidFor(x, arm, o, c) == \E j \in jobs :
    j.exp = x /\ j.arm = arm /\ KeyOf(j) = o /\ j.cost = c

Charged(j) == \E l \in st.ledger : l.exp = j.exp /\ l.arm = j.arm /\ l.ordinal = KeyOf(j)

(* No job is paid for twice, and none for an experiment not yet opened. *)
JobsOnce == \A j, k \in jobs :
    j.exp = k.exp /\ j.arm = k.arm /\ KeyOf(j) = KeyOf(k) => j = k
JobsOpened == \A j \in jobs : j.exp < st.next \/ (active # None /\ j.exp = active)

(* What the files say when a job of the active experiment has been paid. *)
JobsFiled == active # None => \A j \in jobs : j.exp = active =>
    /\ j.arm = "panel" => /\ mine.reused = None /\ ~Retained
                          /\ j.ordinal \in Ordinals /\ TriedBefore(j.ordinal)
    /\ j.arm = "optimizer" => j.ordinal = 0
    /\ j.arm = "candidate" => /\ mine.accepted # None
                              /\ j.ordinal = mine.accepted.panel.ordinal
                              /\ mine.candidate = "valid"

(* Every file that has a cost was made from the receipt of its job. *)
FilesPaid == active # None =>
    /\ \A o \in Ordinals : Attempt(o) # None => PaidFor(active, "panel", o, Attempt(o).cost)
    /\ mine.optimizer # None => PaidFor(active, "optimizer", 0, mine.optimizer.cost)
    /\ mine.evaluation # None => PaidFor(active, "candidate", 0, mine.evaluation.cost)

(* Nothing is charged but what was paid, at its cost. *)
ChargesPaid == \A l \in st.ledger : PaidFor(l.exp, l.arm, l.ordinal, l.cost)

(* What is charged once an experiment, or its panel, is settled. *)
SettledBefore == \A j \in jobs : j.exp < st.next => Charged(j)
SettledFiles == active # None => \A j \in jobs : j.exp = active =>
    /\ mine.receipt # None => Charged(j)
    /\ j.arm = "panel" /\ mine.accepted # None => Charged(j)

(* What is charged at each place on the way there. *)
SettledHere == active # None => \A j \in jobs : j.exp = active =>
    /\ j.arm = "panel" =>
          /\ pc \in {"screen", "account"} /\ j.ordinal < mem.ordinal => Charged(j)
          /\ pc \in {"history", "catalog", "assess"} /\ j.ordinal <= mem.ordinal => Charged(j)
    /\ j.arm = "optimizer" /\ pc \in {"optimized", "validation", "built", "candidate",
                                      "evaluation", "decision", "publication", "advance"}
          => Charged(j)
    /\ j.arm = "candidate" /\ pc \in {"decision", "publication", "advance"} => Charged(j)

Accounts == /\ JobsOnce /\ JobsOpened /\ JobsFiled /\ FilesPaid /\ ChargesPaid
            /\ SettledBefore /\ SettledFiles
Accounted == Accounts /\ SettledHere

(* Neither a file nor a receipt nor a charge is added.                     *)
LEMMA StillAccounts ==
    ASSUME Accounts, Unwritten, jobs' = jobs, st'.ledger = st.ledger
    PROVE  Accounts'
<1>1. JobsOnce' /\ JobsOpened' /\ JobsFiled'
  BY DEF Accounts, Unwritten, JobsOnce, JobsOpened, JobsFiled, KeyOf, active, mine, Retained,
     TriedBefore, Attempt
<1>2. FilesPaid' /\ ChargesPaid'
  BY DEF Accounts, Unwritten, FilesPaid, ChargesPaid, PaidFor, KeyOf, active, mine, Attempt
<1>3. SettledBefore' /\ SettledFiles'
  BY DEF Accounts, Unwritten, SettledBefore, SettledFiles, Charged, KeyOf, active, mine
<1> QED BY <1>1, <1>2, <1>3 DEF Accounts

(* The end of an invocation settles nothing and unsettles nothing.         *)
LEMMA EndsAccounted == ASSUME Accounted, Ends PROVE Accounted'
<1>1. Accounts'
  BY StillAccounts DEF Accounted, Ends, Still, Unwritten
<1> QED BY <1>1 DEF Accounted, Ends, Idle, SettledHere

(* Nor does a runner that stays where it is.                               *)
LEMMA StaysAccounted == ASSUME Accounted, Stays PROVE Accounted'
<1>1. Accounts'
  BY StillAccounts DEF Accounted, Stays, Still, Unwritten
<1> QED BY <1>1 DEF Accounted, Stays, Still, SettledHere, Charged, KeyOf, active

(* The ordinals of the panel's jobs are ordinals.                          *)
LEMMA PanelJobOrdinal ==
    ASSUME Accounted, active # None, NEW j \in jobs, j.exp = active, j.arm = "panel"
    PROVE  j.ordinal \in Ordinals /\ j.ordinal \in Nat /\ j.ordinal >= 1 /\ KeyOf(j) = j.ordinal
<1>1. j.ordinal \in Ordinals /\ KeyOf(j) = j.ordinal
  BY DEF Accounted, Accounts, JobsFiled, KeyOf
<1>2. j.ordinal \in Nat \ {0}
  BY <1>1, Sets
<1> QED BY <1>1, <1>2

(* The runner enters the screening and goes from attempt to attempt.       *)
LEMMA ScreensAccounted ==
    ASSUME Typed, Documented, Accounted,
           \/ EnterScreening \/ ReadAttemptChain \/ ChampionRuntime \/ ReplayAttempt
           \/ ReconcileHistory \/ ReconcileCatalog
           \/ PanelSaturated \/ PanelInfrastructureInvalid
    PROVE  Accounted'
<1>1. CASE Ends
  BY <1>1, EndsAccounted
<1>2. CASE ~Ends
  <2>1. Unwritten /\ jobs' = jobs /\ st'.ledger = st.ledger
    <3>1. CASE EnterScreening
      BY <3>1 DEF EnterScreening, UpdateState, Unwritten, Typed, TypeOK, StateType
    <3>2. CASE ReconcileHistory
      BY <1>2, <3>2, BlockEnds DEF ReconcileHistory, UpdateState, Unwritten, Typed, TypeOK, StateType
    <3>3. CASE ReconcileCatalog
      BY <1>2, <3>3, BlockEnds DEF ReconcileCatalog, Unwritten
    <3>4. CASE ~EnterScreening /\ ~ReconcileHistory /\ ~ReconcileCatalog
      BY <1>2, <3>4, BlockEnds, FinishEnds, StopEnds DEF ReadAttemptChain, ChampionRuntime, Failure,
         Cancelled, ReplayAttempt, PanelSaturated, PanelInfrastructureInvalid, NextOrdinal,
         UpdateState, Unwritten
    <3> QED BY <3>1, <3>2, <3>3, <3>4
  <2>2. Accounts'
    BY <2>1, StillAccounts DEF Accounted
  <2>3. \/ pc' \in {"chain", "runtime"}
        \/ pc' = "screen" /\ mem'.ordinal = 1
        \/ pc = "screen" /\ pc' = "account" /\ mem'.ordinal = mem.ordinal
        \/ pc \in {"history", "catalog"} /\ pc' \in {"catalog", "assess"} /\ mem'.ordinal = mem.ordinal
        \/ pc = "assess" /\ pc' = "screen" /\ mem'.ordinal = mem.ordinal + 1
    <3>1. mem \in MemoryType
      BY DEF Typed, TypeOK
    <3>2. CASE EnterScreening \/ ReadAttemptChain
      BY <1>2, <3>2, BlockEnds DEF EnterScreening, ReadAttemptChain, Goto
    <3>3. CASE ChampionRuntime
      BY <1>2, <3>1, <3>3, FinishEnds, StopEnds DEF ChampionRuntime, Failure, Cancelled, MemoryType
    <3>4. CASE ReplayAttempt
      BY <3>1, <3>4 DEF ReplayAttempt, Screening, MemoryType
    <3>5. CASE ReconcileHistory \/ ReconcileCatalog
      BY <1>2, <3>1, <3>5, BlockEnds DEF ReconcileHistory, ReconcileCatalog, Goto, MemoryType
    <3>6. CASE PanelSaturated \/ PanelInfrastructureInvalid
      BY <1>2, <3>1, <3>6, BlockEnds DEF PanelSaturated, PanelInfrastructureInvalid, NextOrdinal,
         MemoryType
    <3> QED BY <3>2, <3>3, <3>4, <3>5, <3>6
  <2>4. active' = active
    BY <2>1 DEF Unwritten, active
  <2>5. ASSUME NEW j \in jobs, active # None, j.exp = active, j.arm = "panel"
        PROVE  /\ pc' \in {"screen", "account"} /\ j.ordinal < mem'.ordinal => Charged(j)
               /\ pc' \in {"history", "catalog", "assess"} /\ j.ordinal <= mem'.ordinal => Charged(j)
    <3>1. j.ordinal \in Nat /\ j.ordinal >= 1
      BY <2>5, PanelJobOrdinal
    <3>2. mem.ordinal \in Nat
      BY DEF Typed, TypeOK, MemoryType
    <3>3. CASE pc = "assess" /\ pc' = "screen" /\ mem'.ordinal = mem.ordinal + 1
      <4>1. j.ordinal < mem.ordinal + 1 => j.ordinal <= mem.ordinal
        BY <3>1, <3>2
      <4> QED BY <2>5, <3>3, <4>1 DEF Accounted, SettledHere
    <3>4. CASE pc' = "screen" /\ mem'.ordinal = 1
      BY <3>1, <3>4
    <3> QED BY <2>3, <2>5, <3>3, <3>4 DEF Accounted, SettledHere
  <2>6. SettledHere'
    BY <2>1, <2>3, <2>4, <2>5 DEF SettledHere, Charged, KeyOf
  <2> QED BY <2>2, <2>6 DEF Accounted
<1> QED BY <1>1, <1>2

(* The runner goes from the panel to the decision and on.                  *)
LEMMA PhasesAccounted ==
    ASSUME Typed, Accounted,
           \/ PanelPrepared \/ OptimizerDone \/ ReplayCandidate \/ CandidateReady \/ Decided
           \/ Published
    PROVE  Accounted'
<1>1. CASE Ends
  BY <1>1, EndsAccounted
<1>2. CASE ~Ends
  <2>1. /\ UpdateState(st)
        /\ \/ pc = "prepared" /\ pc' = "optimizer"
           \/ pc = "optimized" /\ pc' = "validation"
           \/ pc = "validation" /\ pc' = "decision" /\ mine.candidate # "valid"
           \/ pc = "validation" /\ pc' = "candidate"
           \/ pc = "candidate" /\ pc' = "evaluation"
           \/ pc = "decision" /\ pc' \in {"publication", "advance"}
           \/ pc = "publication" /\ pc' = "advance"
    <3>1. CASE PanelPrepared \/ OptimizerDone
      BY <1>2, <3>1, StopEnds DEF PanelPrepared, Boundary, OptimizerDone, Goto
    <3>2. CASE ReplayCandidate \/ CandidateReady
      BY <1>2, <3>2, StopEnds, BlockEnds DEF ReplayCandidate, CandidateReady, Boundary, InPhase, Goto
    <3>3. CASE Decided \/ Published
      BY <1>2, <3>3, BlockEnds DEF Decided, Published, InPhase, Goto
    <3> QED BY <3>1, <3>2, <3>3
  <2>2. Unwritten /\ jobs' = jobs /\ st' = st /\ active' = active
    BY <2>1 DEF UpdateState, Unwritten, active
  <2>3. Accounts'
    BY <2>2, StillAccounts DEF Accounted
  <2>4. ASSUME NEW j \in jobs, active # None, j.exp = active, j.arm = "candidate",
               mine.candidate # "valid"
        PROVE  FALSE
    BY <2>4 DEF Accounted, Accounts, JobsFiled
  <2>5. SettledHere'
    BY <2>1, <2>2, <2>4 DEF Accounted, SettledHere, Charged, KeyOf
  <2> QED BY <2>3, <2>5 DEF Accounted
<1> QED BY <1>1, <1>2

(* A job that has no receipt leaves one, and only one.                     *)
LEMMA RunJobAccounted ==
    ASSUME Typed, History, Documented, Accounted, NEW arm \in Arms, NEW o,
           NEW panel, NEW revision, NEW outcomes,
           RunJob(arm, o, panel, revision, outcomes),
           \/ arm = "panel" /\ pc = "screen" /\ o = mem.ordinal /\ o \in Ordinals
           \/ arm = "optimizer" /\ pc = "optimizer" /\ o = 0
           \/ arm = "candidate" /\ pc = "evaluation" /\ o = mine.accepted.panel.ordinal
    PROVE  Accounted'
<1>1. PICK new :
        /\ jobs' = jobs \cup {new}
        /\ new.exp = active /\ new.arm = arm /\ new.ordinal = o
  <2>1. PICK outcome \in outcomes, cost \in Costs :
          jobs' = jobs \cup {[exp |-> active, arm |-> arm, ordinal |-> o, panel |-> panel,
                              revision |-> revision, outcome |-> outcome, cost |-> cost]}
    BY DEF RunJob
  <2>2. PICK new : new = [exp |-> active, arm |-> arm, ordinal |-> o, panel |-> panel,
                          revision |-> revision, outcome |-> outcome, cost |-> cost]
    OBVIOUS
  <2>3. new.exp = active /\ new.arm = arm /\ new.ordinal = o
    BY <2>2
  <2>4. jobs' = jobs \cup {new}
    BY <2>1, <2>2
  <2> QED BY <2>3, <2>4
<1>2. /\ UNCHANGED <<st, catalog, art>> /\ pc' = pc /\ mem' = mem /\ active' = active
      /\ mine' = mine /\ \A i : Attempt(i)' = Attempt(i)
  BY DEF RunJob, Goto, active, mine, Attempt
<1>3. /\ active # None /\ mine.receipt = None /\ active = st.next
  BY NoReceiptYet DEF Idle, History, Counted
<1>4. \A k \in jobs : ~(k.exp = active /\ k.arm = arm /\ k.ordinal = o)
  BY DEF RunJob, Job
<1>5. ASSUME NEW k \in jobs, k.exp = active, k.arm = arm, KeyOf(k) = KeyOf(new)
      PROVE  FALSE
  <2>1. k.ordinal = o
    BY <1>1, <1>3, <1>5 DEF KeyOf, Accounted, Accounts, JobsFiled
  <2> QED BY <1>4, <1>5, <2>1
<1>6. JobsOnce'
  BY <1>1, <1>5 DEF JobsOnce, Accounted, Accounts, KeyOf
<1>7. JobsOpened'
  BY <1>1, <1>2, <1>3 DEF JobsOpened, Accounted, Accounts
<1>8. /\ arm = "panel" => /\ mine.reused = None /\ mine.accepted = None /\ ~Retained
                          /\ o \in Ordinals /\ TriedBefore(o)
      /\ arm = "candidate" => mine.accepted # None /\ mine.candidate = "valid"
  BY AfterPanelTyped DEF Documented, Staged, Tried, Replaying, AfterPanel
<1>9. JobsFiled'
  BY <1>1, <1>2, <1>8 DEF JobsFiled, Accounted, Accounts, Retained, TriedBefore
<1>10. \A x, a, i, c : PaidFor(x, a, i, c) => PaidFor(x, a, i, c)'
  BY <1>1 DEF PaidFor, KeyOf
<1>11. FilesPaid'
  BY <1>2, <1>10 DEF FilesPaid, Accounted, Accounts
<1>12. ChargesPaid'
  BY <1>2, <1>10 DEF ChargesPaid, Accounted, Accounts
<1>13. \A k : Charged(k)' <=> Charged(k)
  BY <1>2 DEF Charged, KeyOf
<1>14. SettledBefore'
  <2>1. ~(new.exp < st.next)
    <3>1. st.next \in Nat
      BY Sets, ConstantsAssumption DEF Typed, TypeOK, StateType
    <3> QED BY <1>1, <1>3, <3>1
  <2> QED BY <1>1, <1>2, <1>13, <2>1 DEF SettledBefore, Accounted, Accounts
<1>15. SettledFiles'
  BY <1>1, <1>2, <1>3, <1>8, <1>13 DEF SettledFiles, Accounted, Accounts
<1>16. SettledHere'
  <2>1. o = mem.ordinal => ~(o < mem.ordinal)
    BY DEF Typed, TypeOK, MemoryType
  <2> QED BY <1>1, <1>2, <1>13, <2>1 DEF SettledHere, Accounted
<1> QED BY <1>6, <1>7, <1>9, <1>11, <1>12, <1>14, <1>15, <1>16 DEF Accounted, Accounts

(* The three arms each run a job with a name of its own.                   *)
LEMMA RunsAccounted ==
    ASSUME Typed, History, Documented, Accounted,
           ChampionArmRuns \/ OptimizerRuns \/ CandidateArmRuns
    PROVE  Accounted'
<1>1. CASE ChampionArmRuns
  <2>1. mem.ordinal \in Ordinals /\ pc = "screen"
    BY <1>1, SelectionTyped DEF ChampionArmRuns, Live, Screening
  <2> QED BY <1>1, <2>1, RunJobAccounted DEF ChampionArmRuns, Arms
<1>2. CASE OptimizerRuns
  BY <1>2, RunJobAccounted DEF OptimizerRuns, InPhase, Arms
<1>3. CASE CandidateArmRuns
  BY <1>3, RunJobAccounted DEF CandidateArmRuns, InPhase, Arms
<1> QED BY <1>1, <1>2, <1>3

(* A known charge has the cost of the job it is for.                       *)
LEMMA KnownChargesAgree ==
    ASSUME Accounted, NEW x, NEW arm, NEW o, NEW c, PaidFor(x, arm, o, c),
           NEW l \in EntriesFor(st.ledger, x, arm, o)
    PROVE  l.cost = c
<1>1. l \in st.ledger /\ l.exp = x /\ l.arm = arm /\ l.ordinal = o
  BY DEF EntriesFor
<1>2. PICK j \in jobs : j.exp = x /\ j.arm = arm /\ KeyOf(j) = o /\ j.cost = l.cost
  BY <1>1 DEF Accounted, Accounts, ChargesPaid, PaidFor
<1>3. PICK k \in jobs : k.exp = x /\ k.arm = arm /\ KeyOf(k) = o /\ k.cost = c
  BY DEF PaidFor
<1> QED BY <1>2, <1>3 DEF Accounted, Accounts, JobsOnce

(* A cost of a file that was paid for enters the ledger: its job is        *)
(* charged, the others are as they were.                                   *)
LEMMA AccountAccounts ==
    ASSUME Typed, Documented, Accounted, active # None, NEW arm, NEW o, NEW c, NEW there,
           AccountCost(arm, o, c, there), ~Ends, PaidFor(active, arm, o, c)
    PROVE  /\ Accounts'
           /\ \A j \in jobs : Charged(j) => Charged(j)'
           /\ \A j \in jobs : j.exp = active /\ j.arm = arm /\ KeyOf(j) = o => Charged(j)'
           /\ jobs' = jobs /\ active' = active /\ pc' = there /\ mem' = mem
<1>1. /\ Unwritten /\ UNCHANGED <<catalog, jobs>> /\ pc' = there /\ mem' = mem
      /\ \/ EntriesFor(st.ledger, active, arm, o) # {} /\ st'.ledger = st.ledger
         \/ st'.ledger = st.ledger \cup {LedgerEntry(active, arm, o, c)}
  BY AccountEffect
<1>2. st.ledger \subseteq st'.ledger
  BY <1>1
<1>3. \A j : Charged(j) => Charged(j)'
  BY <1>2 DEF Charged, KeyOf
<1>4. \E l \in st'.ledger : l.exp = active /\ l.arm = arm /\ l.ordinal = o
  <2>1. CASE EntriesFor(st.ledger, active, arm, o) # {}
    BY <1>2, <2>1 DEF EntriesFor
  <2>2. CASE st'.ledger = st.ledger \cup {LedgerEntry(active, arm, o, c)}
    <3>1. PICK l : l = LedgerEntry(active, arm, o, c)
      OBVIOUS
    <3>2. l \in st'.ledger /\ l.exp = active /\ l.arm = arm /\ l.ordinal = o
      BY <2>2, <3>1 DEF LedgerEntry
    <3> QED BY <3>2
  <2> QED BY <1>1, <2>1, <2>2
<1>5. \A j \in jobs : j.exp = active /\ j.arm = arm /\ KeyOf(j) = o => Charged(j)'
  BY <1>4 DEF Charged, KeyOf
<1>6. \A x, a, i, d : PaidFor(x, a, i, d)' <=> PaidFor(x, a, i, d)
  BY <1>1 DEF PaidFor, KeyOf
<1>7. ChargesPaid'
  <2>1. ASSUME NEW l \in st'.ledger PROVE PaidFor(l.exp, l.arm, l.ordinal, l.cost)
    <3>1. CASE l \in st.ledger
      BY <3>1 DEF Accounted, Accounts, ChargesPaid
    <3>2. CASE l = LedgerEntry(active, arm, o, c)
      BY <3>2 DEF LedgerEntry
    <3> QED BY <1>1, <2>1, <3>1, <3>2
  <2> QED BY <1>6, <2>1 DEF ChargesPaid
<1>8. JobsOnce' /\ JobsOpened' /\ JobsFiled'
  BY <1>1 DEF Accounted, Accounts, Unwritten, JobsOnce, JobsOpened, JobsFiled, KeyOf, active, mine,
     Retained, TriedBefore, Attempt
<1>9. FilesPaid'
  BY <1>1, <1>6 DEF Accounted, Accounts, Unwritten, FilesPaid, active, mine, Attempt
<1>10. SettledBefore' /\ SettledFiles'
  BY <1>1, <1>3 DEF Accounted, Accounts, Unwritten, SettledBefore, SettledFiles, active, mine
<1> QED BY <1>1, <1>3, <1>5, <1>7, <1>8, <1>9, <1>10 DEF Accounts, Unwritten, active

(* What a file that is charged was paid for.                               *)
LEMMA AccountsPaid ==
    ASSUME Typed, Documented, Accounted
    PROVE  /\ ReplayAccepted /\ mine.accepted.panel.exp = active
                => PaidFor(active, "panel", mine.accepted.panel.ordinal, mine.accepted.cost)
           /\ AccountAttempt => PaidFor(active, "panel", mem.ordinal, Attempt(mem.ordinal).cost)
           /\ AccountOptimizer => PaidFor(active, "optimizer", 0, mine.optimizer.cost)
           /\ AccountEvaluation => PaidFor(active, "candidate", 0, mine.evaluation.cost)
<1>1. ASSUME ReplayAccepted
      PROVE  PaidFor(active, "panel", mine.accepted.panel.ordinal, mine.accepted.cost)
  <2>1. active # None /\ mine.reused = None /\ mine.accepted # None
    BY <1>1, NoReceiptYet DEF ReplayAccepted, Idle
  <2>2. PICK o \in Ordinals : /\ Attempt(o) # None /\ mine.accepted = AcceptedFrom(Attempt(o))
    BY <2>1 DEF Documented, Documents, AcceptanceFiled
  <2>3. mine.accepted.panel.ordinal = o /\ mine.accepted.cost = Attempt(o).cost
    BY <2>1, <2>2 DEF AcceptedFrom, Documented, Documents, Chained, Link
  <2> QED BY <2>1, <2>2, <2>3 DEF Accounted, Accounts, FilesPaid
<1>2. ASSUME AccountAttempt
      PROVE  PaidFor(active, "panel", mem.ordinal, Attempt(mem.ordinal).cost)
  BY <1>2, AttemptTyped DEF AccountAttempt, Attempting, Accounted, Accounts, FilesPaid
<1>3. ASSUME AccountOptimizer PROVE PaidFor(active, "optimizer", 0, mine.optimizer.cost)
  BY <1>3, NoReceiptYet DEF AccountOptimizer, InPhase, Idle, Accounted, Accounts, FilesPaid
<1>4. ASSUME AccountEvaluation PROVE PaidFor(active, "candidate", 0, mine.evaluation.cost)
  BY <1>4, NoReceiptYet DEF AccountEvaluation, InPhase, Idle, Accounted, Accounts, FilesPaid
<1> QED BY <1>1, <1>2, <1>3, <1>4

(* The charges of a replayed panel, of an attempt, of the optimizer and of *)
(* the evaluation settle the job they are for.                             *)
LEMMA ChargesAccounted ==
    ASSUME Typed, Documented, Accounted,
           ReplayAccepted \/ AccountAttempt \/ AccountOptimizer \/ AccountEvaluation
    PROVE  Accounted'
<1>1. CASE Ends
  BY <1>1, EndsAccounted
<1>2. CASE ~Ends
  <2>1. active # None
    BY NoReceiptYet DEF ReplayAccepted, AccountAttempt, AccountOptimizer, AccountEvaluation, InPhase, Idle
  <2>2. CASE ReplayAccepted
    <3>1. /\ AccountCost("panel", mine.accepted.panel.ordinal, mine.accepted.cost, "prepared")
          /\ mine.accepted.panel.exp = active
      BY <1>2, <2>2, BlockEnds DEF ReplayAccepted
    <3>2. Accounts' /\ pc' = "prepared"
      BY <1>2, <2>1, <2>2, <3>1, AccountsPaid, AccountAccounts
    <3> QED BY <3>2 DEF Accounted, SettledHere
  <2>3. CASE AccountAttempt
    <3>1. /\ AccountCost("panel", mem.ordinal, Attempt(mem.ordinal).cost, "history")
          /\ pc = "account"
      BY <2>3 DEF AccountAttempt
    <3>2. /\ Accounts' /\ pc' = "history" /\ mem' = mem /\ jobs' = jobs /\ active' = active
          /\ \A j \in jobs : Charged(j) => Charged(j)'
          /\ \A j \in jobs : j.exp = active /\ j.arm = "panel" /\ KeyOf(j) = mem.ordinal
                                => Charged(j)'
      BY <1>2, <2>1, <2>3, <3>1, AccountsPaid, AccountAccounts
    <3>3. ASSUME NEW j \in jobs, j.exp = active, j.arm = "panel", j.ordinal <= mem.ordinal
          PROVE  Charged(j)'
      <4>1. j.ordinal \in Nat /\ mem.ordinal \in Nat /\ KeyOf(j) = j.ordinal
        BY <2>1, <3>3, PanelJobOrdinal DEF Typed, TypeOK, MemoryType
      <4>2. j.ordinal < mem.ordinal \/ j.ordinal = mem.ordinal
        BY <3>3, <4>1
      <4> QED BY <2>1, <3>1, <3>2, <3>3, <4>1, <4>2 DEF Accounted, SettledHere
    <3> QED BY <3>2, <3>3 DEF Accounted, SettledHere
  <2>4. CASE AccountOptimizer
    <3>1. /\ AccountCost("optimizer", 0, mine.optimizer.cost, "optimized")
          /\ pc = "optimizer"
      BY <2>4 DEF AccountOptimizer, InPhase
    <3>2. /\ Accounts' /\ pc' = "optimized" /\ mem' = mem /\ jobs' = jobs /\ active' = active
          /\ \A j \in jobs : j.exp = active /\ j.arm = "optimizer" /\ KeyOf(j) = 0 => Charged(j)'
      BY <1>2, <2>1, <2>4, <3>1, AccountsPaid, AccountAccounts
    <3> QED BY <3>2 DEF Accounted, SettledHere, KeyOf
  <2>5. CASE AccountEvaluation
    <3>1. /\ AccountCost("candidate", 0, mine.evaluation.cost, "decision")
          /\ pc = "evaluation"
      BY <2>5 DEF AccountEvaluation, InPhase
    <3>2. /\ Accounts' /\ pc' = "decision" /\ mem' = mem /\ jobs' = jobs /\ active' = active
          /\ \A j \in jobs : Charged(j) => Charged(j)'
          /\ \A j \in jobs : j.exp = active /\ j.arm = "candidate" /\ KeyOf(j) = 0 => Charged(j)'
      BY <1>2, <2>1, <2>5, <3>1, AccountsPaid, AccountAccounts
    <3> QED BY <2>1, <3>1, <3>2 DEF Accounted, SettledHere, KeyOf
  <2> QED BY <2>2, <2>3, <2>4, <2>5
<1> QED BY <1>1, <1>2

(* A file that neither names the panel, nor counts as paid for, nor ends   *)
(* the experiment.                                                         *)
LEMMA WriteAccounts ==
    ASSUME Typed, History, Accounted, active # None, NEW new, WriteArtifact(new),
           new.reused = mine.reused, new.accepted = mine.accepted, new.attempts = mine.attempts,
           new.candidate = mine.candidate \/ new.candidate = "valid" \/ mine.candidate = None,
           new.optimizer = mine.optimizer, new.evaluation = mine.evaluation,
           new.receipt = mine.receipt
    PROVE  Accounts'
<1>1. mine' = new /\ active' = active /\ UNCHANGED <<st, catalog, jobs>>
  BY WroteOne
<1>2. \A o : Attempt(o)' = Attempt(o)
  BY <1>1 DEF Attempt
<1>3. JobsOnce' /\ JobsOpened' /\ ChargesPaid' /\ SettledBefore'
  BY <1>1 DEF Accounted, Accounts, JobsOnce, JobsOpened, ChargesPaid, SettledBefore, PaidFor,
     Charged, KeyOf
<1>4. None # "valid"
  BY ArtifactsAssumption
<1>5. JobsFiled'
  BY <1>1, <1>2, <1>4 DEF Accounted, Accounts, JobsFiled, Retained, TriedBefore
<1>6. FilesPaid'
  BY <1>1, <1>2 DEF Accounted, Accounts, FilesPaid, PaidFor, KeyOf
<1>7. SettledFiles'
  BY <1>1 DEF Accounted, Accounts, SettledFiles, Charged, KeyOf
<1> QED BY <1>3, <1>5, <1>6, <1>7 DEF Accounts

(* A panel taken over has no jobs of its own to settle.                    *)
LEMMA ReuseAccounted ==
    ASSUME Typed, History, Documented, Accounted, ReplayReuse \/ ReuseRetained
    PROVE  Accounted'
<1>1. CASE Ends
  BY <1>1, EndsAccounted
<1>2. CASE ~Ends
  <2>1. PICK new, v :
          /\ WriteArtifact(new) /\ pc = "panel" /\ pc' \in {"panel", "prepared"}
          /\ \/ /\ new = [mine EXCEPT !.accepted = v]
                /\ mine.reused # None /\ mine.accepted \in {None, v}
             \/ /\ new = [mine EXCEPT !.reused = v]
                /\ Retained /\ mine.accepted = None
    <3>1. CASE ReplayReuse
      BY <1>2, <3>1, BlockEnds DEF ReplayReuse, Goto
    <3>2. CASE ReuseRetained
      BY <1>2, <3>2, BlockEnds DEF ReuseRetained, Goto
    <3> QED BY <3>1, <3>2
  <2>2. active # None /\ mine \in ArtifactType /\ mine.receipt = None
    BY <2>1, NoReceiptYet DEF Idle
  <2>3. /\ new.attempts = mine.attempts /\ new.candidate = mine.candidate
        /\ new.optimizer = mine.optimizer /\ new.evaluation = mine.evaluation
        /\ new.receipt = mine.receipt
        /\ \/ /\ new.accepted = v /\ new.reused = mine.reused
              /\ mine.reused # None /\ mine.accepted \in {None, v}
           \/ /\ new.accepted = mine.accepted /\ Retained /\ mine.accepted = None
    BY <2>1, <2>2 DEF ArtifactType
  <2>4. mine' = new /\ active' = active /\ UNCHANGED <<st, catalog, jobs>>
    BY <2>1, <2>2, WroteOne
  <2>5. \A o : Attempt(o)' = Attempt(o)
    BY <2>3, <2>4 DEF Attempt
  <2>6. ASSUME NEW j \in jobs, j.exp = active, j.arm = "panel" PROVE FALSE
    BY <2>2, <2>3, <2>6 DEF Accounted, Accounts, JobsFiled
  <2>7. JobsOnce' /\ JobsOpened' /\ ChargesPaid' /\ SettledBefore'
    BY <2>4 DEF Accounted, Accounts, JobsOnce, JobsOpened, ChargesPaid, SettledBefore, PaidFor,
       Charged, KeyOf
  <2>8. JobsFiled'
    BY <2>2, <2>3, <2>4, <2>6 DEF Accounted, Accounts, JobsFiled
  <2>9. FilesPaid'
    BY <2>3, <2>4, <2>5 DEF Accounted, Accounts, FilesPaid, PaidFor, KeyOf
  <2>10. SettledFiles' /\ SettledHere'
    BY <2>1, <2>2, <2>3, <2>4, <2>6 DEF SettledFiles, SettledHere
  <2> QED BY <2>7, <2>8, <2>9, <2>10 DEF Accounted, Accounts
<1> QED BY <1>1, <1>2

(* A fresh attempt was paid for, and no later screen was.                  *)
LEMMA RecordAttemptAccounted ==
    ASSUME Typed, History, Documented, Accounted, RecordAttempt
    PROVE  Accounted'
<1>1. CASE Ends
  BY <1>1, EndsAccounted
<1>2. CASE ~Ends
  <2>1. PICK j \in Job("panel", mem.ordinal) :
              /\ Live
              /\ pc = "screen" /\ pc' = "account"
              /\ active # None /\ active' = active
              /\ UNCHANGED <<st, catalog, jobs>>
              /\ mine'.reused = mine.reused /\ mine'.accepted = mine.accepted
              /\ mine'.candidate = mine.candidate
              /\ mine'.optimizer = mine.optimizer /\ mine'.evaluation = mine.evaluation
              /\ mine'.receipt = mine.receipt
              /\ mem'.ordinal = mem.ordinal
              /\ Attempt(mem.ordinal)' = Attempted(j)
              /\ \A o \in Ordinals : o # mem.ordinal => Attempt(o)' = Attempt(o)
    BY <1>2, RecordAttemptEffect
  <2>2. PICK k : k = mem.ordinal
    OBVIOUS
  <2>3. k \in Ordinals /\ Attempt(k) = None
    BY <2>1, <2>2, LiveIsLast DEF Live
  <2>4. Attempt(k)'.cost = j.cost
    BY <2>1, <2>2 DEF Attempt, Attempted
  <2>5. \A o \in Ordinals : o # k => Attempt(o)' = Attempt(o)
    BY <2>1, <2>2
  <2>6. JobsOnce' /\ JobsOpened' /\ ChargesPaid' /\ SettledBefore'
    BY <2>1 DEF Accounted, Accounts, JobsOnce, JobsOpened, ChargesPaid, SettledBefore, PaidFor,
       Charged, KeyOf
  <2>7. ASSUME NEW o \in Ordinals, TriedBefore(o) PROVE TriedBefore(o)'
    <3>1. ~(k < o)
      BY <2>3, <2>7 DEF TriedBefore
    <3>2. \A i \in Ordinals : i < o => i # k
      BY <3>1
    <3> QED BY <2>5, <2>7, <3>2 DEF TriedBefore
  <2>8. JobsFiled'
    BY <2>1, <2>7 DEF Accounted, Accounts, JobsFiled, Retained
  <2>9. \A x, a, i, c : PaidFor(x, a, i, c)' <=> PaidFor(x, a, i, c)
    BY <2>1 DEF PaidFor, KeyOf
  <2>10. PaidFor(active, "panel", k, j.cost)
    BY <2>2 DEF PaidFor, Job, KeyOf
  <2>11. FilesPaid'
    BY <2>1, <2>4, <2>5, <2>9, <2>10 DEF Accounted, Accounts, FilesPaid
  <2>12. SettledFiles' /\ SettledHere'
    BY <2>1 DEF Accounted, Accounts, SettledFiles, SettledHere, Charged, KeyOf
  <2> QED BY <2>6, <2>8, <2>11, <2>12 DEF Accounted, Accounts
<1> QED BY <1>1, <1>2

(* An accepted panel settles every screen of the experiment.               *)
LEMMA PanelAcceptedAccounted ==
    ASSUME Typed, History, Documented, Accounted, PanelAccepted
    PROVE  Accounted'
<1> DEFINE accepted == AcceptedFrom(Attempt(mem.ordinal))
           new == [mine EXCEPT !.accepted = accepted]
<1>1. /\ WriteArtifact(new) /\ pc = "assess" /\ pc' = "prepared"
      /\ Attempt(mem.ordinal).outcome = "accepted"
  BY DEF PanelAccepted, Goto
<1>2. /\ active # None /\ mine \in ArtifactType /\ mine.receipt = None
      /\ mem.ordinal \in Ordinals /\ mine.accepted = None
  BY <1>1, NoReceiptYet, AttemptTyped DEF Idle, Attempting, Documented, Staged, Replaying
<1>3. PICK ok : ok = accepted
  OBVIOUS
<1>4. /\ new.reused = mine.reused /\ new.accepted = ok
      /\ new.attempts = mine.attempts /\ new.candidate = mine.candidate
      /\ new.optimizer = mine.optimizer /\ new.evaluation = mine.evaluation
      /\ new.receipt = mine.receipt
  BY <1>2, <1>3 DEF ArtifactType
<1>5. mine' = new /\ active' = active /\ UNCHANGED <<st, catalog, jobs>>
  BY <1>1, <1>2, WroteOne
<1>6. \A o : Attempt(o)' = Attempt(o)
  BY <1>4, <1>5 DEF Attempt
<1>7. ASSUME NEW j \in jobs, j.exp = active, j.arm = "panel" PROVE Charged(j)
  <2>1. j.ordinal \in Nat /\ mem.ordinal \in Nat /\ TriedBefore(j.ordinal)
    BY <1>2, <1>7, PanelJobOrdinal, Sets DEF Accounted, Accounts, JobsFiled
  <2>2. ~(mem.ordinal < j.ordinal)
    BY <1>1, <1>2, <2>1 DEF TriedBefore
  <2>3. j.ordinal <= mem.ordinal
    BY <2>1, <2>2
  <2> QED BY <1>1, <1>2, <1>7, <2>3 DEF Accounted, SettledHere
<1>8. JobsOnce' /\ JobsOpened' /\ ChargesPaid' /\ SettledBefore'
  BY <1>5 DEF Accounted, Accounts, JobsOnce, JobsOpened, ChargesPaid, SettledBefore, PaidFor,
     Charged, KeyOf
<1>9. JobsFiled'
  BY <1>2, <1>4, <1>5, <1>6 DEF Accounted, Accounts, JobsFiled, Retained, TriedBefore
<1>10. FilesPaid'
  BY <1>4, <1>5, <1>6 DEF Accounted, Accounts, FilesPaid, PaidFor, KeyOf
<1>11. SettledFiles' /\ SettledHere'
  BY <1>1, <1>2, <1>4, <1>5, <1>7 DEF SettledFiles, SettledHere, Charged, KeyOf
<1> QED BY <1>8, <1>9, <1>10, <1>11 DEF Accounted, Accounts

(* The files of the optimizer and of the evaluation were paid for.         *)
LEMMA RecordArmAccounted ==
    ASSUME Typed, History, Documented, Accounted, RecordOptimizer \/ RecordEvaluation
    PROVE  Accounted'
<1>0. PICK j \in jobs : \E new, v :
        /\ WriteArtifact(new) /\ pc \in {"optimizer", "evaluation"} /\ pc' = pc
        /\ v.cost = j.cost /\ j.exp = active
        /\ \/ new = [mine EXCEPT !.optimizer = v] /\ j.arm = "optimizer"
           \/ new = [mine EXCEPT !.evaluation = v] /\ j.arm = "candidate"
  <2>1. CASE RecordOptimizer
    <3>1. PICK j \in Job("optimizer", 0) :
            WriteArtifact([mine EXCEPT !.optimizer = [revision |-> j.revision, cost |-> j.cost]])
      BY <2>1 DEF RecordOptimizer
    <3>2. PICK v : v = [revision |-> j.revision, cost |-> j.cost]
      OBVIOUS
    <3>3. PICK new : new = [mine EXCEPT !.optimizer = v]
      OBVIOUS
    <3>4. WriteArtifact(new) /\ v.cost = j.cost
      BY <3>1, <3>2, <3>3
    <3>5. j \in jobs /\ j.exp = active /\ j.arm = "optimizer"
      BY DEF Job
    <3>6. pc = "optimizer" /\ pc' = pc
      BY <2>1 DEF RecordOptimizer, InPhase, Goto
    <3> QED BY <3>3, <3>4, <3>5, <3>6
  <2>2. CASE RecordEvaluation
    <3>1. PICK j \in Job("candidate", mine.accepted.panel.ordinal) :
            WriteArtifact([mine EXCEPT !.evaluation =
                [panel |-> j.panel, outcome |-> j.outcome, cost |-> j.cost]])
      BY <2>2 DEF RecordEvaluation
    <3>2. PICK v : v = [panel |-> j.panel, outcome |-> j.outcome, cost |-> j.cost]
      OBVIOUS
    <3>3. PICK new : new = [mine EXCEPT !.evaluation = v]
      OBVIOUS
    <3>4. WriteArtifact(new) /\ v.cost = j.cost
      BY <3>1, <3>2, <3>3
    <3>5. j \in jobs /\ j.exp = active /\ j.arm = "candidate"
      BY DEF Job
    <3>6. pc = "evaluation" /\ pc' = pc
      BY <2>2 DEF RecordEvaluation, InPhase, Goto
    <3> QED BY <3>3, <3>4, <3>5, <3>6
  <2> QED BY <2>1, <2>2
<1>1. PICK new, v :
        /\ WriteArtifact(new) /\ pc \in {"optimizer", "evaluation"} /\ pc' = pc
        /\ v.cost = j.cost /\ j.exp = active
        /\ \/ new = [mine EXCEPT !.optimizer = v] /\ j.arm = "optimizer"
           \/ new = [mine EXCEPT !.evaluation = v] /\ j.arm = "candidate"
  BY <1>0
<1>2. active # None /\ mine \in ArtifactType /\ mine.receipt = None
  BY <1>1, NoReceiptYet DEF Idle
<1>3. /\ new.reused = mine.reused /\ new.accepted = mine.accepted
      /\ new.attempts = mine.attempts /\ new.candidate = mine.candidate
      /\ new.receipt = mine.receipt
      /\ \/ /\ new.optimizer = v /\ j.arm = "optimizer" /\ new.evaluation = mine.evaluation
         \/ /\ new.evaluation = v /\ j.arm = "candidate" /\ new.optimizer = mine.optimizer
  BY <1>1, <1>2 DEF ArtifactType
<1>4. mine' = new /\ active' = active /\ UNCHANGED <<st, catalog, jobs>>
  BY <1>1, <1>2, WroteOne
<1>5. \A o : Attempt(o)' = Attempt(o)
  BY <1>3, <1>4 DEF Attempt
<1>6. JobsOnce' /\ JobsOpened' /\ ChargesPaid' /\ SettledBefore'
  BY <1>4 DEF Accounted, Accounts, JobsOnce, JobsOpened, ChargesPaid, SettledBefore, PaidFor,
     Charged, KeyOf
<1>7. JobsFiled'
  BY <1>3, <1>4, <1>5 DEF Accounted, Accounts, JobsFiled, Retained, TriedBefore
<1>8. PaidFor(active, j.arm, 0, v.cost) \/ j.arm = "panel"
  BY <1>1 DEF PaidFor, KeyOf
<1>9. FilesPaid'
  <2>1. \A x, a, i, c : PaidFor(x, a, i, c)' <=> PaidFor(x, a, i, c)
    BY <1>4 DEF PaidFor, KeyOf
  <2> QED BY <1>3, <1>4, <1>5, <1>8, <2>1 DEF Accounted, Accounts, FilesPaid
<1>10. SettledFiles' /\ SettledHere'
  BY <1>1, <1>2, <1>3, <1>4 DEF Accounted, Accounts, SettledFiles, SettledHere, Charged, KeyOf
<1> QED BY <1>6, <1>7, <1>9, <1>10 DEF Accounted, Accounts

(* The first file of an experiment, the candidate, the decision and the    *)
(* publication have no cost.                                               *)
LEMMA WritesAccounted ==
    ASSUME Typed, History, Documented, Accounted,
           \/ RecordExperiment \/ ValidateCandidate \/ RecordValidCandidate \/ Decide
           \/ RecordPublication
    PROVE  Accounted'
<1>1. CASE Ends
  BY <1>1, EndsAccounted
<1>2. CASE ~Ends
  <2>1. PICK new :
          /\ WriteArtifact(new) /\ mem' = mem
          /\ \/ /\ new = [mine EXCEPT !.before = st.champion]
                /\ pc = "experiment" /\ pc' \in {"panel", "finalize"}
             \/ /\ new = [mine EXCEPT !.runtime = TRUE]
                /\ pc = "validation" /\ pc' = "built"
             \/ /\ new = [mine EXCEPT !.candidate = "invalid"] /\ mine.candidate = None
                /\ pc = "validation" /\ pc' = "decision"
             \/ /\ new = [mine EXCEPT !.candidate = "valid"]
                /\ pc = "built" /\ pc' = "candidate"
             \/ /\ \E d : new = [mine EXCEPT !.decision = d]
                /\ pc = "decision" /\ pc' = "decision"
             \/ /\ new = [mine EXCEPT !.publication = active]
                /\ pc = "publication" /\ pc' = "publication"
    <3>1. CASE RecordExperiment
      <4>1. PICK new : new = [mine EXCEPT !.before = st.champion]
        OBVIOUS
      <4>2. /\ WriteArtifact(new) /\ mem' = mem
            /\ pc = "experiment" /\ pc' \in {"panel", "finalize"}
        BY <1>2, <3>1, <4>1, BlockEnds DEF RecordExperiment, Goto
      <4> QED BY <4>1, <4>2
    <3>2. CASE ValidateCandidate
      BY <3>2 DEF ValidateCandidate, InPhase, Goto
    <3>3. CASE RecordValidCandidate
      BY <3>3 DEF RecordValidCandidate, Goto
    <3>4. CASE Decide
      BY <1>2, <3>4, BlockEnds DEF Decide, InPhase, Goto
    <3>5. CASE RecordPublication
      BY <3>5 DEF RecordPublication, InPhase, Goto
    <3> QED BY <3>1, <3>2, <3>3, <3>4, <3>5
  <2>2. active # None /\ mine \in ArtifactType
    BY <2>1, WroteMine DEF Typed, Located, Idle
  <2>3. /\ new.reused = mine.reused /\ new.accepted = mine.accepted
        /\ new.attempts = mine.attempts /\ new.optimizer = mine.optimizer
        /\ new.evaluation = mine.evaluation /\ new.receipt = mine.receipt
    BY <2>1, <2>2 DEF ArtifactType
  <2>4. /\ pc' = "decision" => \/ new.candidate = "invalid" /\ pc = "validation"
                               \/ pc = "decision"
        /\ new.candidate = mine.candidate \/ new.candidate = "valid" \/ mine.candidate = None
    BY <2>1, <2>2 DEF ArtifactType
  <2>5. Accounts'
    BY <2>1, <2>2, <2>3, <2>4, WriteAccounts
  <2>6. mine' = new /\ active' = active /\ UNCHANGED <<st, catalog, jobs>>
    BY <2>1, <2>2, WroteOne
  <2>7. new.candidate # "valid" => \A j \in jobs : j.exp = active => j.arm # "candidate"
    BY <2>2, <2>5, <2>6 DEF Accounts, JobsFiled
  <2>8. SettledHere'
    BY <2>1, <2>2, <2>4, <2>6, <2>7 DEF Accounted, SettledHere, Charged, KeyOf
  <2> QED BY <2>5, <2>8 DEF Accounted
<1> QED BY <1>1, <1>2

(* The receipt is written when every job of the experiment is charged.     *)
LEMMA AdvanceAccounted ==
    ASSUME Typed, History, Documented, Accounted, Advance
    PROVE  Accounted'
<1>1. PICK r, new : new = [mine EXCEPT !.receipt = r] /\ WriteArtifact(new)
                    /\ pc = "advance" /\ pc' = "finalize"
  BY DEF Advance, InPhase, Goto
<1>2. active # None /\ mine \in ArtifactType /\ mine.accepted # None /\ active \in Experiments
  BY <1>1, AfterPanelTyped DEF AfterPanel
<1>3. /\ new.reused = mine.reused /\ new.accepted = mine.accepted
      /\ new.attempts = mine.attempts /\ new.candidate = mine.candidate
      /\ new.optimizer = mine.optimizer /\ new.evaluation = mine.evaluation
  BY <1>1, <1>2 DEF ArtifactType
<1>4. mine' = new /\ active' = active /\ UNCHANGED <<st, catalog, jobs>>
  BY <1>1, <1>2, WroteOne
<1>5. \A o : Attempt(o)' = Attempt(o)
  BY <1>3, <1>4 DEF Attempt
<1>6. ASSUME NEW j \in jobs, j.exp = active PROVE Charged(j)
  <2>1. j.arm \in Arms
    BY DEF Typed, TypeOK, JobType
  <2> QED BY <1>1, <1>2, <1>6, <2>1 DEF Arms, Accounted, Accounts, SettledFiles, SettledHere
<1>7. JobsOnce' /\ JobsOpened' /\ ChargesPaid' /\ SettledBefore'
  BY <1>4 DEF Accounted, Accounts, JobsOnce, JobsOpened, ChargesPaid, SettledBefore, PaidFor,
     Charged, KeyOf
<1>8. JobsFiled'
  BY <1>3, <1>4, <1>5 DEF Accounted, Accounts, JobsFiled, Retained, TriedBefore
<1>9. FilesPaid'
  BY <1>3, <1>4, <1>5 DEF Accounted, Accounts, FilesPaid, PaidFor, KeyOf
<1>10. SettledFiles' /\ SettledHere'
  BY <1>1, <1>4, <1>6 DEF SettledFiles, SettledHere, Charged, KeyOf
<1> QED BY <1>7, <1>8, <1>9, <1>10 DEF Accounted, Accounts

(* An experiment that is over leaves no job uncharged.                     *)
LEMMA FinalizeAccounted ==
    ASSUME Typed, History, Documented, Accounted, Finalize
    PROVE  Accounted'
<1>1. CASE Ends
  BY <1>1, EndsAccounted
<1>2. CASE ~Ends
  <2>1. /\ active # None /\ active = st.next /\ active \in Experiments
        /\ mine.receipt # None /\ pc' = "loop" /\ UNCHANGED <<catalog, art, jobs>>
        /\ st'.active = None /\ st'.next = st.next + 1
        /\ st'.ledger = st.ledger
    BY <1>2, FinalizeEffect
  <2>2. active' = None /\ active \in Nat
    BY <2>1, Sets DEF active
  <2>3. ASSUME NEW j \in jobs PROVE j.exp < st.next \/ j.exp = active
    BY <2>1 DEF Accounted, Accounts, JobsOpened
  <2>4. ASSUME NEW j \in jobs PROVE j.exp < st.next + 1
    <3>1. j.exp \in Nat
      BY Sets DEF Typed, TypeOK, JobType
    <3> QED BY <2>1, <2>2, <2>3, <3>1
  <2>5. ASSUME NEW j \in jobs PROVE Charged(j)
    BY <2>1, <2>3 DEF Accounted, Accounts, SettledBefore, SettledFiles
  <2>6. JobsOnce' /\ ChargesPaid'
    BY <2>1 DEF Accounted, Accounts, JobsOnce, ChargesPaid, PaidFor, KeyOf
  <2>7. JobsOpened' /\ SettledBefore'
    BY <2>1, <2>4, <2>5 DEF JobsOpened, SettledBefore, Charged, KeyOf
  <2> QED BY <2>2, <2>6, <2>7 DEF Accounted, Accounts, JobsFiled, FilesPaid, SettledFiles, SettledHere
<1> QED BY <1>1, <1>2

(* A new experiment has no jobs and no files.                              *)
LEMMA OpenExperimentAccounted ==
    ASSUME Typed, History, Documented, Accounted, OpenExperiment
    PROVE  Accounted'
<1>1. pc = "loop" /\ pc' = "experiment" /\ UNCHANGED <<catalog, art, jobs>>
  BY DEF OpenExperiment, UpdateState, Goto
<1>2. CASE active # None
  <2>1. st' = st
    BY <1>2 DEF OpenExperiment, UpdateState
  <2>2. Accounts'
    BY <1>1, <2>1, StillAccounts DEF Accounted, Unwritten
  <2> QED BY <1>1, <2>2 DEF Accounted, SettledHere
<1>3. CASE active = None
  <2>1. /\ st' = [st EXCEPT !.active = st.next, !.phase = "panel-screening"]
        /\ st \in StateType /\ st.next <= MaxExperiments
    BY <1>3 DEF OpenExperiment, UpdateState, Typed, TypeOK
  <2>2. /\ st'.active = st.next /\ st'.next = st.next /\ st'.ledger = st.ledger
        /\ st.next \in Experiments
    BY <2>1, ConstantsAssumption DEF StateType, Experiments
  <2>3. mine' = NoArtifacts /\ active' = st.next
    BY <1>1, <1>3, <2>2 DEF History, Untouched, mine, active
  <2>4. \A j \in jobs : j.exp < st.next
    BY <1>3 DEF Accounted, Accounts, JobsOpened
  <2>5. \A j \in jobs : j.exp # st.next
    <3>1. st.next \in Nat
      BY <2>2, Sets
    <3> QED BY <2>4, <3>1
  <2>6. JobsOnce' /\ JobsOpened' /\ ChargesPaid' /\ SettledBefore'
    BY <1>1, <2>2, <2>4 DEF Accounted, Accounts, JobsOnce, JobsOpened, ChargesPaid, SettledBefore,
       PaidFor, Charged, KeyOf
  <2>7. FilesPaid'
    BY <2>3 DEF FilesPaid, Attempt, NoArtifacts
  <2> QED BY <1>1, <2>3, <2>5, <2>6, <2>7 DEF Accounted, Accounts, JobsFiled, SettledFiles, SettledHere
<1> QED BY <1>2, <1>3

(* A campaign just initialized has paid for nothing.                       *)
LEMMA InitAccounted == Init => Accounted
BY DEF Init, InitialState, Accounted, Accounts, JobsOnce, JobsOpened, JobsFiled, FilesPaid,
   ChargesPaid, SettledBefore, SettledFiles, SettledHere, active

(* Every step keeps receipts, files and ledger in agreement.               *)
LEMMA NextAccounted == Inductive /\ Documented /\ Accounted /\ [Next]_vars => Accounted'
<1> SUFFICES ASSUME Typed, History, Documented, Accounted, [Next]_vars PROVE Accounted'
  BY InductiveParts
<1>1. CASE \/ Crash \/ OperationFails \/ Begin \/ LoopStops
           \/ \E resume \in BOOLEAN : Start(resume)
  BY <1>1, OutsideEnds, OperationFailsEnds, EndsAccounted
<1>2. CASE \/ SetPhase \/ AtBound \/ UNCHANGED vars
           \/ \E mode \in {"after-phase", "cancel-active"} : RequestStop(mode)
           \/ PushChampion
  BY <1>2, RestStays, EndsAccounted, StaysAccounted
<1>3. CASE ReplayReuse \/ ReuseRetained
  BY <1>3, ReuseAccounted
<1>4. CASE ReplayAccepted \/ AccountAttempt \/ AccountOptimizer \/ AccountEvaluation
  BY <1>4, ChargesAccounted
<1>5. CASE ChampionArmRuns \/ OptimizerRuns \/ CandidateArmRuns
  BY <1>5, RunsAccounted
<1>6. CASE \/ EnterScreening \/ ReadAttemptChain \/ ChampionRuntime \/ ReplayAttempt
           \/ ReconcileHistory \/ ReconcileCatalog
           \/ PanelSaturated \/ PanelInfrastructureInvalid
  BY <1>6, ScreensAccounted
<1>7. CASE \/ PanelPrepared \/ OptimizerDone \/ ReplayCandidate \/ CandidateReady \/ Decided
           \/ Published
  BY <1>7, PhasesAccounted
<1>8. CASE RecordAttempt \/ PanelAccepted
  BY <1>8, RecordAttemptAccounted, PanelAcceptedAccounted
<1>9. CASE RecordOptimizer \/ RecordEvaluation
  BY <1>9, RecordArmAccounted
<1>10. CASE \/ RecordExperiment \/ ValidateCandidate \/ RecordValidCandidate \/ Decide
            \/ RecordPublication
  BY <1>10, WritesAccounted
<1>11. CASE Advance \/ Finalize \/ OpenExperiment
  BY <1>11, AdvanceAccounted, FinalizeAccounted, OpenExperimentAccounted
<1>12. CASE ScreensExhausted \/ ScreenOverBudget
  BY <1>12, BlockEnds, StopEnds, EndsAccounted DEF ScreensExhausted, ScreenOverBudget
<1> QED BY <1>1, <1>2, <1>3, <1>4, <1>5, <1>6, <1>7, <1>8, <1>9, <1>10, <1>11, <1>12
        DEF Next, Progress, Campaign, Panel, Candidate, Conclusion

(* A job is charged at most once and at its own cost.                      *)
LEMMA AccountedOnce ==
    ASSUME Typed, Accounted
    PROVE  EvidenceChargedOnce
<1>1. ASSUME NEW l \in st.ledger PROVE \E j \in jobs : l \in Evidence(j)
  BY DEF Accounted, Accounts, ChargesPaid, PaidFor, Evidence, EntriesFor, KeyOf
<1>2. ASSUME NEW j \in jobs, NEW l \in Evidence(j) PROVE l.cost = j.cost
  <2>1. PaidFor(j.exp, j.arm, KeyOf(j), j.cost)
    BY DEF PaidFor
  <2>2. l \in EntriesFor(st.ledger, j.exp, j.arm, KeyOf(j))
    BY DEF Evidence, KeyOf
  <2> QED BY <2>1, <2>2, KnownChargesAgree
<1>3. ASSUME NEW j \in jobs PROVE Cardinality(Evidence(j)) <= 1
  <2>1. ASSUME NEW l \in Evidence(j), NEW m \in Evidence(j) PROVE l = m
    <3>1. l.cost = m.cost
      BY <1>2
    <3>2. l.exp = m.exp /\ l.arm = m.arm /\ l.ordinal = m.ordinal /\ l \in st.ledger /\ m \in st.ledger
      BY DEF Evidence, EntriesFor
    <3>3. /\ l \in [exp : Experiments, arm : Arms, ordinal : Ordinals \cup {0}, cost : Costs]
          /\ m \in [exp : Experiments, arm : Arms, ordinal : Ordinals \cup {0}, cost : Costs]
      BY <3>2 DEF Typed, TypeOK, StateType
    <3> QED BY <3>1, <3>2, <3>3
  <2>2. CASE Evidence(j) = {}
    BY <2>2, FS_EmptySet
  <2>3. CASE Evidence(j) # {}
    <3>1. PICK l : l \in Evidence(j)
      BY <2>3
    <3>2. Evidence(j) = {l}
      BY <2>1, <3>1
    <3> QED BY <3>2, FS_Singleton
  <2> QED BY <2>2, <2>3
<1>4. ASSUME NEW j \in jobs, j.exp < st.next PROVE Evidence(j) # {}
  BY <1>4 DEF Accounted, Accounts, SettledBefore, Charged, Evidence, EntriesFor, KeyOf
<1> QED BY <1>1, <1>2, <1>3, <1>4 DEF EvidenceChargedOnce

(* Whatever the crashes and replays, the ledger holds at most one charge   *)
(* for each paid job, at the cost the adapter reported, and none for       *)
(* anything else (accountCost); an experiment that is over left no job     *)
(* uncharged.                                                              *)
THEOREM EachJobChargedOnce == Spec => []EvidenceChargedOnce
<1>1. Init => Inductive /\ Documented /\ Accounted
  BY InitInductive, InitDocumented, InitAccounted
<1>2. /\ Inductive /\ Documented /\ Accounted
      /\ [Next]_vars
      => (Inductive /\ Documented /\ Accounted)'
  BY NextInductive, NextDocumented, NextAccounted
<1>3. Inductive /\ Documented /\ Accounted => EvidenceChargedOnce
  BY InductiveParts, AccountedOnce
<1> QED BY <1>1, <1>2, <1>3, PTL DEF Spec

---------------------------------------------------------------------------
(* Where the history and the catalog are in the chain of attempts *)

(* The history is a before or after image of an attempt from k on. *)
HistoryAmong(k) == \E o \in Ordinals :
    /\ o >= k /\ Attempt(o) # None
    /\ st.history \in {Attempt(o).historyBefore, Attempt(o).historyAfter}
CatalogAmong(k) == \E o \in Ordinals :
    /\ o >= k /\ Attempt(o) # None
    /\ catalog \in {Attempt(o).catalogBefore, Attempt(o).catalogAfter}

(* Attempt k is in the history, and perhaps later ones too. *)
HistoryPast(k) == st.history = Attempt(k).historyAfter \/ HistoryAmong(k + 1)
CatalogPast(k) == catalog = Attempt(k).catalogAfter \/ CatalogAmong(k + 1)

(* An attempt starts where the one before it ended. *)
Meets(o) == /\ Attempt(o - 1).historyAfter = Attempt(o).historyBefore
            /\ Attempt(o - 1).catalogAfter = Attempt(o).catalogBefore
Meeting == active # None => \A o \in Ordinals : o > 1 /\ Attempt(o) # None => Meets(o)

Imaged == active # None /\ (\E o \in Ordinals : Attempt(o) # None) =>
    HistoryAmong(1) /\ CatalogAmong(1)

(* The selection a runner makes for its o-th screen, whichever runner. *)
SaturatedBefore(o) == {i \in Ordinals :
    i < o /\ Attempt(i) # None /\ Attempt(i).outcome = "saturated"}
PanelFor(o) ==
    [exp |-> active, ordinal |-> o,
     policy |-> IF o = 1 THEN st.history ELSE Attempt(o - 1).historyAfter,
     catalog |-> IF o = 1 THEN catalog ELSE Attempt(o - 1).catalogAfter,
     excluded |-> SaturatedBefore(o)]

(* A screen paid for and not filed yet is of the panel it will be filed as.*)
JobsSelected == active # None => \A j \in jobs :
    j.exp = active /\ j.arm = "panel" /\ Attempt(j.ordinal) = None => j.panel = PanelFor(j.ordinal)

(* How far the history and the catalog are at each place. *)
Placed ==
    /\ pc = "screen" /\ mem.ordinal > 1 =>
          HistoryPast(mem.ordinal - 1) /\ CatalogPast(mem.ordinal - 1)
    /\ pc \in {"account", "history"} => HistoryAmong(mem.ordinal)
    /\ pc \in {"account", "history", "catalog"} => CatalogAmong(mem.ordinal)
    /\ pc \in {"catalog", "assess"} => HistoryPast(mem.ordinal)
    /\ pc = "assess" => CatalogPast(mem.ordinal)

(* What the runner remembers of the attempts it has been through. *)
Fore == Idle \cup {"experiment", "panel", "chain", "runtime"}
Remembered ==
    /\ pc \in Fore => mem.excluded = {}
    /\ pc \in {"screen"} \cup Attempting => mem.excluded = SaturatedBefore(mem.ordinal)
    /\ Live => mem.policy = st.history
    /\ pc \in Attempting /\ mem.fresh =>
          /\ mem.policy = Attempt(mem.ordinal).historyBefore
          /\ \A i \in Ordinals : i > mem.ordinal => Attempt(i) = None
    /\ pc = "assess" /\ ~mem.fresh => mem.policy = st.history

Replays == Meeting /\ Imaged /\ JobsSelected
Replayed == Replays /\ Placed /\ Remembered

(* Neither an attempt nor a panel's job is added, and the history and the  *)
(* catalog are as they were.                                               *)
Unscreened ==
    /\ active' = active /\ catalog' = catalog /\ st'.history = st.history
    /\ \A o : Attempt(o)' = Attempt(o)

(* Such a step does not change what the attempts say.                      *)
LEMMA StillImages ==
    ASSUME Unscreened, NEW k
    PROVE  /\ HistoryAmong(k)' = HistoryAmong(k) /\ CatalogAmong(k)' = CatalogAmong(k)
           /\ HistoryPast(k)' = HistoryPast(k) /\ CatalogPast(k)' = CatalogPast(k)
           /\ SaturatedBefore(k)' = SaturatedBefore(k) /\ PanelFor(k)' = PanelFor(k)
<1>1. \A i : HistoryAmong(i)' = HistoryAmong(i) /\ CatalogAmong(i)' = CatalogAmong(i)
  BY DEF Unscreened, HistoryAmong, CatalogAmong
<1>2. SaturatedBefore(k)' = SaturatedBefore(k)
  BY DEF Unscreened, SaturatedBefore
<1> QED BY <1>1, <1>2 DEF Unscreened, HistoryPast, CatalogPast, PanelFor

(* What is said of the chain and of the panel's jobs stays true.           *)
LEMMA StillReplays ==
    ASSUME Replays, Unscreened, \A j \in jobs' : j \in jobs \/ j.arm # "panel"
    PROVE  Replays'
<1>1. Meeting'
  BY DEF Replays, Unscreened, Meeting, Meets
<1>2. Imaged'
  BY StillImages DEF Replays, Unscreened, Imaged
<1>3. JobsSelected'
  BY StillImages DEF Replays, Unscreened, JobsSelected
<1> QED BY <1>1, <1>2, <1>3 DEF Replays

(* The end of an invocation.                                               *)
LEMMA EndsReplayed ==
    ASSUME Replayed, Ends
    PROVE  Replayed'
<1>1. Unscreened
  BY DEF Ends, Still, Unscreened, Attempt, active, mine
<1>2. Replays'
  BY <1>1, StillReplays DEF Replayed, Ends, Still
<1>3. Placed' /\ Remembered'
  BY DEF Replayed, Ends, Placed, Remembered, Idle, Fore, Attempting, Live, Screening
<1> QED BY <1>2, <1>3 DEF Replayed

(* A runner that stays where it is.                                        *)
LEMMA StaysReplayed ==
    ASSUME Replayed, Unscreened, pc' = pc, mem' = mem,
           \A j \in jobs' : j \in jobs \/ j.arm # "panel"
    PROVE  Replayed'
<1>1. Replays'
  BY StillReplays DEF Replayed
<1>2. Placed'
  BY StillImages DEF Replayed, Placed
<1>3. Remembered'
  BY StillImages DEF Replayed, Remembered, Live, Screening, Unscreened
<1> QED BY <1>1, <1>2, <1>3 DEF Replayed

(* The places where the runner is not in the chain. *)
Outside == Places \ ({"screen"} \cup Attempting)

(* A runner that moves on to such a place.                                 *)
LEMMA MovesReplayed ==
    ASSUME Replayed, Unscreened, \A j \in jobs' : j \in jobs \/ j.arm # "panel",
           pc' \in Outside, pc' \in Fore => pc \in Fore /\ mem' = mem
    PROVE  Replayed'
<1>1. Replays'
  BY StillReplays DEF Replayed
<1>2. Placed' /\ Remembered'
  BY DEF Replayed, Placed, Remembered, Outside, Attempting, Live, Screening
<1> QED BY <1>1, <1>2 DEF Replayed

(* The files of attempts are as they were when another file is written.    *)
LEMMA WriteUnscreened ==
    ASSUME Typed, History, active # None, NEW new, WriteArtifact(new), new.attempts = mine.attempts
    PROVE  Unscreened /\ jobs' = jobs
<1>1. mine' = new /\ active' = active /\ UNCHANGED <<st, catalog, jobs>>
  BY WroteOne
<1> QED BY <1>1 DEF Unscreened, Attempt

(* A step that leaves the files, the history and the catalog alone.        *)
LEMMA UnwrittenUnscreened ==
    ASSUME Unwritten, catalog' = catalog, st'.history = st.history
    PROVE  Unscreened
BY DEF Unwritten, Unscreened, Attempt, active, mine

(* The panel taken over, and the first file of an experiment.              *)
LEMMA ForeReplayed ==
    ASSUME Typed, History, Documented, Replayed,
           RecordExperiment \/ ReplayReuse \/ ReuseRetained \/ EnterScreening \/ ReadAttemptChain
    PROVE  Replayed'
<1>1. CASE Ends
  BY <1>1, EndsReplayed
<1>2. CASE ~Ends
  <2>1. /\ pc \in {"experiment", "panel", "chain"} /\ mem' = mem
        /\ pc' \in {"panel", "finalize", "prepared", "chain", "runtime"}
    BY <1>2, BlockEnds DEF RecordExperiment, ReplayReuse, ReuseRetained, EnterScreening,
       ReadAttemptChain, Goto
  <2>2. active # None /\ mine \in ArtifactType
    BY <2>1 DEF Typed, TypeOK, StateType, Located, Idle, active, mine
  <2>3. Unscreened /\ jobs' = jobs
    <3>1. CASE RecordExperiment
      <4>1. WriteArtifact([mine EXCEPT !.before = st.champion])
        BY <1>2, <3>1, BlockEnds DEF RecordExperiment
      <4> QED BY <2>2, <4>1, WriteUnscreened DEF ArtifactType
    <3>2. CASE ReplayReuse
      <4>1. PICK a : WriteArtifact([mine EXCEPT !.accepted = a])
        BY <1>2, <3>2, BlockEnds DEF ReplayReuse
      <4> QED BY <2>2, <4>1, WriteUnscreened DEF ArtifactType
    <3>3. CASE ReuseRetained
      <4>1. PICK a : WriteArtifact([mine EXCEPT !.reused = a])
        BY <1>2, <3>3, BlockEnds DEF ReuseRetained
      <4> QED BY <2>2, <4>1, WriteUnscreened DEF ArtifactType
    <3>4. CASE EnterScreening
      BY <3>4, UnwrittenUnscreened DEF EnterScreening, UpdateState, Unwritten, Typed, TypeOK, StateType
    <3>5. CASE ReadAttemptChain
      BY <1>2, <3>5, BlockEnds, UnwrittenUnscreened DEF ReadAttemptChain, UpdateState, Unwritten
    <3> QED BY <3>1, <3>2, <3>3, <3>4, <3>5
  <2> QED BY <2>1, <2>3, MovesReplayed DEF Outside, Places, Fore, Attempting
<1> QED BY <1>1, <1>2

(* From the panel on, nothing of the screening is touched.                 *)
LEMMA ChargesReplayed ==
    ASSUME Typed, Replayed, ReplayAccepted \/ AccountOptimizer \/ AccountEvaluation
    PROVE  Replayed'
<1>1. CASE Ends
  BY <1>1, EndsReplayed
<1>2. CASE ~Ends
  <2>1. /\ Unwritten /\ UNCHANGED <<catalog, jobs>> /\ st'.history = st.history
        /\ pc' \in {"prepared", "optimized", "decision"}
    BY <1>2, AccountEffect, BlockEnds DEF ReplayAccepted, AccountOptimizer, AccountEvaluation
  <2> QED BY <2>1, UnwrittenUnscreened, MovesReplayed DEF Outside, Places, Fore, Idle, Attempting
<1> QED BY <1>1, <1>2

(* The runner goes from the panel to the decision and on.                  *)
LEMMA PhasesReplayed ==
    ASSUME Typed, Replayed,
           \/ PanelPrepared \/ OptimizerDone \/ ReplayCandidate \/ CandidateReady \/ Decided
           \/ Published
    PROVE  Replayed'
<1>1. CASE Ends
  BY <1>1, EndsReplayed
<1>2. CASE ~Ends
  <2>1. /\ UpdateState(st)
        /\ pc' \in {"optimizer", "validation", "decision", "candidate", "evaluation",
                    "publication", "advance"}
    <3>1. CASE PanelPrepared \/ OptimizerDone
      BY <1>2, <3>1, StopEnds DEF PanelPrepared, Boundary, OptimizerDone, Goto
    <3>2. CASE ReplayCandidate \/ CandidateReady
      BY <1>2, <3>2, StopEnds, BlockEnds DEF ReplayCandidate, CandidateReady, Boundary, Goto
    <3>3. CASE Decided \/ Published
      BY <1>2, <3>3, BlockEnds DEF Decided, Published, Goto
    <3> QED BY <3>1, <3>2, <3>3
  <2>2. Unscreened /\ jobs' = jobs
    BY <2>1, UnwrittenUnscreened DEF UpdateState, Unwritten
  <2> QED BY <2>1, <2>2, MovesReplayed DEF Outside, Places, Fore, Idle, Attempting
<1> QED BY <1>1, <1>2

(* The files from the accepted panel on to the receipt.                    *)
LEMMA WritesReplayed ==
    ASSUME Typed, History, Documented, Replayed,
           \/ PanelAccepted \/ RecordOptimizer \/ ValidateCandidate \/ RecordValidCandidate
           \/ RecordEvaluation \/ Decide \/ RecordPublication \/ Advance
    PROVE  Replayed'
<1>1. CASE Ends
  BY <1>1, EndsReplayed
<1>2. CASE ~Ends
  <2>1. /\ pc \notin Idle \cup {"experiment", "finalize"}
        /\ pc' \in {"prepared", "optimizer", "built", "candidate", "evaluation", "decision",
                    "publication", "finalize"}
    BY <1>2, BlockEnds DEF PanelAccepted, RecordOptimizer, ValidateCandidate, RecordValidCandidate,
       RecordEvaluation, Decide, RecordPublication, Advance, InPhase, Goto, Idle
  <2>2. active # None /\ mine \in ArtifactType
    BY <2>1, NoReceiptYet
  <2>3. \E new : WriteArtifact(new) /\ new.attempts = mine.attempts
    <3>1. CASE PanelAccepted
      <4>1. PICK a : WriteArtifact([mine EXCEPT !.accepted = a])
        BY <3>1 DEF PanelAccepted
      <4> QED BY <2>2, <4>1 DEF ArtifactType
    <3>2. CASE RecordOptimizer
      <4>1. PICK a : WriteArtifact([mine EXCEPT !.optimizer = a])
        BY <3>2 DEF RecordOptimizer
      <4> QED BY <2>2, <4>1 DEF ArtifactType
    <3>3. CASE ValidateCandidate
      <4>1. PICK new : /\ WriteArtifact(new)
                       /\ new = [mine EXCEPT !.runtime = TRUE]
                          \/ new = [mine EXCEPT !.candidate = "invalid"]
        BY <3>3 DEF ValidateCandidate
      <4> QED BY <2>2, <4>1 DEF ArtifactType
    <3>4. CASE RecordValidCandidate
      <4>1. WriteArtifact([mine EXCEPT !.candidate = "valid"])
        BY <3>4 DEF RecordValidCandidate
      <4> QED BY <2>2, <4>1 DEF ArtifactType
    <3>5. CASE RecordEvaluation
      <4>1. PICK a : WriteArtifact([mine EXCEPT !.evaluation = a])
        BY <3>5 DEF RecordEvaluation
      <4> QED BY <2>2, <4>1 DEF ArtifactType
    <3>6. CASE Decide
      <4>1. PICK a : WriteArtifact([mine EXCEPT !.decision = a])
        BY <1>2, <3>6, BlockEnds DEF Decide
      <4> QED BY <2>2, <4>1 DEF ArtifactType
    <3>7. CASE RecordPublication
      <4>1. WriteArtifact([mine EXCEPT !.publication = active])
        BY <3>7 DEF RecordPublication
      <4> QED BY <2>2, <4>1 DEF ArtifactType
    <3>8. CASE Advance
      <4>1. PICK a : WriteArtifact([mine EXCEPT !.receipt = a])
        BY <3>8 DEF Advance
      <4> QED BY <2>2, <4>1 DEF ArtifactType
    <3> QED BY <3>1, <3>2, <3>3, <3>4, <3>5, <3>6, <3>7, <3>8
  <2>4. Unscreened /\ jobs' = jobs
    BY <2>2, <2>3, WriteUnscreened
  <2> QED BY <2>1, <2>4, MovesReplayed DEF Outside, Places, Fore, Idle, Attempting
<1> QED BY <1>1, <1>2

(* An experiment begins, or is over.                                       *)
LEMMA TurnsReplayed ==
    ASSUME Typed, History, Documented, Accounted, Replayed, OpenExperiment \/ Finalize
    PROVE  Replayed'
<1>1. CASE Ends
  BY <1>1, EndsReplayed
<1>2. CASE OpenExperiment /\ active # None
  <2>1. st' = st /\ UNCHANGED <<catalog, art, jobs>> /\ mem' = mem /\ pc = "loop" /\ pc' = "experiment"
    BY <1>2 DEF OpenExperiment, UpdateState, Goto
  <2>2. Unscreened
    BY <2>1 DEF Unscreened, Attempt, active, mine
  <2> QED BY <2>1, <2>2, MovesReplayed DEF Outside, Places, Fore, Idle, Attempting
<1>3. CASE OpenExperiment /\ active = None
  <2>1. /\ pc = "loop" /\ pc' = "experiment" /\ UNCHANGED <<catalog, art, jobs>> /\ mem' = mem
    BY <1>3 DEF OpenExperiment, UpdateState, Goto
  <2>2. /\ st' = [st EXCEPT !.active = st.next, !.phase = "panel-screening"]
        /\ st \in StateType /\ st.next <= MaxExperiments
    BY <1>3 DEF OpenExperiment, UpdateState, Typed, TypeOK
  <2>3. st'.active = st.next /\ st.next \in Experiments
    BY <2>2, ConstantsAssumption DEF StateType, Experiments
  <2>4. mine' = NoArtifacts /\ active' = st.next
    BY <1>3, <2>1, <2>3 DEF History, Untouched, mine, active
  <2>5. \A o \in Ordinals : Attempt(o)' = None
    BY <2>4 DEF Attempt, NoArtifacts
  <2>6. \A j \in jobs : j.exp # st.next
    <3>1. \A j \in jobs : j.exp < st.next
      BY <1>3 DEF Accounted, Accounts, JobsOpened
    <3>2. st.next \in Nat
      BY <2>3, Sets
    <3> QED BY <3>1, <3>2
  <2>7. Replays'
    BY <2>1, <2>4, <2>5, <2>6 DEF Replays, Meeting, Imaged, JobsSelected
  <2> QED BY <2>1, <2>7 DEF Replayed, Placed, Remembered, Fore, Idle, Attempting, Live, Screening
<1>4. CASE Finalize /\ ~Ends
  <2>1. pc' = "loop" /\ st'.active = None
    BY <1>4, FinalizeEffect
  <2>2. mem'.excluded = {}
    <3>1. PICK q : mem' = [NoMemory EXCEPT !.quota = q]
      BY <1>4, BlockEnds DEF Finalize
    <3> QED BY <3>1 DEF NoMemory
  <2> QED BY <2>1, <2>2 DEF Replayed, Replays, Meeting, Imaged, JobsSelected, active, Placed,
          Remembered, Fore, Idle, Attempting, Live, Screening
<1> QED BY <1>1, <1>2, <1>3, <1>4

---------------------------------------------------------------------------
(* Along the chain of attempts *)

(* A runner about to screen afresh has taken the whole chain in: its       *)
(* selection is the one any other runner would make here.                  *)
LEMMA LiveSelection ==
    ASSUME Typed, Documented, Replayed, Live
    PROVE  /\ Selection = PanelFor(mem.ordinal)
           /\ mem.ordinal > 1 => /\ st.history = Attempt(mem.ordinal - 1).historyAfter
                                 /\ catalog = Attempt(mem.ordinal - 1).catalogAfter
<1>1. PICK k : k = mem.ordinal
  OBVIOUS
<1>2. /\ k \in Ordinals /\ k \in Nat /\ pc = "screen"
      /\ \A o \in Ordinals : Attempt(o) # None => o < k
  BY <1>1, LiveIsLast, Sets DEF Live, Screening
<1>3. \A o \in Ordinals : o >= k => Attempt(o) = None
  <2> SUFFICES ASSUME NEW o \in Ordinals, o >= k PROVE Attempt(o) = None
    OBVIOUS
  <2>1. o \in Nat
    BY Sets
  <2> QED BY <1>2, <2>1
<1>4. (k - 1) + 1 = k
  BY <1>2
<1>5. ~HistoryAmong((k - 1) + 1) /\ ~CatalogAmong((k - 1) + 1)
  BY <1>3, <1>4 DEF HistoryAmong, CatalogAmong
<1>6. k > 1 => /\ st.history = Attempt(k - 1).historyAfter
               /\ catalog = Attempt(k - 1).catalogAfter
  BY <1>1, <1>2, <1>5 DEF Replayed, Placed, HistoryPast, CatalogPast
<1>7. mem.policy = st.history /\ mem.excluded = SaturatedBefore(k)
  BY <1>1, <1>2 DEF Replayed, Remembered
<1>8. k = 1 \/ k > 1
  BY <1>2, Sets
<1>9. /\ mem.policy = IF k = 1 THEN st.history ELSE Attempt(k - 1).historyAfter
      /\ catalog = IF k = 1 THEN catalog ELSE Attempt(k - 1).catalogAfter
  BY <1>6, <1>7, <1>8
<1>10. Selection = PanelFor(k)
  BY <1>1, <1>7, <1>9 DEF Selection, PanelFor
<1> QED BY <1>1, <1>6, <1>10

(* A screen is paid for on that selection.                                 *)
LEMMA RunsReplayed ==
    ASSUME Typed, Documented, Replayed, ChampionArmRuns \/ OptimizerRuns \/ CandidateArmRuns
    PROVE  Replayed'
<1>1. PICK x : /\ x = st
               /\ UNCHANGED <<st, catalog, art>> /\ pc' = pc /\ mem' = mem
  BY DEF ChampionArmRuns, OptimizerRuns, CandidateArmRuns, RunJob, Goto
<1>2. Unscreened
  BY <1>1 DEF Unscreened, Attempt, active, mine
<1>3. CASE OptimizerRuns
  <2>1. \A j \in jobs' : j \in jobs \/ j.arm # "panel"
    BY <1>3 DEF OptimizerRuns, RunJob
  <2> QED BY <1>1, <1>2, <2>1, StaysReplayed
<1>4. CASE CandidateArmRuns
  <2>1. \A j \in jobs' : j \in jobs \/ j.arm # "panel"
    BY <1>4 DEF CandidateArmRuns, RunJob
  <2> QED BY <1>1, <1>2, <2>1, StaysReplayed
<1>5. CASE ChampionArmRuns
  <2>1. PICK k : k = mem.ordinal
    OBVIOUS
  <2>2. Live /\ \A j \in jobs' : j \in jobs \/ (j.ordinal = k /\ j.panel = Selection)
    BY <1>5, <2>1 DEF ChampionArmRuns, RunJob
  <2>3. Selection = PanelFor(k)
    BY <2>1, <2>2, LiveSelection
  <2>4. ASSUME NEW j \in jobs', active # None, j.exp = active, j.arm = "panel",
               Attempt(j.ordinal) = None
        PROVE  j.panel = PanelFor(j.ordinal)
    BY <2>2, <2>3, <2>4 DEF Replayed, Replays, JobsSelected
  <2>5. JobsSelected'
    BY <1>2, <2>4, StillImages DEF JobsSelected, Unscreened
  <2>6. Meeting'
    BY <1>2 DEF Replayed, Replays, Unscreened, Meeting, Meets
  <2>7. Imaged'
    BY <1>2, StillImages DEF Replayed, Replays, Unscreened, Imaged
  <2>8. Placed'
    BY <1>1, <1>2, StillImages DEF Replayed, Placed
  <2>9. Remembered'
    BY <1>1, <1>2, StillImages DEF Replayed, Remembered, Live, Screening, Unscreened
  <2> QED BY <2>5, <2>6, <2>7, <2>8, <2>9 DEF Replayed, Replays
<1> QED BY <1>3, <1>4, <1>5

(* An attempt is only filed after all the ones before it.                  *)
LEMMA UnfiledIsNext ==
    ASSUME Typed, Accounted, active # None, NEW j \in jobs, j.exp = active, j.arm = "panel",
           NEW k \in Ordinals, TriedBefore(k), Attempt(k) = None, Attempt(j.ordinal) = None
    PROVE  j.ordinal = k
<1>1. j.ordinal \in Ordinals /\ j.ordinal \in Nat /\ k \in Nat
  BY PanelJobOrdinal, Sets
<1>2. TriedBefore(j.ordinal)
  BY DEF Accounted, Accounts, JobsFiled
<1>3. ~(j.ordinal < k) /\ ~(k < j.ordinal)
  BY <1>1, <1>2 DEF TriedBefore
<1> QED BY <1>1, <1>3

(* A fresh attempt starts from the history and the catalog on disk, where  *)
(* the attempt before it ended.                                            *)
LEMMA RecordAttemptReplayed ==
    ASSUME Typed, History, Documented, Accounted, Replayed, RecordAttempt
    PROVE  Replayed'
<1>1. CASE Ends
  BY <1>1, EndsReplayed
<1>2. CASE ~Ends
  <2>1. PICK j \in Job("panel", mem.ordinal) :
              /\ Live
              /\ pc = "screen" /\ pc' = "account"
              /\ active # None /\ active' = active
              /\ UNCHANGED <<st, catalog, jobs>>
              /\ mem'.ordinal = mem.ordinal /\ mem'.policy = mem.policy
              /\ mem'.excluded = mem.excluded /\ mem'.fresh = TRUE
              /\ Attempt(mem.ordinal)' = Attempted(j) /\ Attempted(j) # None
              /\ \A o \in Ordinals : o # mem.ordinal => Attempt(o)' = Attempt(o)
    BY <1>2, RecordAttemptEffect
  <2>2. PICK k : k = mem.ordinal
    OBVIOUS
  <2>3. /\ k \in Ordinals /\ k \in Nat /\ TriedBefore(k) /\ Attempt(k) = None
        /\ \A o \in Ordinals : Attempt(o) # None => o < k
    BY <2>1, <2>2, LiveIsLast, Sets DEF Live
  <2>4. /\ Attempt(k)' = Attempted(j) /\ Attempt(k)' # None
        /\ \A o \in Ordinals : o # k => Attempt(o)' = Attempt(o)
    <3>1. Attempt(k)' = Attempt(mem.ordinal)'
      BY <2>1, <2>2 DEF Attempt
    <3> QED BY <2>1, <2>2, <3>1
  <2>5. Attempt(k)'.historyBefore = st.history /\ Attempt(k)'.catalogBefore = catalog
    BY <2>4 DEF Attempted
  <2>6. k > 1 => st.history = Attempt(k - 1).historyAfter /\ catalog = Attempt(k - 1).catalogAfter
    BY <2>1, <2>2, LiveSelection
  <2>7. Meeting'
    <3> SUFFICES ASSUME NEW o \in Ordinals, o > 1, Attempt(o)' # None PROVE Meets(o)'
      BY DEF Meeting
    <3>1. o \in Nat /\ o - 1 \in Ordinals /\ o - 1 < o
      BY ConstantsAssumption DEF Ordinals
    <3>2. CASE o = k
      <4>1. Attempt(o - 1)' = Attempt(o - 1)
        BY <2>4, <3>1, <3>2
      <4> QED BY <2>5, <2>6, <3>2, <4>1 DEF Meets
    <3>3. CASE o # k
      <4>1. Attempt(o) # None /\ Attempt(o)' = Attempt(o) /\ o < k
        BY <2>3, <2>4, <3>3
      <4>2. Attempt(o - 1)' = Attempt(o - 1)
        <5>1. o - 1 # k
          BY <2>3, <3>1, <4>1
        <5> QED BY <2>4, <3>1, <5>1
      <4>3. Meets(o)
        BY <2>1, <4>1 DEF Replayed, Replays, Meeting
      <4> QED BY <4>1, <4>2, <4>3 DEF Meets
    <3> QED BY <3>2, <3>3
  <2>8. \A i : k >= i => HistoryAmong(i)' /\ CatalogAmong(i)'
    BY <2>1, <2>3, <2>4, <2>5 DEF HistoryAmong, CatalogAmong
  <2>9. k >= 1 /\ k >= k
    BY <2>3, Sets
  <2>10. JobsSelected'
    <3> SUFFICES ASSUME NEW i \in jobs, i.exp = active, i.arm = "panel", Attempt(i.ordinal)' = None
                 PROVE  FALSE
      BY <2>1 DEF JobsSelected
    <3>1. i.ordinal \in Ordinals
      BY <2>1, PanelJobOrdinal
    <3>2. i.ordinal # k
      BY <2>4
    <3>3. Attempt(i.ordinal) = None
      BY <2>4, <3>1, <3>2
    <3> QED BY <2>1, <2>3, <3>2, <3>3, UnfiledIsNext
  <2>11. Placed'
    BY <2>1, <2>2, <2>8, <2>9 DEF Placed
  <2>12. SaturatedBefore(k)' = SaturatedBefore(k)
    <3>1. \A i \in Ordinals : i < k => Attempt(i)' = Attempt(i)
      BY <2>3, <2>4, Sets
    <3> QED BY <3>1 DEF SaturatedBefore
  <2>13. mem.excluded = SaturatedBefore(k) /\ mem.policy = st.history
    BY <2>1, <2>2 DEF Replayed, Remembered
  <2>14. \A i \in Ordinals : i > k => Attempt(i)' = None
    <3> SUFFICES ASSUME NEW i \in Ordinals, i > k PROVE Attempt(i)' = None
      OBVIOUS
    <3>1. i \in Nat
      BY Sets
    <3> QED BY <2>3, <2>4, <3>1
  <2>15. Remembered'
    BY <2>1, <2>2, <2>5, <2>12, <2>13, <2>14 DEF Remembered, Fore, Idle, Attempting, Live, Screening
  <2>16. Imaged'
    BY <2>8, <2>9 DEF Imaged
  <2> QED BY <2>7, <2>10, <2>11, <2>15, <2>16 DEF Replayed, Replays
<1> QED BY <1>1, <1>2

(* The screening starts with the first attempt and the history on disk.    *)
LEMMA ChampionRuntimeReplayed ==
    ASSUME Typed, Replayed, ChampionRuntime
    PROVE  Replayed'
<1>1. CASE Ends
  BY <1>1, EndsReplayed
<1>2. CASE ~Ends
  <2>1. /\ UpdateState(st) /\ pc = "runtime" /\ pc' = "screen"
        /\ mem' = [mem EXCEPT !.ordinal = 1, !.policy = st.history]
    BY <1>2, FinishEnds, StopEnds DEF ChampionRuntime, Failure, Cancelled
  <2>2. mem'.ordinal = 1 /\ mem'.policy = st.history /\ mem'.excluded = mem.excluded /\ st' = st
    BY <2>1 DEF UpdateState, Typed, TypeOK, MemoryType
  <2>3. Unscreened /\ jobs' = jobs
    BY <2>1, UnwrittenUnscreened DEF UpdateState, Unwritten
  <2>4. Replays'
    BY <2>3, StillReplays DEF Replayed
  <2>5. mem.excluded = {}
    BY <2>1 DEF Replayed, Remembered, Fore
  <2>6. \A i \in Ordinals : ~(i < 1)
    BY Sets
  <2>7. SaturatedBefore(mem.ordinal)' = {}
    BY <2>2, <2>6 DEF SaturatedBefore
  <2> QED BY <2>1, <2>2, <2>4, <2>5, <2>7 DEF Replayed, Placed, Remembered, Fore, Idle, Attempting
<1> QED BY <1>1, <1>2

(* An attempt made before a crash: the history is at its image or past it. *)
LEMMA ReplayAttemptReplayed ==
    ASSUME Typed, Documented, Replayed, ReplayAttempt
    PROVE  Replayed'
<1>1. PICK k : k = mem.ordinal
  OBVIOUS
<1>2. /\ UpdateState(st) /\ pc = "screen" /\ pc' = "account" /\ Attempt(k) # None
      /\ mem' = [mem EXCEPT !.fresh = FALSE] /\ mem \in MemoryType /\ mem.ordinal <= MaxPanelAttempts
      /\ mem.ordinal >= 1 /\ active # None
  BY <1>1 DEF ReplayAttempt, Screening, Typed, TypeOK, Located, Idle
<1>3. /\ mem'.ordinal = k /\ mem'.fresh = FALSE /\ mem'.excluded = mem.excluded
      /\ k \in Ordinals /\ k \in Nat
  BY <1>1, <1>2, ConstantsAssumption DEF MemoryType, Ordinals
<1>4. Unscreened /\ jobs' = jobs
  BY <1>2, UnwrittenUnscreened DEF UpdateState, Unwritten
<1>5. Replays'
  BY <1>4, StillReplays DEF Replayed
<1>6. HistoryAmong(k) /\ CatalogAmong(k)
  <2>1. CASE k = 1
    BY <1>2, <1>3, <2>1 DEF Replayed, Replays, Imaged
  <2>2. CASE k > 1
    <3>1. HistoryPast(k - 1) /\ CatalogPast(k - 1) /\ (k - 1) + 1 = k
      BY <1>1, <1>2, <1>3, <2>2 DEF Replayed, Placed
    <3>2. Meets(k)
      BY <1>2, <1>3, <2>2 DEF Replayed, Replays, Meeting
    <3>3. k >= k
      BY <1>3
    <3> QED BY <1>2, <1>3, <3>1, <3>2, <3>3 DEF HistoryPast, CatalogPast, Meets, HistoryAmong, CatalogAmong
  <2> QED BY <1>3, <2>1, <2>2, Sets
<1>7. HistoryAmong(k)' /\ CatalogAmong(k)' /\ SaturatedBefore(k)' = SaturatedBefore(k)
  BY <1>4, <1>6, StillImages
<1>8. Placed'
  BY <1>2, <1>3, <1>7 DEF Placed
<1>9. Remembered'
  BY <1>1, <1>2, <1>3, <1>7 DEF Replayed, Remembered, Fore, Idle, Attempting, Live, Screening
<1> QED BY <1>5, <1>8, <1>9 DEF Replayed

(* The charge of an attempt moves neither.                                 *)
LEMMA AccountAttemptReplayed ==
    ASSUME Typed, Replayed, AccountAttempt
    PROVE  Replayed'
<1>1. CASE Ends
  BY <1>1, EndsReplayed
<1>2. CASE ~Ends
  <2>1. /\ Unwritten /\ UNCHANGED <<catalog, jobs>> /\ st'.history = st.history
        /\ pc = "account" /\ pc' = "history" /\ mem' = mem
    BY <1>2, AccountEffect DEF AccountAttempt
  <2>2. Unscreened
    BY <2>1, UnwrittenUnscreened
  <2>3. Replays'
    BY <2>1, <2>2, StillReplays DEF Replayed
  <2>4. Placed'
    BY <2>1, <2>2, StillImages DEF Replayed, Placed
  <2>5. Remembered'
    BY <2>1, <2>2, StillImages DEF Replayed, Remembered, Fore, Idle, Attempting, Live, Screening, Unscreened
  <2> QED BY <2>3, <2>4, <2>5 DEF Replayed
<1> QED BY <1>1, <1>2

(* The first attempt is the first filed.                                   *)
LEMMA FirstFiled ==
    ASSUME Documented, pc \in Attempting, active # None, mem.ordinal \in Ordinals,
           Attempt(mem.ordinal) # None
    PROVE  Attempt(1) # None /\ 1 \in Ordinals
<1>1. 1 \in Ordinals /\ (mem.ordinal = 1 \/ 1 < mem.ordinal)
  BY ConstantsAssumption DEF Ordinals
<1> QED BY <1>1 DEF Documented, Tried, TriedBefore, Attempting

(* Only the history has moved, or only the catalog, and not before the     *)
(* first attempt.                                                          *)
LEMMA ReconciledJobs ==
    ASSUME Replays, active' = active, jobs' = jobs, \A o : Attempt(o)' = Attempt(o),
           Attempt(1) # None
    PROVE  Meeting' /\ JobsSelected' /\ \A k : SaturatedBefore(k)' = SaturatedBefore(k)
<1>1. Meeting'
  BY DEF Replays, Meeting, Meets
<1>2. \A k : SaturatedBefore(k)' = SaturatedBefore(k)
  BY DEF SaturatedBefore
<1>3. \A k : k # 1 => PanelFor(k)' = PanelFor(k)
  BY <1>2 DEF PanelFor
<1>4. JobsSelected'
  <2> SUFFICES ASSUME NEW j \in jobs, active # None, j.exp = active, j.arm = "panel",
                      Attempt(j.ordinal) = None
               PROVE  j.panel = PanelFor(j.ordinal)'
    BY DEF JobsSelected
  <2> QED BY <1>3 DEF Replays, JobsSelected
<1> QED BY <1>1, <1>2, <1>4

(* The history is brought to the attempt's after image, or is past it.     *)
LEMMA ReconcileHistoryReplayed ==
    ASSUME Typed, Documented, Replayed, ReconcileHistory
    PROVE  Replayed'
<1>1. CASE Ends
  BY <1>1, EndsReplayed
<1>2. CASE ~Ends
  <2>1. PICK k : k = mem.ordinal
    OBVIOUS
  <2>2. /\ k \in Ordinals /\ k \in Nat /\ Attempt(k) # None /\ active # None /\ pc = "history"
        /\ pc \in Attempting
    BY <2>1, Sets DEF ReconcileHistory, Typed, Located, Attempting, Idle
  <2>3. PICK new : new = IF st.history # Attempt(k).historyAfter /\ st.history = Attempt(k).historyBefore
                         THEN [st EXCEPT !.history = Attempt(k).historyAfter] ELSE st
    OBVIOUS
  <2>4. UpdateState(new) /\ pc' = "catalog" /\ mem' = mem
    BY <1>2, <2>1, <2>3, BlockEnds DEF ReconcileHistory, Goto
  <2>5. /\ new.active = st.active
        /\ \/ /\ st.history # Attempt(k).historyAfter /\ st.history = Attempt(k).historyBefore
              /\ new.history = Attempt(k).historyAfter
           \/ /\ st.history = Attempt(k).historyAfter \/ st.history # Attempt(k).historyBefore
              /\ new.history = st.history
    BY <2>3 DEF Typed, TypeOK, StateType
  <2>6. /\ st' = new /\ UNCHANGED <<catalog, art, jobs>> /\ active' = active
        /\ \A o : Attempt(o)' = Attempt(o)
    BY <2>4, <2>5 DEF UpdateState, Attempt, active, mine
  <2>7. \A i : /\ CatalogAmong(i)' = CatalogAmong(i)
               /\ st'.history = st.history => HistoryAmong(i)' = HistoryAmong(i)
    BY <2>6 DEF CatalogAmong, HistoryAmong
  <2>8. HistoryAmong(k) /\ CatalogAmong(k)
    BY <2>1, <2>2 DEF Replayed, Placed
  <2>9. HistoryPast(k)'
    <3>1. CASE new.history = Attempt(k).historyAfter
      BY <2>6, <3>1 DEF HistoryPast
    <3>2. CASE new.history # Attempt(k).historyAfter
      <4>1. st'.history = st.history /\ st.history \notin {Attempt(k).historyBefore, Attempt(k).historyAfter}
        BY <2>5, <2>6, <3>2
      <4>2. PICK o \in Ordinals : /\ o >= k /\ Attempt(o) # None
                                  /\ st.history \in {Attempt(o).historyBefore, Attempt(o).historyAfter}
        BY <2>8 DEF HistoryAmong
      <4>3. o # k /\ o \in Nat
        BY <4>1, <4>2, Sets
      <4>4. o >= k + 1
        BY <2>2, <4>2, <4>3
      <4>5. HistoryAmong(k + 1)
        BY <4>2, <4>4 DEF HistoryAmong
      <4> QED BY <2>7, <4>1, <4>5 DEF HistoryPast
    <3> QED BY <3>1, <3>2
  <2>10. HistoryAmong(1)' /\ CatalogAmong(1)'
    <3>1. HistoryAmong(1) /\ CatalogAmong(1)
      BY <2>2 DEF Replayed, Replays, Imaged
    <3>2. k >= 1
      BY <2>2, Sets
    <3> QED BY <2>2, <2>5, <2>6, <2>7, <3>1, <3>2 DEF HistoryAmong
  <2>11. Attempt(1) # None
    BY <2>1, <2>2, FirstFiled
  <2>12. Replays' /\ \A i : SaturatedBefore(i)' = SaturatedBefore(i)
    BY <2>6, <2>10, <2>11, ReconciledJobs DEF Replayed, Replays, Imaged
  <2>13. Placed'
    BY <2>1, <2>4, <2>7, <2>8, <2>9 DEF Placed
  <2>14. Remembered'
    BY <2>2, <2>4, <2>6, <2>12 DEF Replayed, Remembered, Fore, Idle, Attempting, Live, Screening
  <2> QED BY <2>12, <2>13, <2>14 DEF Replayed
<1> QED BY <1>1, <1>2

(* Then the catalog; a replaying runner rebuilds its policy.               *)
LEMMA ReconcileCatalogReplayed ==
    ASSUME Typed, Documented, Replayed, ReconcileCatalog
    PROVE  Replayed'
<1>1. CASE Ends
  BY <1>1, EndsReplayed
<1>2. CASE ~Ends
  <2>1. PICK k : k = mem.ordinal
    OBVIOUS
  <2>2. /\ k \in Ordinals /\ k \in Nat /\ Attempt(k) # None /\ active # None /\ pc = "catalog"
        /\ pc \in Attempting
    BY <2>1, Sets DEF ReconcileCatalog, Typed, Located, Attempting, Idle
  <2>3. /\ catalog' = IF catalog = Attempt(k).catalogBefore THEN Attempt(k).catalogAfter ELSE catalog
        /\ mem' = IF mem.fresh THEN mem ELSE [mem EXCEPT !.policy = st.history]
        /\ pc' = "assess" /\ UNCHANGED <<st, art, jobs>>
    BY <1>2, <2>1, BlockEnds DEF ReconcileCatalog
  <2>4. /\ mem'.ordinal = k /\ mem'.fresh = mem.fresh /\ mem'.excluded = mem.excluded
        /\ mem.fresh => mem'.policy = mem.policy
        /\ ~mem.fresh => mem'.policy = st.history
    BY <2>1, <2>3 DEF Typed, TypeOK, MemoryType
  <2>5. \/ catalog = Attempt(k).catalogBefore /\ catalog' = Attempt(k).catalogAfter
        \/ catalog # Attempt(k).catalogBefore /\ catalog' = catalog
    BY <2>3
  <2>6. active' = active /\ \A o : Attempt(o)' = Attempt(o)
    BY <2>3 DEF Attempt, active, mine
  <2>7. \A i : /\ HistoryAmong(i)' = HistoryAmong(i)
               /\ catalog' = catalog => CatalogAmong(i)' = CatalogAmong(i)
    BY <2>3, <2>6 DEF CatalogAmong, HistoryAmong
  <2>8. CatalogAmong(k) /\ HistoryPast(k)
    BY <2>1, <2>2 DEF Replayed, Placed
  <2>9. CatalogPast(k)'
    <3>1. CASE catalog' = Attempt(k).catalogAfter
      BY <2>6, <3>1 DEF CatalogPast
    <3>2. CASE catalog' # Attempt(k).catalogAfter
      <4>1. catalog' = catalog /\ catalog \notin {Attempt(k).catalogBefore, Attempt(k).catalogAfter}
        BY <2>5, <3>2
      <4>2. PICK o \in Ordinals : /\ o >= k /\ Attempt(o) # None
                                  /\ catalog \in {Attempt(o).catalogBefore, Attempt(o).catalogAfter}
        BY <2>8 DEF CatalogAmong
      <4>3. o # k /\ o \in Nat
        BY <4>1, <4>2, Sets
      <4>4. o >= k + 1
        BY <2>2, <4>2, <4>3
      <4>5. CatalogAmong(k + 1)
        BY <4>2, <4>4 DEF CatalogAmong
      <4> QED BY <2>7, <4>1, <4>5 DEF CatalogPast
    <3> QED BY <3>1, <3>2
  <2>10. HistoryAmong(1)' /\ CatalogAmong(1)'
    <3>1. HistoryAmong(1) /\ CatalogAmong(1)
      BY <2>2 DEF Replayed, Replays, Imaged
    <3>2. k >= 1
      BY <2>2, Sets
    <3> QED BY <2>2, <2>5, <2>6, <2>7, <3>1, <3>2 DEF CatalogAmong
  <2>11. Attempt(1) # None
    BY <2>1, <2>2, FirstFiled
  <2>12. Replays' /\ \A i : SaturatedBefore(i)' = SaturatedBefore(i)
    BY <2>3, <2>6, <2>10, <2>11, ReconciledJobs DEF Replayed, Replays, Imaged
  <2>13. HistoryPast(k)'
    BY <2>3, <2>6, <2>7, <2>8 DEF HistoryPast
  <2>14. Placed'
    BY <2>3, <2>4, <2>9, <2>13 DEF Placed
  <2>15. Remembered'
    BY <2>1, <2>2, <2>3, <2>4, <2>6, <2>12 DEF Replayed, Remembered, Fore, Idle, Attempting, Live, Screening
  <2> QED BY <2>12, <2>14, <2>15 DEF Replayed
<1> QED BY <1>1, <1>2

(* The next screen of the chain: what is excluded from it, and the policy  *)
(* it is chosen by, are what the attempts filed so far say.                *)
LEMMA NextScreenReplayed ==
    ASSUME Typed, Documented, Replayed, PanelSaturated \/ PanelInfrastructureInvalid
    PROVE  Replayed'
<1>1. CASE Ends
  BY <1>1, EndsReplayed
<1>2. CASE ~Ends
  <2>1. PICK k : k = mem.ordinal
    OBVIOUS
  <2>2. PICK a : a = Attempt(k)
    OBVIOUS
  <2>3. /\ pc = "assess" /\ pc' = "screen" /\ UpdateState(st)
        /\ mem'.ordinal = k + 1
        /\ \/ /\ a.outcome = "saturated" /\ mem'.excluded = mem.excluded \cup {k}
              /\ mem'.policy = Advanced(mem.policy, TRUE)
           \/ /\ a.outcome = "infrastructure-invalid" /\ mem'.excluded = mem.excluded
              /\ mem'.policy = mem.policy
    <3>1. mem \in MemoryType
      BY DEF Typed, TypeOK
    <3>2. CASE PanelSaturated
      <4>1. PICK ex : ex = mem.excluded \cup {k}
        OBVIOUS
      <4>2. PICK p : p = Advanced(mem.policy, TRUE)
        OBVIOUS
      <4>3. PICK new : new = [mem EXCEPT !.excluded = ex, !.policy = p]
        OBVIOUS
      <4>4. NextOrdinal(new) /\ pc = "assess" /\ a.outcome = "saturated"
        BY <2>1, <2>2, <3>2, <4>1, <4>2, <4>3 DEF PanelSaturated, Attempt
      <4>5. new.ordinal = k /\ new.excluded = ex /\ new.policy = p
            /\ new \in [ordinal : 0..(MaxPanelAttempts + 1), excluded : {ex}, infra : 0..MaxInfraRetries,
                        policy : {p}, fresh : BOOLEAN, quota : {0, 1, None}]
        BY <2>1, <3>1, <4>3 DEF MemoryType
      <4>6. mem'.ordinal = k + 1 /\ mem'.excluded = ex /\ mem'.policy = p
        BY <4>4, <4>5 DEF NextOrdinal
      <4> QED BY <4>1, <4>2, <4>4, <4>6 DEF NextOrdinal
    <3>3. CASE PanelInfrastructureInvalid
      <4>1. PICK new : new = [mem EXCEPT !.infra = @ + 1]
        OBVIOUS
      <4>2. NextOrdinal(new) /\ pc = "assess" /\ a.outcome = "infrastructure-invalid"
        BY <1>2, <2>1, <2>2, <3>3, <4>1, BlockEnds DEF PanelInfrastructureInvalid, Attempt
      <4>3. new.ordinal = k /\ new.excluded = mem.excluded /\ new.policy = mem.policy
            /\ new \in [ordinal : 0..(MaxPanelAttempts + 1), excluded : SUBSET Ordinals, infra : Nat,
                        policy : Histories, fresh : BOOLEAN, quota : {0, 1, None}]
        BY <2>1, <3>1, <4>1, ConstantsAssumption DEF MemoryType
      <4>4. mem'.ordinal = k + 1 /\ mem'.excluded = mem.excluded /\ mem'.policy = mem.policy
        BY <4>2, <4>3 DEF NextOrdinal
      <4> QED BY <4>2, <4>4 DEF NextOrdinal
    <3> QED BY <3>2, <3>3
  <2>4. /\ k \in Ordinals /\ k \in Nat /\ a # None /\ active # None /\ pc \in Attempting
    BY <2>1, <2>2, <2>3, Sets DEF Typed, Located, Attempting, Idle
  <2>5. Unscreened /\ jobs' = jobs /\ st' = st
    BY <2>3, UnwrittenUnscreened DEF UpdateState, Unwritten
  <2>6. Replays'
    BY <2>5, StillReplays DEF Replayed
  <2>7. HistoryPast(k) /\ CatalogPast(k) /\ mem.excluded = SaturatedBefore(k)
    BY <2>1, <2>3, <2>4 DEF Replayed, Placed, Remembered
  <2>8. (k + 1) - 1 = k /\ k >= 1
    BY <2>4, Sets
  <2>9. HistoryPast(k)' /\ CatalogPast(k)'
    BY <2>5, <2>7, StillImages
  <2>10. Placed'
    BY <2>3, <2>8, <2>9 DEF Placed
  <2>11. mem'.excluded = SaturatedBefore(k + 1)
    <3>1. ASSUME NEW i \in Ordinals PROVE i < k + 1 <=> i < k \/ i = k
      <4>1. i \in Nat
        BY Sets
      <4> QED BY <2>4, <4>1
    <3>2. CASE a.outcome = "saturated"
      <4>1. mem'.excluded = SaturatedBefore(k) \cup {k}
        BY <2>3, <2>7, <3>2
      <4>2. SaturatedBefore(k + 1) = SaturatedBefore(k) \cup {k}
        BY <2>2, <2>4, <3>1, <3>2 DEF SaturatedBefore
      <4> QED BY <4>1, <4>2
    <3>3. CASE a.outcome # "saturated"
      <4>1. mem'.excluded = SaturatedBefore(k)
        BY <2>3, <2>7, <3>3
      <4>2. SaturatedBefore(k + 1) = SaturatedBefore(k)
        BY <2>2, <2>4, <3>1, <3>3 DEF SaturatedBefore
      <4> QED BY <4>1, <4>2
    <3> QED BY <3>2, <3>3
  <2>12. SaturatedBefore(k + 1)' = SaturatedBefore(k + 1)
    BY <2>5, StillImages
  <2>13. ASSUME Live' PROVE mem'.policy = st.history
    <3>1. Attempt(k + 1) = None
      <4>1. Attempt(k + 1)' = None
        BY <2>3, <2>13 DEF Live, Attempt
      <4> QED BY <2>5, <4>1 DEF Unscreened
    <3>2. CASE mem.fresh
      <4>1. /\ mem.policy = a.historyBefore
            /\ \A i \in Ordinals : i > k => Attempt(i) = None
        BY <2>1, <2>2, <2>4, <3>2 DEF Replayed, Remembered
      <4>2. ~HistoryAmong(k + 1)
        <5> SUFFICES ASSUME NEW o \in Ordinals, o >= k + 1, Attempt(o) # None PROVE FALSE
          BY DEF HistoryAmong
        <5>1. o \in Nat
          BY Sets
        <5> QED BY <2>4, <4>1, <5>1
      <4>3. st.history = a.historyAfter
        BY <2>2, <2>7, <4>2 DEF HistoryPast
      <4>4. a.historyAfter = HistoryAfter(a.historyBefore, a.outcome)
        BY <2>2, <2>4 DEF Documented, Documents, Chained, Link
      <4> QED BY <2>3, <3>2, <4>1, <4>3, <4>4 DEF Advanced, HistoryAfter
    <3>3. CASE ~mem.fresh
      <4>1. mem.policy = st.history
        BY <2>3, <3>3 DEF Replayed, Remembered
      <4> QED BY <2>3, <3>3, <4>1 DEF Advanced
    <3> QED BY <3>2, <3>3
  <2>14. SaturatedBefore(mem.ordinal)' = SaturatedBefore(k + 1)
    BY <2>3, <2>12 DEF SaturatedBefore
  <2>15. Remembered'
    BY <2>3, <2>5, <2>11, <2>13, <2>14 DEF Remembered, Fore, Idle, Attempting
  <2> QED BY <2>6, <2>10, <2>15 DEF Replayed
<1> QED BY <1>1, <1>2

(* A campaign just initialized has no attempts.                            *)
LEMMA InitReplayed == Init => Replayed
BY DEF Init, InitialState, NoMemory, Replayed, Replays, Meeting, Imaged, JobsSelected, Placed,
   Remembered, Fore, Idle, Attempting, Live, Screening, active

(* Every step keeps the history and the catalog in the chain.              *)
LEMMA NextReplayed == Inductive /\ Documented /\ Accounted /\ Replayed /\ [Next]_vars => Replayed'
<1> SUFFICES ASSUME Typed, History, Documented, Accounted, Replayed, [Next]_vars PROVE Replayed'
  BY InductiveParts
<1>1. CASE \/ Crash \/ OperationFails \/ Begin \/ LoopStops
           \/ \E resume \in BOOLEAN : Start(resume)
  BY <1>1, OutsideEnds, OperationFailsEnds, EndsReplayed
<1>2. CASE \/ SetPhase \/ AtBound \/ UNCHANGED vars
           \/ \E mode \in {"after-phase", "cancel-active"} : RequestStop(mode)
           \/ PushChampion
  <2>1. CASE Ends
    BY <2>1, EndsReplayed
  <2>2. CASE Stays
    <3>1. Unscreened
      BY <2>2 DEF Stays, Still, Unscreened, Attempt, active, mine
    <3> QED BY <2>2, <3>1, StaysReplayed DEF Stays, Still
  <2> QED BY <1>2, <2>1, <2>2, RestStays
<1>3. CASE \/ RecordExperiment \/ ReplayReuse \/ ReuseRetained \/ EnterScreening
           \/ ReadAttemptChain
  BY <1>3, ForeReplayed
<1>4. CASE ReplayAccepted \/ AccountOptimizer \/ AccountEvaluation
  BY <1>4, ChargesReplayed
<1>5. CASE ChampionArmRuns \/ OptimizerRuns \/ CandidateArmRuns
  BY <1>5, RunsReplayed
<1>6. CASE ChampionRuntime \/ ReplayAttempt \/ RecordAttempt \/ AccountAttempt
  BY <1>6, ChampionRuntimeReplayed, ReplayAttemptReplayed, RecordAttemptReplayed, AccountAttemptReplayed
<1>7. CASE \/ PanelPrepared \/ OptimizerDone \/ ReplayCandidate \/ CandidateReady \/ Decided
           \/ Published
  BY <1>7, PhasesReplayed
<1>8. CASE ReconcileHistory \/ ReconcileCatalog \/ PanelSaturated \/ PanelInfrastructureInvalid
  BY <1>8, ReconcileHistoryReplayed, ReconcileCatalogReplayed, NextScreenReplayed
<1>9. CASE \/ PanelAccepted \/ RecordOptimizer \/ ValidateCandidate \/ RecordValidCandidate
           \/ RecordEvaluation \/ Decide \/ RecordPublication \/ Advance
  BY <1>9, WritesReplayed
<1>10. CASE OpenExperiment \/ Finalize
  BY <1>10, TurnsReplayed
<1>11. CASE ScreensExhausted \/ ScreenOverBudget
  BY <1>11, BlockEnds, StopEnds, EndsReplayed DEF ScreensExhausted, ScreenOverBudget
<1> QED BY <1>1, <1>2, <1>3, <1>4, <1>5, <1>6, <1>7, <1>8, <1>9, <1>10, <1>11
        DEF Next, Progress, Campaign, Panel, Candidate, Conclusion

(* What a later runner finds on disk, and where in it the runner is, at    *)
(* every moment of every run with any crashes: three layers together.      *)
THEOREM ReplayInductive == Spec => [](Inductive /\ Documented /\ Accounted /\ Replayed)
<1>1. Init => Inductive /\ Documented /\ Accounted /\ Replayed
  BY InitInductive, InitDocumented, InitAccounted, InitReplayed
<1>2. /\ Inductive /\ Documented /\ Accounted /\ Replayed
      /\ [Next]_vars
      => (Inductive /\ Documented /\ Accounted /\ Replayed)'
  BY NextInductive, NextDocumented, NextAccounted, NextReplayed
<1> QED BY <1>1, <1>2, PTL DEF Spec

(* A screen paid for before a crash is selected again after it, so that    *)
(* its receipt, looked up by name alone, is of the same panel.             *)
THEOREM ScreensSelectedAgain == Spec => []SelectionReplayed
<1>1. Inductive /\ Documented /\ Accounted /\ Replayed => SelectionReplayed
  <2> SUFFICES ASSUME Typed, Documented, Accounted, Replayed, Live,
                      NEW j \in Job("panel", mem.ordinal)
               PROVE  j.panel = Selection
    BY InductiveParts DEF SelectionReplayed
  <2>1. active # None /\ j \in jobs /\ j.exp = active /\ j.arm = "panel" /\ j.ordinal = mem.ordinal
    BY SelectionTyped DEF Job
  <2>2. Attempt(j.ordinal) = None
    BY <2>1 DEF Live
  <2> QED BY <2>1, <2>2, LiveSelection DEF Replayed, Replays, JobsSelected
<1> QED BY <1>1, ReplayInductive, PTL

---------------------------------------------------------------------------
(* No replay check of the runner fails *)

(* An invocation that ends for another reason.                             *)
LEMMA FinishConsistent ==
    ASSUME Typed, NEW s, NEW r, r \notin Contradictions, Finish(s, r)
    PROVE  ReplayConsistent'
BY DEF Finish, UpdateState, ReplayConsistent, Typed, TypeOK, StateType

(* A stop contradicts nothing.                                             *)
LEMMA StopConsistent ==
    ASSUME Typed, NEW r, r \notin Contradictions, Stop(r)
    PROVE  ReplayConsistent'
BY FinishConsistent DEF Stop

(* Nor does a refused operation.                                           *)
LEMMA BlockConsistent ==
    ASSUME Typed, NEW r, r \notin Contradictions, Block(r)
    PROVE  ReplayConsistent'
BY FinishConsistent DEF Block

(* A failed or cancelled operation contradicts nothing.                    *)
LEMMA OperationFailsConsistent ==
    ASSUME Typed, OperationFails
    PROVE  ReplayConsistent'
<1>1. ASSUME NEW r, r \notin Contradictions, Failure(r) PROVE ReplayConsistent'
  BY <1>1, FinishConsistent DEF Failure
<1>2. CASE Cancelled
  BY <1>2, StopConsistent DEF Cancelled, Contradictions
<1> QED BY <1>1, <1>2 DEF OperationFails, ChampionArmFails, OptimizerFails, ValidationFails,
     CandidateArmFails, PublicationFails, Contradictions

(* What was charged before a crash is charged at the same cost after it.   *)
LEMMA ChargesConsistent ==
    ASSUME Typed, Accounted, ReplayConsistent, NEW arm, NEW o, NEW c, NEW there,
           AccountCost(arm, o, c, there), PaidFor(active, arm, o, c)
    PROVE  ReplayConsistent'
<1> DEFINE known == EntriesFor(st.ledger, active, arm, o)
<1>1. \A l \in known : l.cost = c
  BY KnownChargesAgree
<1>2. UpdateState(IF known # {} THEN st
                  ELSE [st EXCEPT !.ledger = @ \cup {LedgerEntry(active, arm, o, c)}])
  BY <1>1 DEF AccountCost
<1>3. st'.reason = st.reason
  <2> HIDE DEF known
  <2> QED BY <1>2 DEF UpdateState, Typed, TypeOK, StateType
<1> QED BY <1>3 DEF ReplayConsistent

(* The files of the active experiment agree when it is opened again, when  *)
(* a panel is taken over, and when its own panel is replayed.              *)
LEMMA ForeConsistent ==
    ASSUME Typed, History, Documented, Accounted, Replayed, ReplayConsistent,
           RecordExperiment \/ ReplayReuse \/ ReplayAccepted \/ ReuseRetained
    PROVE  ReplayConsistent'
<1>1. /\ active # None /\ active \in Experiments /\ mine \in ArtifactType
      /\ active = st.next /\ active \in Nat
  BY Sets DEF RecordExperiment, ReplayReuse, ReplayAccepted, ReuseRetained, Typed, TypeOK, StateType,
     Located, Idle, active, mine, History, Counted
<1>2. ASSUME NEW new, WriteArtifact(new) PROVE ReplayConsistent'
  BY <1>2 DEF WriteArtifact, ReplayConsistent
<1>3. CASE RecordExperiment
  <2>1. ~(mine.receipt # None /\ mine.accepted = None)
    BY <1>1 DEF Documented, ReceiptFiled
  <2>2. CASE Block("unexpected-runner-failure")
    BY <2>2, BlockConsistent DEF Contradictions
  <2> QED BY <1>2, <1>3, <2>1, <2>2 DEF RecordExperiment
<1>4. CASE ReplayReuse
  <2>1. mine.accepted \in {None, art[mine.reused.source].accepted}
    BY <1>1, <1>4 DEF ReplayReuse, Documented, Documents, ReuseFiled
  <2>2. CASE Block("retained-panel-reuse-invalid")
    BY <2>2, BlockConsistent DEF Contradictions
  <2> QED BY <1>2, <1>4, <2>1, <2>2 DEF ReplayReuse
<1>5. CASE ReplayAccepted
  <2>1. PICK o \in Ordinals : Attempt(o) # None /\ mine.accepted = AcceptedFrom(Attempt(o))
    BY <1>1, <1>5 DEF ReplayAccepted, Documented, Documents, AcceptanceFiled
  <2>2. mine.accepted.panel.exp = active
    BY <1>1, <2>1 DEF AcceptedFrom, Documented, Documents, Chained, Link
  <2>3. AccountCost("panel", mine.accepted.panel.ordinal, mine.accepted.cost, "prepared")
    BY <1>5, <2>2 DEF ReplayAccepted
  <2>4. PaidFor(active, "panel", mine.accepted.panel.ordinal, mine.accepted.cost)
    BY <1>5, <2>2, AccountsPaid
  <2> QED BY <2>3, <2>4, ChargesConsistent
<1>6. CASE ReuseRetained
  <2>1. st.next >= 2 /\ art[st.next - 1].accepted # None
    BY <1>6 DEF ReuseRetained, Retained, Documented, Documents, RetainedFiled
  <2>2. active - 1 >= 1 /\ art[active - 1].accepted # None
    BY <1>1, <2>1
  <2>3. ~(active - 1 < 1)
    BY <1>1, <2>2
  <2>4. CASE Block("retained-panel-reuse-invalid")
    BY <2>4, BlockConsistent DEF Contradictions
  <2> QED BY <1>2, <1>6, <2>2, <2>3, <2>4 DEF ReuseRetained
<1> QED BY <1>3, <1>4, <1>5, <1>6

(* The chain read back has no gap and is valid: preparePanel's checks.     *)
LEMMA ChainConsistent ==
    ASSUME Typed, Documented, Replayed, ReplayConsistent, ReadAttemptChain
    PROVE  ReplayConsistent'
<1>1. active # None /\ \A o \in Ordinals : Attempt(o) # None => Link(o)
  BY DEF ReadAttemptChain, Typed, Located, Idle, Documented, Documents, Chained
<1>2. ASSUME NEW o \in Ordinals, o > 1, Attempt(o) # None
      PROVE  Attempt(o - 1) # None /\ Attempt(o - 1).outcome # "accepted" /\ Meets(o)
  <2>1. o - 1 \in Ordinals /\ o - 1 < o
    BY <1>2, ConstantsAssumption DEF Ordinals
  <2> QED BY <1>1, <1>2, <2>1 DEF Link, TriedBefore, Replayed, Replays, Meeting
<1>3. ~ChainHasGap
  BY <1>2 DEF ChainHasGap
<1>4. ChainValid
  BY <1>1, <1>2 DEF ChainValid, Link, Meets
<1> QED BY <1>3, <1>4 DEF ReadAttemptChain, UpdateState, ReplayConsistent

(* The history and the catalog are never at an image out of the chain.     *)
LEMMA ReconcileConsistent ==
    ASSUME Typed, Replayed, ReplayConsistent, ReconcileHistory \/ ReconcileCatalog
    PROVE  ReplayConsistent'
<1>1. PICK k : k = mem.ordinal
  OBVIOUS
<1>2. k \in Ordinals /\ k \in Nat
  BY <1>1, Sets DEF ReconcileHistory, ReconcileCatalog, Typed, Located, Attempting
<1>3. \A o \in Ordinals : o >= k /\ o # k /\ Attempt(o) # None => Attempt(o) \in Later(k)
  <2> SUFFICES ASSUME NEW o \in Ordinals, o >= k, o # k, Attempt(o) # None
               PROVE  Attempt(o) \in Later(k)
    OBVIOUS
  <2>1. o > k
    BY <1>2, Sets
  <2> QED BY <2>1 DEF Later, Attempt
<1>4. CASE ReconcileHistory
  <2>1. PICK o \in Ordinals : /\ o >= k /\ Attempt(o) # None
                              /\ st.history \in {Attempt(o).historyBefore, Attempt(o).historyAfter}
    BY <1>1, <1>4 DEF ReconcileHistory, Replayed, Placed, HistoryAmong
  <2>2. \/ st.history \in {Attempt(k).historyAfter, Attempt(k).historyBefore}
        \/ \E l \in Later(k) : st.history \in {l.historyBefore, l.historyAfter}
    BY <1>3, <2>1
  <2>3. PICK new : /\ UpdateState(new)
                   /\ new = st \/ new = [st EXCEPT !.history = Attempt(k).historyAfter]
    BY <1>1, <1>4, <2>2 DEF ReconcileHistory
  <2> QED BY <2>3 DEF UpdateState, ReplayConsistent, Typed, TypeOK, StateType
<1>5. CASE ReconcileCatalog
  <2>1. PICK o \in Ordinals : /\ o >= k /\ Attempt(o) # None
                              /\ catalog \in {Attempt(o).catalogBefore, Attempt(o).catalogAfter}
    BY <1>1, <1>5 DEF ReconcileCatalog, Replayed, Placed, CatalogAmong
  <2>2. \/ catalog \in {Attempt(k).catalogAfter, Attempt(k).catalogBefore}
        \/ \E l \in Later(k) : catalog \in {l.catalogBefore, l.catalogAfter}
    BY <1>3, <2>1
  <2> QED BY <1>1, <1>5, <2>2 DEF ReconcileCatalog, ReplayConsistent
<1> QED BY <1>4, <1>5

(* The receipt read back is the one that was written.                      *)
LEMMA FinalizeConsistent ==
    ASSUME Typed, History, Documented, ReplayConsistent, Finalize
    PROVE  ReplayConsistent'
<1>1. active # None /\ active = st.next /\ mine.receipt # None
  BY DEF Finalize, Typed, Located, Idle, History, Counted
<1>2. PICK r : r = mine.receipt
  OBVIOUS
<1>3. /\ r.before = st.champion /\ r.panel = mine.accepted.panel /\ r.charged = LedgerOf(active)
      /\ r.publication = IF r.decision = "promote" THEN r.after ELSE None
      /\ r.decision # "promote" => r.after = st.champion
  BY <1>1, <1>2 DEF Documented, ReceiptFiled, History, Agreeing
<1>4. ReceiptValid(mine.receipt)
  BY <1>1, <1>2, <1>3 DEF ReceiptValid
<1>5. st'.reason = st.reason
  <2>1. /\ UpdateState([st EXCEPT !.status = "running", !.champion = r.after, !.next = @ + 1,
                                  !.active = None, !.phase = None,
                                  !.retained = IF r.decision = "promote" THEN None
                                               ELSE [panel |-> r.panel, revision |-> st.champion],
                                  !.completed = @ + 1,
                                  !.promotions = @ + (IF r.decision = "promote" THEN 1 ELSE 0)])
    BY <1>2, <1>4 DEF Finalize
  <2> QED BY <2>1 DEF UpdateState, Typed, TypeOK, StateType
<1> QED BY <1>5 DEF ReplayConsistent

(* The runner's other steps: an invocation begins or ends, the screening   *)
(* goes on or is given up.                                                 *)
LEMMA ScreensConsistent ==
    ASSUME Typed, ReplayConsistent,
           \/ Crash \/ Begin \/ LoopStops \/ \E resume \in BOOLEAN : Start(resume)
           \/ EnterScreening \/ ChampionRuntime \/ ReplayAttempt
           \/ PanelSaturated \/ PanelInfrastructureInvalid \/ ScreensExhausted \/ ScreenOverBudget
    PROVE  ReplayConsistent'
<1>1. CASE Crash \/ ReplayAttempt \/ PanelSaturated \/ \E resume \in BOOLEAN : Start(resume)
  BY <1>1 DEF Crash, disk, ReplayAttempt, PanelSaturated, NextOrdinal, Start, UpdateState,
     ReplayConsistent
<1>2. CASE Begin
  <2>1. st'.reason = None
    BY <1>2 DEF Begin, UpdateState, Typed, TypeOK, StateType
  <2> QED BY <2>1, ArtifactsAssumption DEF ReplayConsistent, Reasons
<1>3. CASE LoopStops
  BY <1>3, StopConsistent DEF LoopStops, LoopStopReason, Contradictions
<1>4. CASE EnterScreening
  BY <1>4 DEF EnterScreening, UpdateState, ReplayConsistent, Typed, TypeOK, StateType
<1>5. CASE ChampionRuntime
  <2>1. CASE Failure("unexpected-runner-failure")
    BY <2>1, FinishConsistent DEF Failure, Contradictions
  <2>2. CASE Cancelled
    BY <2>2, StopConsistent DEF Cancelled, Contradictions
  <2> QED BY <1>5, <2>1, <2>2 DEF ChampionRuntime, UpdateState, ReplayConsistent
<1>6. CASE PanelInfrastructureInvalid
  <2>1. CASE Block("champion-panel-infrastructure-circuit-open")
    BY <2>1, BlockConsistent DEF Contradictions
  <2> QED BY <1>6, <2>1 DEF PanelInfrastructureInvalid, NextOrdinal, UpdateState, ReplayConsistent
<1>7. CASE ScreensExhausted
  BY <1>7, BlockConsistent DEF ScreensExhausted, Contradictions
<1>8. CASE ScreenOverBudget
  BY <1>8, StopConsistent DEF ScreenOverBudget, Contradictions
<1> QED BY <1>1, <1>2, <1>3, <1>4, <1>5, <1>6, <1>7, <1>8

(* A file is written, or a paid job runs: the state file is as it was.     *)
LEMMA WritesConsistent ==
    ASSUME Typed, ReplayConsistent,
           \/ ChampionArmRuns \/ OptimizerRuns \/ CandidateArmRuns \/ RecordAttempt \/ PanelAccepted
           \/ RecordOptimizer \/ ValidateCandidate \/ RecordValidCandidate \/ RecordEvaluation
           \/ Decide \/ RecordPublication \/ Advance
    PROVE  ReplayConsistent'
<1>1. CASE Block("unexpected-runner-failure")
  BY <1>1, BlockConsistent DEF Contradictions
<1>2. CASE ~Block("unexpected-runner-failure")
  <2>1. st' = st
    BY <1>2 DEF ChampionArmRuns, OptimizerRuns, CandidateArmRuns, RunJob, RecordAttempt, PanelAccepted,
       RecordOptimizer, ValidateCandidate, RecordValidCandidate, RecordEvaluation, Decide,
       RecordPublication, Advance, WriteArtifact
  <2> QED BY <2>1 DEF ReplayConsistent
<1> QED BY <1>1, <1>2

(* From the panel to the decision and on; a valid candidate has a runtime. *)
LEMMA PhasesConsistent ==
    ASSUME Typed, Documented, ReplayConsistent,
           \/ OpenExperiment \/ SetPhase \/ PanelPrepared \/ OptimizerDone \/ ReplayCandidate
           \/ CandidateReady \/ Decided \/ PushChampion \/ Published
    PROVE  ReplayConsistent'
<1>1. CASE OpenExperiment \/ SetPhase
  <2>1. st'.reason = st.reason
    BY <1>1 DEF OpenExperiment, SetPhase, UpdateState, Typed, TypeOK, StateType
  <2> QED BY <2>1 DEF ReplayConsistent
<1>2. ASSUME NEW here, NEW there, Boundary(here, there) PROVE ReplayConsistent'
  <2>1. CASE Stop("operator-requested") \/ Stop("campaign-cost-limit-reached")
    BY <2>1, StopConsistent DEF Contradictions
  <2> QED BY <1>2, <2>1 DEF Boundary, UpdateState, ReplayConsistent
<1>3. CASE PanelPrepared
  BY <1>2, <1>3 DEF PanelPrepared
<1>4. CASE OptimizerDone
  <2>1. CASE Stop("operator-requested")
    BY <2>1, StopConsistent DEF Contradictions
  <2> QED BY <1>4, <2>1 DEF OptimizerDone, UpdateState, ReplayConsistent
<1>5. CASE CandidateReady
  <2>1. mine.runtime
    BY <1>5 DEF CandidateReady, Boundary, Typed, Located, Idle, Documented, Documents, RuntimeFiled, Staged
  <2> QED BY <1>2, <1>5, <2>1 DEF CandidateReady
<1>6. CASE Decided \/ PushChampion
  <2>1. CASE Block("promotion-publication-disabled") \/ Block("promotion-publication-pending")
    BY <2>1, BlockConsistent DEF Contradictions
  <2> QED BY <1>6, <2>1 DEF Decided, PushChampion, UpdateState, ReplayConsistent
<1>7. CASE ReplayCandidate \/ Published
  BY <1>7 DEF ReplayCandidate, Published, UpdateState, ReplayConsistent
<1> QED BY <1>1, <1>3, <1>4, <1>5, <1>6, <1>7

(* Whatever the crashes, a later runner never finds the files it left      *)
(* behind in contradiction: each replay check of runner.ts (the attempt    *)
(* chain, the history and catalog images, the retained panel, the charges, *)
(* the runtime and the receipt) passes.                                    *)
THEOREM ReplayNeverContradicts == Spec => []ReplayConsistent
<1>1. Init => ReplayConsistent
  BY ArtifactsAssumption DEF Init, InitialState, ReplayConsistent, Reasons
<1>2. /\ Inductive /\ Documented /\ Accounted /\ Replayed /\ ReplayConsistent
      /\ [Next]_vars
      => ReplayConsistent'
  <2> SUFFICES ASSUME Typed, History, Documented, Accounted, Replayed, ReplayConsistent, [Next]_vars
               PROVE  ReplayConsistent'
    BY InductiveParts
  <2>1. CASE OperationFails
    BY <2>1, OperationFailsConsistent
  <2>2. CASE \/ Crash \/ Begin \/ LoopStops \/ \E resume \in BOOLEAN : Start(resume)
             \/ EnterScreening \/ ChampionRuntime \/ ReplayAttempt
             \/ PanelSaturated \/ PanelInfrastructureInvalid \/ ScreensExhausted \/ ScreenOverBudget
    BY <2>2, ScreensConsistent
  <2>3. CASE AtBound \/ UNCHANGED vars \/ \E mode \in {"after-phase", "cancel-active"} : RequestStop(mode)
    BY <2>3 DEF AtBound, RequestStop, vars, disk, ReplayConsistent
  <2>4. CASE RecordExperiment \/ ReplayReuse \/ ReplayAccepted \/ ReuseRetained
    BY <2>4, ForeConsistent
  <2>5. CASE ReadAttemptChain
    BY <2>5, ChainConsistent
  <2>6. CASE ReconcileHistory \/ ReconcileCatalog
    BY <2>6, ReconcileConsistent
  <2>7. CASE AccountAttempt
    BY <2>7, AccountsPaid, ChargesConsistent DEF AccountAttempt
  <2>8. CASE AccountOptimizer
    BY <2>8, AccountsPaid, ChargesConsistent DEF AccountOptimizer
  <2>9. CASE AccountEvaluation
    BY <2>9, AccountsPaid, ChargesConsistent DEF AccountEvaluation
  <2>10. CASE \/ ChampionArmRuns \/ OptimizerRuns \/ CandidateArmRuns \/ RecordAttempt \/ PanelAccepted
              \/ RecordOptimizer \/ ValidateCandidate \/ RecordValidCandidate \/ RecordEvaluation
              \/ Decide \/ RecordPublication \/ Advance
    BY <2>10, WritesConsistent
  <2>11. CASE \/ OpenExperiment \/ SetPhase \/ PanelPrepared \/ OptimizerDone \/ ReplayCandidate
              \/ CandidateReady \/ Decided \/ PushChampion \/ Published
    BY <2>11, PhasesConsistent
  <2>12. CASE Finalize
    BY <2>12, FinalizeConsistent
  <2> QED BY <2>1, <2>2, <2>3, <2>4, <2>5, <2>6, <2>7, <2>8, <2>9, <2>10, <2>11, <2>12
          DEF Next, Progress, Campaign, Panel, Candidate, Conclusion
<1> QED BY <1>1, <1>2, ReplayInductive, PTL DEF Spec

---------------------------------------------------------------------------
(* The screens the catalog and the history count *)

(* c lists the screens S, none twice, and h is the end of their outcomes.  *)
Lists(c, h, S, outcomes) ==
    /\ \A i, k \in DOMAIN c : i # k => c[i] # c[k]
    /\ {c[i] : i \in DOMAIN c} = S
    /\ h = Last([i \in DOMAIN c |-> outcomes[c[i]]])

Outcomes == [s \in Screen |-> OutcomeOf(s)]

(* A valid screen: one that counts. *)
Counts(s) == /\ art[s.exp].attempts[s.ordinal] # None
             /\ art[s.exp].attempts[s.ordinal].outcome # "infrastructure-invalid"
AllCounted == {s \in Screen : Counts(s)}
CountedTo(o) == {s \in Screen : Counts(s) /\ (s.exp = active => s.ordinal <= o)}

(* Each attempt found the screens before it counted, and leaves its own    *)
(* counted too.                                                            *)
ListedAttempts == active # None => \A o \in Ordinals : Attempt(o) # None =>
    /\ Lists(Attempt(o).catalogBefore, Attempt(o).historyBefore, CountedTo(o - 1), Outcomes)
    /\ Lists(Attempt(o).catalogAfter, Attempt(o).historyAfter, CountedTo(o), Outcomes)

(* Before the first attempt, and once there is a panel, all are counted.   *)
Whole == \/ active = None
         \/ \A o \in Ordinals : Attempt(o) = None
         \/ mine.accepted # None
ListedWhole == Whole => Lists(catalog, st.history, AllCounted, Outcomes)
Listed == ListedAttempts /\ ListedWhole

(* Keeping the end of a longer history is keeping the end of its end.      *)
LEMMA LastOfLast ==
    ASSUME NEW s \in Seq(BOOLEAN), NEW b \in BOOLEAN
    PROVE  Pushed(Last(s), b) = Last(Append(s, b))
<1>1. /\ Len(s) \in Nat /\ Window \in Nat \ {0}
      /\ Append(s, b) \in Seq(BOOLEAN) /\ Len(Append(s, b)) = Len(s) + 1
      /\ \A i \in 1..Len(s) : Append(s, b)[i] = s[i]
      /\ Append(s, b)[Len(s) + 1] = b
  BY ConstantsAssumption
<1>2. CASE Len(s) <= Window
  BY <1>1, <1>2 DEF Pushed, Last
<1>3. CASE Len(s) > Window
  <2> DEFINE t == SubSeq(s, Len(s) - Window + 1, Len(s))
             u == Append(t, b)
             a == Append(s, b)
  <2>1. /\ t \in Seq(BOOLEAN) /\ Len(t) = Window
        /\ \A i \in 1..Window : t[i] = s[Len(s) - Window + i]
    <3>1. /\ Len(s) - Window + 1 \in 1..(Len(s) + 1)
          /\ Len(s) \in (Len(s) - Window + 1 - 1)..Len(s)
          /\ Len(s) - (Len(s) - Window + 1) + 1 = Window
      BY <1>1, <1>3
    <3>2. /\ t \in Seq(BOOLEAN) /\ Len(t) = Len(s) - (Len(s) - Window + 1) + 1
          /\ \A i \in 1..(Len(s) - (Len(s) - Window + 1) + 1) :
                t[i] = s[Len(s) - Window + 1 + i - 1]
      BY <1>1, <3>1, SubSeqProperties
    <3>3. \A i \in 1..Window : Len(s) - Window + 1 + i - 1 = Len(s) - Window + i
      BY <1>1
    <3> QED BY <3>1, <3>2, <3>3
  <2> HIDE DEF t
  <2>2. /\ u \in Seq(BOOLEAN) /\ Len(u) = Window + 1
        /\ \A i \in 1..Window : u[i] = t[i]
        /\ u[Window + 1] = b
    BY <1>1, <2>1
  <2> HIDE DEF u
  <2> DEFINE v == SubSeq(u, 2, Window + 1)
             w == SubSeq(a, Len(s) + 1 - Window + 1, Len(s) + 1)
  <2>3. Pushed(Last(s), b) = v
    <3>1. Last(s) = t
      BY <1>3 DEF Last, t
    <3>2. Len(u) > Window /\ Len(u) - Window + 1 = 2
      BY <1>1, <2>2
    <3> QED BY <2>2, <3>1, <3>2 DEF Pushed, Last, u
  <2>4. Last(a) = w
    BY <1>1, <1>3 DEF Last
  <2>5. v \in Seq(BOOLEAN) /\ Len(v) = Window /\ \A i \in 1..Window : v[i] = u[i + 1]
    <3>1. /\ 2 \in 1..(Len(u) + 1) /\ Window + 1 \in (2 - 1)..Len(u)
          /\ (Window + 1) - 2 + 1 = Window
      BY <1>1, <2>2
    <3>2. /\ v \in Seq(BOOLEAN) /\ Len(v) = (Window + 1) - 2 + 1
          /\ \A i \in 1..((Window + 1) - 2 + 1) : v[i] = u[2 + i - 1]
      BY <2>2, <3>1, SubSeqProperties
    <3>3. \A i \in 1..Window : 2 + i - 1 = i + 1
      BY <1>1
    <3> QED BY <3>1, <3>2, <3>3
  <2>6. w \in Seq(BOOLEAN) /\ Len(w) = Window /\ \A i \in 1..Window : w[i] = a[Len(s) + 1 - Window + i]
    <3>1. /\ Len(s) + 1 - Window + 1 \in 1..(Len(a) + 1)
          /\ Len(s) + 1 \in (Len(s) + 1 - Window + 1 - 1)..Len(a)
          /\ (Len(s) + 1) - (Len(s) + 1 - Window + 1) + 1 = Window
      BY <1>1, <1>3
    <3>2. /\ w \in Seq(BOOLEAN)
          /\ Len(w) = (Len(s) + 1) - (Len(s) + 1 - Window + 1) + 1
          /\ \A i \in 1..((Len(s) + 1) - (Len(s) + 1 - Window + 1) + 1) :
                w[i] = a[Len(s) + 1 - Window + 1 + i - 1]
      BY <1>1, <3>1, SubSeqProperties
    <3>3. \A i \in 1..Window : Len(s) + 1 - Window + 1 + i - 1 = Len(s) + 1 - Window + i
      BY <1>1
    <3> QED BY <3>1, <3>2, <3>3
  <2> HIDE DEF v, w, a
  <2>7. ASSUME NEW i \in 1..Window PROVE v[i] = w[i]
    <3>1. CASE i = Window
      <4>1. Len(s) + 1 - Window + i = Len(s) + 1
        BY <1>1, <3>1
      <4> QED BY <1>1, <2>2, <2>5, <2>6, <3>1, <4>1 DEF a
    <3>2. CASE i # Window
      <4>1. /\ i \in 1..Window /\ i + 1 \in 1..Window
            /\ Len(s) - Window + (i + 1) = Len(s) + 1 - Window + i
            /\ Len(s) + 1 - Window + i \in 1..Len(s)
        BY <1>1, <1>3, <3>2
      <4>2. v[i] = s[Len(s) + 1 - Window + i]
        BY <2>1, <2>2, <2>5, <4>1
      <4>3. w[i] = s[Len(s) + 1 - Window + i]
        BY <1>1, <2>6, <4>1 DEF a
      <4> QED BY <4>2, <4>3
    <3> QED BY <3>1, <3>2
  <2>8. v = w
    BY <1>1, <2>5, <2>6, <2>7, SeqEqual
  <2> QED BY <2>3, <2>4, <2>8 DEF a
<1> QED BY <1>1, <1>2, <1>3

(* Outcomes of other screens do not matter.                                *)
LEMMA ListsAgree ==
    ASSUME NEW c, NEW h, NEW S, NEW f, NEW g, Lists(c, h, S, f), \A s \in S : f[s] = g[s]
    PROVE  Lists(c, h, S, g)
<1>1. \A i \in DOMAIN c : f[c[i]] = g[c[i]]
  BY DEF Lists
<1>2. [i \in DOMAIN c |-> f[c[i]]] = [i \in DOMAIN c |-> g[c[i]]]
  BY <1>1
<1> QED BY <1>2 DEF Lists

(* A screen not listed yet, appended, is listed, and its outcome pushed.   *)
LEMMA ListsAppend ==
    ASSUME NEW c \in Seq(Screen), NEW h, NEW S, NEW s \in Screen, s \notin S,
           NEW f \in [Screen -> BOOLEAN], Lists(c, h, S, f)
    PROVE  Lists(Append(c, s), Pushed(h, f[s]), S \cup {s}, f)
<1> DEFINE d == Append(c, s)
           r == [i \in DOMAIN c |-> f[c[i]]]
           q == [i \in DOMAIN d |-> f[d[i]]]
<1>1. /\ Len(c) \in Nat /\ DOMAIN c = 1..Len(c)
      /\ d \in Seq(Screen) /\ Len(d) = Len(c) + 1 /\ DOMAIN d = 1..(Len(c) + 1)
      /\ \A i \in 1..Len(c) : d[i] = c[i] /\ c[i] \in Screen
      /\ d[Len(c) + 1] = s
  OBVIOUS
<1> HIDE DEF d
<1>2. \A i \in 1..(Len(c) + 1) : i \in 1..Len(c) \/ i = Len(c) + 1
  BY <1>1
<1>3. ASSUME NEW i \in DOMAIN d, NEW k \in DOMAIN d, i # k PROVE d[i] # d[k]
  <2>1. \A j \in 1..Len(c) : d[j] \in S
    BY <1>1 DEF Lists
  <2> QED BY <1>1, <1>2, <1>3, <2>1 DEF Lists
<1>4. {d[i] : i \in DOMAIN d} = S \cup {s}
  <2>1. ASSUME NEW x \in S PROVE \E i \in DOMAIN d : x = d[i]
    <3>1. PICK i \in DOMAIN c : x = c[i]
      BY DEF Lists
    <3>2. i \in DOMAIN d
      BY <1>1
    <3> QED BY <1>1, <3>1, <3>2
  <2>2. \E i \in DOMAIN d : s = d[i]
    <3>1. Len(c) + 1 \in 1..(Len(c) + 1)
      BY <1>1
    <3> QED BY <1>1, <3>1
  <2>3. ASSUME NEW i \in DOMAIN d PROVE d[i] \in S \cup {s}
    BY <1>1, <1>2 DEF Lists
  <2> QED BY <2>1, <2>2, <2>3
<1>5. r \in Seq(BOOLEAN) /\ Len(r) = Len(c)
  BY <1>1
<1>6. q = Append(r, f[s])
  <2>1. /\ Append(r, f[s]) \in Seq(BOOLEAN) /\ Len(Append(r, f[s])) = Len(c) + 1
        /\ \A i \in 1..Len(c) : Append(r, f[s])[i] = r[i]
        /\ Append(r, f[s])[Len(c) + 1] = f[s]
    BY <1>5
  <2>2. q \in Seq(BOOLEAN) /\ Len(q) = Len(c) + 1
    BY <1>1
  <2>3. \A i \in 1..Len(c) : r[i] = f[c[i]] /\ q[i] = f[c[i]]
    BY <1>1
  <2>4. q[Len(c) + 1] = f[s]
    BY <1>1
  <2> HIDE DEF q, r
  <2>5. \A i \in 1..(Len(c) + 1) : q[i] = Append(r, f[s])[i]
    BY <1>2, <2>1, <2>3, <2>4
  <2> QED BY <2>1, <2>2, <2>5, SeqEqual
<1>7. Pushed(h, f[s]) = Last(q)
  <2>1. h = Last(r)
    BY DEF Lists
  <2> QED BY <1>5, <1>6, <2>1, LastOfLast
<1> QED BY <1>3, <1>4, <1>7 DEF Lists, d

---------------------------------------------------------------------------
(* Steps that add no screen *)

(* No attempt is filed, and the history and the catalog are as they were.  *)
Uncounted ==
    /\ active' = active /\ catalog' = catalog /\ st'.history = st.history
    /\ \A x \in Experiments : art'[x].attempts = art[x].attempts

(* What counts is read from the attempts alone.                            *)
LEMMA UncountedScreens ==
    ASSUME active' = active, \A x \in Experiments : art'[x].attempts = art[x].attempts
    PROVE  /\ Outcomes' = Outcomes /\ AllCounted' = AllCounted
           /\ \A o : CountedTo(o)' = CountedTo(o)
<1>1. \A s \in Screen : s.exp \in Experiments
  BY DEF Screen
<1>2. \A s \in Screen : (Counts(s)' <=> Counts(s)) /\ (OutcomeOf(s)' = OutcomeOf(s))
  BY <1>1 DEF Counts, OutcomeOf
<1>3. Outcomes' = Outcomes
  BY <1>2 DEF Outcomes
<1>4. AllCounted' = AllCounted /\ \A o : CountedTo(o)' = CountedTo(o)
  BY <1>2 DEF AllCounted, CountedTo
<1> QED BY <1>3, <1>4

(* Such a step keeps the lists, if it does not claim more of them.         *)
LEMMA UncountedListed ==
    ASSUME Typed, Listed, Uncounted, Whole' => Whole
    PROVE  Listed'
<1>1. /\ Outcomes' = Outcomes /\ AllCounted' = AllCounted
      /\ \A o : CountedTo(o)' = CountedTo(o)
  BY UncountedScreens DEF Uncounted
<1>2. ListedWhole'
  BY <1>1 DEF Listed, ListedWhole, Uncounted
<1>3. active # None => \A o : Attempt(o)' = Attempt(o)
  BY DEF Uncounted, Attempt, mine, active, Typed, TypeOK, StateType
<1>4. ListedAttempts'
  <2> SUFFICES ASSUME active # None, NEW o \in Ordinals, Attempt(o) # None
               PROVE  /\ Lists(Attempt(o).catalogBefore, Attempt(o).historyBefore,
                               CountedTo(o - 1), Outcomes)
                      /\ Lists(Attempt(o).catalogAfter, Attempt(o).historyAfter,
                               CountedTo(o), Outcomes)
    BY <1>1, <1>3 DEF ListedAttempts, Uncounted
  <2> QED BY DEF Listed, ListedAttempts
<1> QED BY <1>2, <1>4 DEF Listed

(* The files are as they were.                                             *)
LEMMA UnwrittenListed ==
    ASSUME Typed, Listed, art' = art, st'.active = st.active, catalog' = catalog,
           st'.history = st.history
    PROVE  Listed'
<1>1. Uncounted /\ (Whole' => Whole)
  BY DEF Uncounted, Whole, active, mine, Attempt
<1> QED BY <1>1, UncountedListed

(* A file that is no attempt is written.                                   *)
LEMMA WriteListed ==
    ASSUME Typed, History, Listed, active # None, NEW new, WriteArtifact(new),
           new.attempts = mine.attempts, new.accepted = mine.accepted \/ Whole
    PROVE  Listed'
<1>1. /\ mine' = new /\ active' = active /\ UNCHANGED <<st, catalog>>
      /\ active \in Experiments
      /\ \A x \in Experiments : x # active => art'[x] = art[x]
  BY WroteOne
<1>2. art'[active] = new /\ art[active] = mine
  BY <1>1 DEF mine, active
<1>3. Uncounted
  BY <1>1, <1>2 DEF Uncounted
<1>4. \A o : Attempt(o)' = Attempt(o)
  BY <1>1 DEF Attempt
<1>5. Whole' => Whole
  BY <1>1, <1>4 DEF Whole
<1> QED BY <1>3, <1>5, UncountedListed

(* The end of an invocation, and a runner that stays where it is.          *)
LEMMA StillListed == ASSUME Typed, Listed, Still PROVE Listed'
BY UnwrittenListed DEF Still

(* The charges, the jobs, and the runner's moves from place to place.      *)
LEMMA MovesListed ==
    ASSUME Typed, Listed,
           \/ ReplayAccepted \/ AccountAttempt \/ AccountOptimizer \/ AccountEvaluation
           \/ ChampionArmRuns \/ OptimizerRuns \/ CandidateArmRuns
           \/ EnterScreening \/ ReadAttemptChain \/ ChampionRuntime \/ ReplayAttempt
           \/ PanelSaturated \/ PanelInfrastructureInvalid
           \/ PanelPrepared \/ OptimizerDone \/ ReplayCandidate \/ CandidateReady \/ Decided
           \/ Published
    PROVE  Listed'
<1>1. CASE Ends
  BY <1>1, StillListed DEF Ends
<1>2. CASE ~Ends
  <2>1. CASE ReplayAccepted \/ AccountAttempt \/ AccountOptimizer \/ AccountEvaluation
    BY <1>2, <2>1, AccountEffect, BlockEnds, UnwrittenListed
    DEF ReplayAccepted, AccountAttempt, AccountOptimizer, AccountEvaluation, Unwritten
  <2>2. CASE ChampionArmRuns \/ OptimizerRuns \/ CandidateArmRuns
    <3>1. UNCHANGED <<st, catalog, art>>
      BY <2>2 DEF ChampionArmRuns, OptimizerRuns, CandidateArmRuns, RunJob
    <3> QED BY <3>1, UnwrittenListed
  <2>3. CASE EnterScreening
    BY <2>3, UnwrittenListed DEF EnterScreening, UpdateState, Typed, TypeOK, StateType
  <2>4. CASE \/ ReadAttemptChain \/ ChampionRuntime \/ ReplayAttempt
             \/ PanelSaturated \/ PanelInfrastructureInvalid
             \/ PanelPrepared \/ OptimizerDone \/ ReplayCandidate \/ CandidateReady \/ Decided
             \/ Published
    <3>1. UpdateState(st)
      <4>1. CASE ReadAttemptChain \/ ReplayAttempt \/ CandidateReady \/ Decided \/ Published
        BY <1>2, <4>1, BlockEnds, StopEnds DEF ReadAttemptChain, ReplayAttempt, CandidateReady,
           Boundary, Decided, Published
      <4>2. CASE ChampionRuntime
        BY <1>2, <4>2, FinishEnds DEF ChampionRuntime, Failure, Cancelled, Stop
      <4>3. CASE PanelSaturated \/ PanelInfrastructureInvalid
        BY <1>2, <4>3, BlockEnds DEF PanelSaturated, PanelInfrastructureInvalid, NextOrdinal
      <4>4. CASE PanelPrepared \/ OptimizerDone \/ ReplayCandidate
        BY <1>2, <4>4, StopEnds DEF PanelPrepared, Boundary, OptimizerDone, ReplayCandidate
      <4> QED BY <2>4, <4>1, <4>2, <4>3, <4>4
    <3> QED BY <3>1, UnwrittenListed DEF UpdateState
  <2> QED BY <2>1, <2>2, <2>3, <2>4
<1> QED BY <1>1, <1>2

(* The files that are neither an attempt nor the accepted panel.           *)
LEMMA WritesListed ==
    ASSUME Typed, History, Documented, Listed,
           \/ RecordExperiment \/ ReuseRetained
           \/ RecordOptimizer \/ ValidateCandidate \/ RecordValidCandidate
           \/ RecordEvaluation \/ Decide \/ RecordPublication \/ Advance
    PROVE  Listed'
<1>1. CASE Ends
  BY <1>1, StillListed DEF Ends
<1>2. CASE ~Ends
  <2>1. pc \notin Idle
    BY DEF RecordExperiment, ReuseRetained, RecordOptimizer, ValidateCandidate,
       RecordValidCandidate, RecordEvaluation, Decide, RecordPublication, Advance, InPhase, Idle
  <2>2. active # None /\ mine \in ArtifactType
    BY <2>1 DEF Typed, TypeOK, StateType, Located, active, mine
  <2>3. \E new : /\ WriteArtifact(new) /\ new.attempts = mine.attempts
                 /\ new.accepted = mine.accepted
    <3>1. CASE RecordExperiment
      <4>1. PICK a : WriteArtifact([mine EXCEPT !.before = a])
        BY <1>2, <3>1, BlockEnds DEF RecordExperiment
      <4> QED BY <2>2, <4>1 DEF ArtifactType
    <3>2. CASE ReuseRetained
      <4>1. PICK a : WriteArtifact([mine EXCEPT !.reused = a])
        BY <1>2, <3>2, BlockEnds DEF ReuseRetained
      <4> QED BY <2>2, <4>1 DEF ArtifactType
    <3>3. CASE RecordOptimizer
      <4>1. PICK a : WriteArtifact([mine EXCEPT !.optimizer = a])
        BY <3>3 DEF RecordOptimizer
      <4> QED BY <2>2, <4>1 DEF ArtifactType
    <3>4. CASE ValidateCandidate
      <4>1. PICK new : /\ WriteArtifact(new)
                       /\ new = [mine EXCEPT !.runtime = TRUE]
                          \/ new = [mine EXCEPT !.candidate = "invalid"]
        BY <3>4 DEF ValidateCandidate
      <4> QED BY <2>2, <4>1 DEF ArtifactType
    <3>5. CASE RecordValidCandidate
      <4>1. WriteArtifact([mine EXCEPT !.candidate = "valid"])
        BY <3>5 DEF RecordValidCandidate
      <4> QED BY <2>2, <4>1 DEF ArtifactType
    <3>6. CASE RecordEvaluation
      <4>1. PICK a : WriteArtifact([mine EXCEPT !.evaluation = a])
        BY <3>6 DEF RecordEvaluation
      <4> QED BY <2>2, <4>1 DEF ArtifactType
    <3>7. CASE Decide
      <4>1. PICK a : WriteArtifact([mine EXCEPT !.decision = a])
        BY <1>2, <3>7, BlockEnds DEF Decide
      <4> QED BY <2>2, <4>1 DEF ArtifactType
    <3>8. CASE RecordPublication
      <4>1. PICK a : WriteArtifact([mine EXCEPT !.publication = a])
        BY <3>8 DEF RecordPublication
      <4> QED BY <2>2, <4>1 DEF ArtifactType
    <3>9. CASE Advance
      <4>1. PICK a : WriteArtifact([mine EXCEPT !.receipt = a])
        BY <3>9 DEF Advance
      <4> QED BY <2>2, <4>1 DEF ArtifactType
    <3> QED BY <3>1, <3>2, <3>3, <3>4, <3>5, <3>6, <3>7, <3>8, <3>9
  <2> QED BY <2>2, <2>3, WriteListed
<1> QED BY <1>1, <1>2

---------------------------------------------------------------------------
(* Steps of the screening *)

(* An experiment with a panel taken over has screened none of its own.     *)
LEMMA ReusedBare ==
    ASSUME Accounted, active # None, mine.reused # None
    PROVE  \A o \in Ordinals : Attempt(o) = None
BY DEF Accounted, Accounts, JobsFiled, FilesPaid, PaidFor

(* A panel taken over was counted when it was accepted.                    *)
LEMMA ReplayReuseListed ==
    ASSUME Typed, History, Documented, Accounted, Listed, ReplayReuse
    PROVE  Listed'
<1>1. CASE Ends
  BY <1>1, StillListed DEF Ends
<1>2. CASE ~Ends
  <2>1. pc = "panel" /\ mine.reused # None
    BY DEF ReplayReuse
  <2>2. active # None /\ mine \in ArtifactType
    BY <2>1, NoReceiptYet DEF Idle
  <2>3. PICK a : WriteArtifact([mine EXCEPT !.accepted = a])
    BY <1>2, BlockEnds DEF ReplayReuse
  <2>4. PICK new : new = [mine EXCEPT !.accepted = a]
    OBVIOUS
  <2>5. new.attempts = mine.attempts /\ WriteArtifact(new)
    BY <2>2, <2>3, <2>4 DEF ArtifactType
  <2>6. Whole
    BY <2>1, <2>2, ReusedBare DEF Whole
  <2> QED BY <2>2, <2>5, <2>6, WriteListed
<1> QED BY <1>1, <1>2

(* A new experiment has screened nothing yet.                              *)
LEMMA OpenExperimentListed ==
    ASSUME Typed, History, Listed, OpenExperiment
    PROVE  Listed'
<1>1. UNCHANGED <<catalog, art>>
  BY DEF OpenExperiment, UpdateState
<1>2. CASE active # None
  <2>1. st' = st
    BY <1>2 DEF OpenExperiment, UpdateState
  <2> QED BY <1>1, <2>1, UnwrittenListed
<1>3. CASE active = None
  <2>1. /\ st' = [st EXCEPT !.active = st.next, !.phase = "panel-screening"]
        /\ st \in StateType
    BY <1>3 DEF OpenExperiment, UpdateState, Typed, TypeOK
  <2>2. st'.active = st.next /\ st'.history = st.history /\ st.next <= MaxExperiments
    BY <1>3, <2>1 DEF StateType, OpenExperiment
  <2>3. mine' = NoArtifacts
    <3>1. st.next \in Experiments
      BY <2>1, <2>2, ConstantsAssumption DEF StateType, Experiments
    <3> QED BY <1>1, <1>3, <2>2, <3>1 DEF History, Untouched, mine, active
  <2>4. \A o \in Ordinals : Attempt(o)' = None
    BY <2>3 DEF Attempt, NoArtifacts
  <2>5. ListedAttempts'
    BY <2>4 DEF ListedAttempts
  <2>6. AllCounted' = AllCounted /\ Outcomes' = Outcomes
    BY <1>1 DEF AllCounted, Outcomes, Counts, OutcomeOf
  <2>7. Lists(catalog, st.history, AllCounted, Outcomes)
    BY <1>3 DEF Listed, ListedWhole, Whole
  <2>8. ListedWhole'
    BY <1>1, <2>2, <2>6, <2>7 DEF ListedWhole
  <2> QED BY <2>5, <2>8 DEF Listed
<1> QED BY <1>2, <1>3

(* An experiment that is over had a panel, and all its screens counted.    *)
LEMMA FinalizeListed ==
    ASSUME Typed, History, Listed, Finalize
    PROVE  Listed'
<1>1. CASE Ends
  BY <1>1, StillListed DEF Ends
<1>2. CASE ~Ends
  <2>1. /\ mine.accepted # None /\ st'.active = None /\ st'.history = st.history
        /\ UNCHANGED <<catalog, art>>
    BY <1>2, FinalizeEffect
  <2>2. Lists(catalog, st.history, AllCounted, Outcomes)
    BY <2>1 DEF Listed, ListedWhole, Whole
  <2>3. AllCounted' = AllCounted /\ Outcomes' = Outcomes
    BY <2>1 DEF AllCounted, Outcomes, Counts, OutcomeOf
  <2>4. ListedWhole'
    BY <2>1, <2>2, <2>3 DEF ListedWhole
  <2>5. ListedAttempts'
    BY <2>1 DEF ListedAttempts, active
  <2> QED BY <2>4, <2>5 DEF Listed
<1> QED BY <1>1, <1>2

(* While the history and the catalog are brought to an attempt, the lists  *)
(* of the attempts are what is known of them.                              *)
LEMMA ReconcileListed ==
    ASSUME Typed, Documented, Listed, ReconcileHistory \/ ReconcileCatalog
    PROVE  Listed'
<1>1. CASE Ends
  BY <1>1, StillListed DEF Ends
<1>2. CASE ~Ends
  <2>1. pc \in Replaying /\ pc \in Attempting
    BY DEF ReconcileHistory, ReconcileCatalog, Replaying, Attempting
  <2>2. active # None /\ mem.ordinal \in Ordinals /\ Attempt(mem.ordinal) # None
    BY <2>1, AttemptTyped
  <2>3. mine.accepted = None
    BY <2>1 DEF Documented, Staged
  <2>4. art' = art /\ st'.active = st.active
    <3>1. CASE ReconcileCatalog
      BY <1>2, <3>1, BlockEnds DEF ReconcileCatalog
    <3>2. CASE ReconcileHistory
      <4>1. PICK new : /\ UpdateState(new)
                       /\ new = st \/ \E h : new = [st EXCEPT !.history = h]
        BY <1>2, <3>2, BlockEnds DEF ReconcileHistory
      <4>2. new.active = st.active
        BY <4>1 DEF Typed, TypeOK, StateType
      <4> QED BY <4>1, <4>2 DEF UpdateState
    <3> QED BY <3>1, <3>2
  <2>5. /\ active' = active /\ mine' = mine /\ \A o : Attempt(o)' = Attempt(o)
    BY <2>4 DEF active, mine, Attempt
  <2>6. PICK k \in Ordinals : Attempt(k) # None
    BY <2>2
  <2>7. ~Whole'
    BY <2>2, <2>3, <2>5, <2>6 DEF Whole
  <2>8. Outcomes' = Outcomes /\ \A o : CountedTo(o)' = CountedTo(o)
    BY <2>4, <2>5, UncountedScreens
  <2>9. ListedAttempts'
    BY <2>5, <2>8 DEF Listed, ListedAttempts
  <2> QED BY <2>7, <2>9 DEF Listed, ListedWhole
<1> QED BY <1>1, <1>2

(* The screens counted up to the last attempt are all.                     *)
LEMMA LastCountsAll ==
    ASSUME NEW k \in Int, \A o \in Ordinals : Attempt(o) # None => o <= k
    PROVE  CountedTo(k) = AllCounted
<1>1. ASSUME NEW s \in Screen, Counts(s), s.exp = active PROVE s.ordinal <= k
  BY <1>1 DEF Counts, Attempt, mine, Screen, active
<1> QED BY <1>1 DEF CountedTo, AllCounted

(* The accepted attempt is the last, and the history and the catalog are   *)
(* what it left.                                                           *)
LEMMA PanelAcceptedListed ==
    ASSUME Typed, History, Documented, Replayed, Listed, PanelAccepted
    PROVE  Listed'
<1>1. PICK k : k = mem.ordinal
  OBVIOUS
<1>2. /\ active # None /\ k \in Ordinals /\ k \in Nat /\ Attempt(k) # None
      /\ mine \in ArtifactType /\ pc = "assess" /\ Attempt(k).outcome = "accepted"
  BY <1>1, AttemptTyped, Sets DEF PanelAccepted, Attempting
<1>3. ASSUME NEW o \in Ordinals, Attempt(o) # None PROVE ~(o > k)
  BY <1>2, <1>3 DEF Documented, Documents, Chained, Link, TriedBefore
<1>4. \A o \in Ordinals : o \in Nat
  BY Sets
<1>5. \A o \in Ordinals : Attempt(o) # None => o <= k
  BY <1>2, <1>3, <1>4
<1>6. ~HistoryAmong(k + 1) /\ ~CatalogAmong(k + 1)
  <2> SUFFICES ASSUME NEW o \in Ordinals, o >= k + 1, Attempt(o) # None PROVE FALSE
    BY DEF HistoryAmong, CatalogAmong
  <2> QED BY <1>2, <1>4, <1>5
<1>7. st.history = Attempt(k).historyAfter /\ catalog = Attempt(k).catalogAfter
  BY <1>1, <1>2, <1>6 DEF Replayed, Placed, HistoryPast, CatalogPast
<1>8. CountedTo(k) = AllCounted
  BY <1>2, <1>5, LastCountsAll
<1>9. Lists(catalog, st.history, AllCounted, Outcomes)
  BY <1>2, <1>7, <1>8 DEF Listed, ListedAttempts
<1>10. PICK a : WriteArtifact([mine EXCEPT !.accepted = a])
  BY DEF PanelAccepted
<1>11. PICK new : new = [mine EXCEPT !.accepted = a]
  OBVIOUS
<1>12. new.attempts = mine.attempts /\ WriteArtifact(new)
  BY <1>2, <1>10, <1>11 DEF ArtifactType
<1>13. /\ mine' = new /\ active' = active /\ UNCHANGED <<st, catalog>>
       /\ \A x \in Experiments : x # active => art'[x] = art[x]
  BY <1>2, <1>12, WroteOne
<1>14. \A x \in Experiments : art'[x].attempts = art[x].attempts
  BY <1>12, <1>13 DEF mine, active
<1>15. /\ Outcomes' = Outcomes /\ AllCounted' = AllCounted
       /\ \A o : CountedTo(o)' = CountedTo(o)
  BY <1>13, <1>14, UncountedScreens
<1>16. \A o : Attempt(o)' = Attempt(o)
  BY <1>12, <1>13 DEF Attempt
<1>17. ListedAttempts'
  BY <1>13, <1>15, <1>16 DEF Listed, ListedAttempts
<1>18. ListedWhole'
  BY <1>9, <1>13, <1>15 DEF ListedWhole
<1> QED BY <1>17, <1>18 DEF Listed

(* A fresh attempt is filed after all the screens counted so far.          *)
LEMMA LiveListed ==
    ASSUME Typed, Documented, Replayed, Listed, Live
    PROVE  Lists(catalog, st.history, CountedTo(mem.ordinal - 1), Outcomes)
<1>1. PICK k : k = mem.ordinal
  OBVIOUS
<1>2. /\ k \in Ordinals /\ k \in Nat /\ TriedBefore(k)
      /\ \A o \in Ordinals : Attempt(o) # None => o < k
  BY <1>1, LiveIsLast, Sets
<1>3. active # None
  BY SelectionTyped
<1>4. CASE k = 1
  <2>1. \A o \in Ordinals : o \in Nat \ {0}
    BY Sets
  <2>2. \A o \in Ordinals : Attempt(o) = None
    BY <1>2, <1>4, <2>1
  <2>3. CountedTo(k - 1) = AllCounted
    BY <1>2, <2>2, LastCountsAll
  <2> QED BY <1>1, <2>2, <2>3 DEF Listed, ListedWhole, Whole
<1>5. CASE k # 1
  <2>1. k > 1 /\ k - 1 \in Ordinals /\ k - 1 < k
    BY <1>2, <1>5, ConstantsAssumption DEF Ordinals
  <2>2. Attempt(k - 1) # None
    BY <1>2, <2>1 DEF TriedBefore
  <2>3. st.history = Attempt(k - 1).historyAfter /\ catalog = Attempt(k - 1).catalogAfter
    BY <1>1, <2>1, LiveSelection
  <2> QED BY <1>1, <1>3, <2>1, <2>2, <2>3 DEF Listed, ListedAttempts
<1> QED BY <1>4, <1>5

(* What a fresh attempt adds to the screens that count.                    *)
LEMMA RecordAttemptCounts ==
    ASSUME Typed, History, NEW k \in Ordinals, active # None, active' = active, active \in Experiments,
           \A o \in Ordinals : Attempt(o) # None => o < k,
           \A o \in Ordinals : o # k => Attempt(o)' = Attempt(o),
           Attempt(k) = None, Attempt(k)' # None,
           \A x \in Experiments : x # active => art'[x] = art[x]
    PROVE  LET s == [exp |-> active, ordinal |-> k] IN
           /\ s \in Screen /\ s \notin AllCounted
           /\ \A t \in AllCounted : Outcomes'[t] = Outcomes[t]
           /\ \A o \in Nat : o < k => CountedTo(o)' = CountedTo(o)
           /\ CountedTo(k)' = IF Attempt(k)'.outcome = "infrastructure-invalid"
                              THEN CountedTo(k - 1) ELSE CountedTo(k - 1) \cup {s}
           /\ Outcomes'[s] = (Attempt(k)'.outcome = "saturated")
<1>0. PICK s : s = [exp |-> active, ordinal |-> k]
  OBVIOUS
<1>1. s \in Screen /\ s.exp = active /\ s.ordinal = k
  BY <1>0 DEF Screen
<1>2. s \notin AllCounted
  BY <1>1 DEF AllCounted, Counts, Attempt, mine, active
<1>3. \A t \in Screen : /\ t.exp \in Experiments /\ t.ordinal \in Ordinals /\ t.ordinal \in Nat
                        /\ t.exp = active /\ t.ordinal = k => t = s
  <2>1. \A t \in Screen : /\ t.exp \in Experiments /\ t.ordinal \in Ordinals
                          /\ t.exp = active /\ t.ordinal = k => t = s
    BY <1>0 DEF Screen
  <2>2. Ordinals \subseteq Nat
    BY Sets
  <2> QED BY <2>1, <2>2
<1>4. ASSUME NEW t \in Screen, t # s
      PROVE  (Counts(t)' <=> Counts(t)) /\ (OutcomeOf(t)' = OutcomeOf(t))
  <2>1. CASE t.exp # active
    BY <1>3, <2>1 DEF Counts, OutcomeOf
  <2>2. CASE t.exp = active
    <3>1. t.ordinal # k /\ t.ordinal \in Ordinals
      BY <1>3, <1>4, <2>2
    <3>2. Attempt(t.ordinal)' = Attempt(t.ordinal)
      BY <3>1
    <3>3. art'[t.exp].attempts[t.ordinal] = art[t.exp].attempts[t.ordinal]
      BY <2>2, <3>2 DEF Attempt, mine, active
    <3> QED BY <3>3 DEF Counts, OutcomeOf
  <2> QED BY <2>1, <2>2
<1>5. \A t \in AllCounted : Outcomes'[t] = Outcomes[t]
  BY <1>2, <1>4 DEF Outcomes, AllCounted
<1>6. art'[s.exp].attempts[s.ordinal] = Attempt(k)'
  BY <1>1 DEF Attempt, mine, active
<1>7. Counts(s)' <=> Attempt(k)'.outcome # "infrastructure-invalid"
  BY <1>6 DEF Counts
<1>8. Outcomes'[s] = (Attempt(k)'.outcome = "saturated")
  BY <1>1, <1>6 DEF Outcomes, OutcomeOf
<1>9. ASSUME NEW o \in Nat, o < k PROVE CountedTo(o)' = CountedTo(o)
  <2>1. k \in Nat
    BY Sets
  <2>2. s \notin CountedTo(o) /\ s \notin CountedTo(o)'
    BY <1>1, <1>9, <2>1 DEF CountedTo
  <2> QED BY <1>4, <2>2 DEF CountedTo
<1>10. CountedTo(k)' = IF Attempt(k)'.outcome = "infrastructure-invalid"
                       THEN CountedTo(k - 1) ELSE CountedTo(k - 1) \cup {s}
  <2>1. k \in Nat
    BY Sets
  <2>2. \A t \in Screen : t # s /\ Counts(t) /\ t.exp = active => t.ordinal <= k - 1 /\ t.ordinal <= k
    <3> SUFFICES ASSUME NEW t \in Screen, t # s, Counts(t), t.exp = active
                 PROVE  t.ordinal < k
      BY <1>3, <2>1
    <3>1. Attempt(t.ordinal) # None
      BY DEF Counts, Attempt, mine, active
    <3> QED BY <1>3, <3>1
  <2>3. k <= k /\ s \notin CountedTo(k - 1)
    BY <1>2, <2>1 DEF CountedTo, AllCounted
  <2>4. \A t \in Screen : t # s => (t \in CountedTo(k)' <=> t \in CountedTo(k - 1))
    BY <1>4, <2>2 DEF CountedTo
  <2>5. s \in CountedTo(k)' <=> Attempt(k)'.outcome # "infrastructure-invalid"
    BY <1>1, <1>7, <2>3 DEF CountedTo
  <2>6. CountedTo(k)' \subseteq Screen /\ CountedTo(k - 1) \subseteq Screen
    BY DEF CountedTo
  <2> QED BY <1>1, <2>3, <2>4, <2>5, <2>6
<1> QED BY <1>0, <1>1, <1>2, <1>5, <1>8, <1>9, <1>10

(* The attempt's own screen is appended once, if it counts.                *)
LEMMA RecordAttemptListed ==
    ASSUME Typed, History, Documented, Accounted, Replayed, Listed, RecordAttempt
    PROVE  Listed'
<1>1. CASE Ends
  BY <1>1, StillListed DEF Ends
<1>2. CASE ~Ends
  <2>1. PICK j \in Job("panel", mem.ordinal) :
              /\ WriteArtifact([mine EXCEPT !.attempts[mem.ordinal] = Attempted(j)])
              /\ Live /\ pc = "screen"
              /\ active # None /\ active' = active
              /\ UNCHANGED <<st, catalog, jobs>>
              /\ mine'.accepted = mine.accepted
              /\ mem'.ordinal = mem.ordinal
              /\ Attempt(mem.ordinal)' = Attempted(j) /\ Attempted(j) # None
              /\ \A o \in Ordinals : o # mem.ordinal => Attempt(o)' = Attempt(o)
    BY <1>2, RecordAttemptEffect
  <2>2. PICK k : k = mem.ordinal
    OBVIOUS
  <2>3. /\ k \in Ordinals /\ k \in Nat /\ Attempt(k) = None
        /\ \A o \in Ordinals : Attempt(o) # None => o < k
    BY <2>1, <2>2, LiveIsLast, Sets DEF Live
  <2>4. /\ Attempt(k)' = Attempted(j) /\ Attempt(k)' # None
        /\ \A o \in Ordinals : o # k => Attempt(o)' = Attempt(o)
    <3>1. Attempt(k)' = Attempt(mem.ordinal)'
      BY <2>1, <2>2 DEF Attempt
    <3> QED BY <2>1, <2>2, <3>1
  <2>5. active \in Experiments /\ \A x \in Experiments : x # active => art'[x] = art[x]
    BY <2>1, WroteOne
  <2>6. PICK s, g, a : /\ s = [exp |-> active, ordinal |-> k]
                         /\ g = Outcomes' /\ a = Attempted(j)
    OBVIOUS
  <2>7. /\ s = [exp |-> active, ordinal |-> k] /\ g = Outcomes' /\ a = Attempted(j)
        /\ s \in Screen /\ s \notin AllCounted
        /\ \A t \in AllCounted : g[t] = Outcomes[t]
        /\ \A o \in Nat : o < k => CountedTo(o)' = CountedTo(o)
        /\ CountedTo(k)' = IF a.outcome = "infrastructure-invalid"
                           THEN CountedTo(k - 1) ELSE CountedTo(k - 1) \cup {s}
        /\ g[s] = (a.outcome = "saturated")
    <3>1. /\ s \in Screen /\ s \notin AllCounted
          /\ \A t \in AllCounted : Outcomes'[t] = Outcomes[t]
          /\ \A o \in Nat : o < k => CountedTo(o)' = CountedTo(o)
          /\ CountedTo(k)' = IF Attempt(k)'.outcome = "infrastructure-invalid"
                             THEN CountedTo(k - 1) ELSE CountedTo(k - 1) \cup {s}
          /\ Outcomes'[s] = (Attempt(k)'.outcome = "saturated")
      BY <2>1, <2>3, <2>4, <2>5, <2>6, RecordAttemptCounts
    <3>2. Attempt(k)' = a
      BY <2>4, <2>6
    <3> QED BY <2>6, <3>1, <3>2
  <2>8. g \in [Screen -> BOOLEAN]
    BY <2>7 DEF Outcomes, OutcomeOf
  <2>9. \A o : CountedTo(o) \subseteq AllCounted
    BY DEF CountedTo, AllCounted
  <2>10. \A c, h, o : Lists(c, h, CountedTo(o), Outcomes) => Lists(c, h, CountedTo(o), g)
    <3> SUFFICES ASSUME NEW c, NEW h, NEW o, Lists(c, h, CountedTo(o), Outcomes)
                 PROVE  Lists(c, h, CountedTo(o), g)
      OBVIOUS
    <3>1. \A t \in CountedTo(o) : Outcomes[t] = g[t]
      BY <2>7, <2>9
    <3> QED BY <3>1, ListsAgree
  <2>11. Lists(catalog, st.history, CountedTo(k - 1), g)
    BY <2>1, <2>2, <2>10, LiveListed
  <2>12. /\ a.historyBefore = st.history /\ a.catalogBefore = catalog
         /\ a.historyAfter = HistoryAfter(st.history, a.outcome)
         /\ a.catalogAfter = CatalogAfter(catalog, a.outcome, k)
         /\ a.outcome \in PanelOutcomes
    BY <2>2, <2>7 DEF Attempted, Job, Typed, JobsTyped
  <2>13. Lists(a.catalogAfter, a.historyAfter, CountedTo(k)', g)
    <3>1. CASE a.outcome = "infrastructure-invalid"
      BY <2>7, <2>11, <2>12, <3>1 DEF HistoryAfter, CatalogAfter
    <3>2. CASE a.outcome # "infrastructure-invalid"
      <4>1. s \notin CountedTo(k - 1) /\ catalog \in Seq(Screen)
        BY <2>7, <2>9 DEF Typed, TypeOK
      <4>2. Lists(Append(catalog, s), Pushed(st.history, g[s]), CountedTo(k - 1) \cup {s}, g)
        BY <2>7, <2>8, <2>11, <4>1, ListsAppend
      <4> QED BY <2>7, <2>12, <3>2, <4>2 DEF HistoryAfter, CatalogAfter
    <3> QED BY <3>1, <3>2
  <2>14. ListedAttempts'
    <3> SUFFICES ASSUME NEW o \in Ordinals, Attempt(o)' # None
                 PROVE  /\ Lists(Attempt(o)'.catalogBefore, Attempt(o)'.historyBefore,
                                 CountedTo(o - 1)', Outcomes')
                        /\ Lists(Attempt(o)'.catalogAfter, Attempt(o)'.historyAfter,
                                 CountedTo(o)', Outcomes')
      BY DEF ListedAttempts
    <3>1. o \in Nat /\ o - 1 \in Nat
      BY Sets
    <3>2. CASE o = k
      <4>1. CountedTo(k - 1)' = CountedTo(k - 1)
        BY <2>3, <2>7, <3>1, <3>2
      <4> QED BY <2>4, <2>7, <2>11, <2>12, <2>13, <3>2, <4>1
    <3>3. CASE o # k
      <4>1. Attempt(o)' = Attempt(o) /\ Attempt(o) # None /\ o < k /\ o - 1 < k
        BY <2>3, <2>4, <3>1, <3>3
      <4>2. CountedTo(o - 1)' = CountedTo(o - 1) /\ CountedTo(o)' = CountedTo(o)
        BY <2>7, <3>1, <4>1
      <4>3. /\ Lists(Attempt(o).catalogBefore, Attempt(o).historyBefore, CountedTo(o - 1), g)
            /\ Lists(Attempt(o).catalogAfter, Attempt(o).historyAfter, CountedTo(o), g)
        BY <2>1, <2>10, <4>1 DEF Listed, ListedAttempts
      <4> QED BY <2>7, <4>1, <4>2, <4>3
    <3> QED BY <3>2, <3>3
  <2>15. mine.accepted = None
    BY <2>1 DEF Documented, Staged, Replaying
  <2>16. ~Whole'
    BY <2>1, <2>3, <2>4, <2>15 DEF Whole
  <2> QED BY <2>14, <2>16 DEF Listed, ListedWhole
<1> QED BY <1>1, <1>2

(* A campaign just initialized has counted no screen, and there is none.   *)
LEMMA InitListed == Init => Listed
<1> SUFFICES ASSUME Init PROVE Listed
  OBVIOUS
<1>1. active = None /\ catalog = <<>> /\ st.history = <<>>
  BY DEF Init, InitialState, active
<1>2. AllCounted = {}
  <2>1. ASSUME NEW s \in Screen PROVE ~Counts(s)
    <3>1. s.exp \in Experiments /\ s.ordinal \in Ordinals
      BY DEF Screen
    <3> QED BY <3>1 DEF Init, Counts, NoArtifacts
  <2> QED BY <2>1 DEF AllCounted
<1>3. PICK f : f = Outcomes
  OBVIOUS
<1>4. [i \in DOMAIN <<>> |-> f[<<>>[i]]] = <<>>
  OBVIOUS
<1>5. Last(<<>>) = <<>>
  BY ConstantsAssumption DEF Last
<1>6. Lists(<<>>, <<>>, {}, f)
  BY <1>4, <1>5 DEF Lists
<1> QED BY <1>1, <1>2, <1>3, <1>6 DEF Listed, ListedAttempts, ListedWhole

(* Every step keeps the lists.                                             *)
LEMMA NextListed ==
    Inductive /\ Documented /\ Accounted /\ Replayed /\ Listed /\ [Next]_vars => Listed'
<1> SUFFICES ASSUME Typed, History, Documented, Accounted, Replayed, Listed, [Next]_vars
             PROVE  Listed'
  BY InductiveParts
<1>1. CASE \/ Crash \/ OperationFails \/ Begin \/ LoopStops
           \/ \E resume \in BOOLEAN : Start(resume)
  BY <1>1, OutsideEnds, OperationFailsEnds, StillListed DEF Ends
<1>2. CASE \/ SetPhase \/ AtBound \/ UNCHANGED vars
           \/ \E mode \in {"after-phase", "cancel-active"} : RequestStop(mode)
           \/ PushChampion
  BY <1>2, RestStays, StillListed DEF Ends, Stays
<1>3. CASE \/ RecordExperiment \/ ReuseRetained
           \/ RecordOptimizer \/ ValidateCandidate \/ RecordValidCandidate
           \/ RecordEvaluation \/ Decide \/ RecordPublication \/ Advance
  BY <1>3, WritesListed
<1>4. CASE \/ ReplayAccepted \/ AccountAttempt \/ AccountOptimizer \/ AccountEvaluation
           \/ ChampionArmRuns \/ OptimizerRuns \/ CandidateArmRuns
           \/ EnterScreening \/ ReadAttemptChain \/ ChampionRuntime \/ ReplayAttempt
           \/ PanelSaturated \/ PanelInfrastructureInvalid
           \/ PanelPrepared \/ OptimizerDone \/ ReplayCandidate \/ CandidateReady \/ Decided
           \/ Published
  BY <1>4, MovesListed
<1>5. CASE ReconcileHistory \/ ReconcileCatalog
  BY <1>5, ReconcileListed
<1>6. CASE RecordAttempt \/ PanelAccepted \/ ReplayReuse
  BY <1>6, RecordAttemptListed, PanelAcceptedListed, ReplayReuseListed
<1>7. CASE OpenExperiment \/ Finalize
  BY <1>7, OpenExperimentListed, FinalizeListed
<1>8. CASE ScreensExhausted \/ ScreenOverBudget
  BY <1>8, BlockEnds, StopEnds, StillListed DEF ScreensExhausted, ScreenOverBudget, Ends
<1> QED BY <1>1, <1>2, <1>3, <1>4, <1>5, <1>6, <1>7, <1>8
        DEF Next, Progress, Campaign, Panel, Candidate, Conclusion

(* What the lists say of the catalog and the history on disk.              *)
LEMMA ListedOnce ==
    ASSUME Typed, Documented, Replayed, Listed
    PROVE  ScreensCountedOnce
<1>1. \A i, k \in DOMAIN catalog : i # k => catalog[i] # catalog[k]
  <2>1. CASE Whole
    BY <2>1 DEF Listed, ListedWhole, Lists
  <2>2. CASE ~Whole
    <3>1. CatalogAmong(1) /\ active # None
      BY <2>2 DEF Whole, Replayed, Replays, Imaged
    <3>2. PICK o \in Ordinals : /\ Attempt(o) # None
                                /\ catalog \in {Attempt(o).catalogBefore, Attempt(o).catalogAfter}
      BY <3>1 DEF CatalogAmong
    <3>3. \E h, S : Lists(catalog, h, S, Outcomes)
      BY <3>1, <3>2 DEF Listed, ListedAttempts
    <3> QED BY <3>3 DEF Lists
  <2> QED BY <2>1, <2>2
<1>2. ASSUME pc \in {"prepared", "optimizer", "finalize"}
      PROVE  /\ {catalog[i] : i \in DOMAIN catalog} =
                   {s \in Screen : /\ art[s.exp].attempts[s.ordinal] # None
                                   /\ art[s.exp].attempts[s.ordinal].outcome
                                        # "infrastructure-invalid"}
             /\ st.history = Last([i \in DOMAIN catalog |-> OutcomeOf(catalog[i])])
  <2>1. mine.accepted # None
    BY <1>2 DEF Typed, Located, AfterPanel
  <2>2. Lists(catalog, st.history, AllCounted, Outcomes)
    BY <2>1 DEF Listed, ListedWhole, Whole
  <2>3. \A i \in DOMAIN catalog : catalog[i] \in Screen
    BY DEF Typed, TypeOK
  <2>4. [i \in DOMAIN catalog |-> Outcomes[catalog[i]]]
        = [i \in DOMAIN catalog |-> OutcomeOf(catalog[i])]
    BY <2>3 DEF Outcomes
  <2> QED BY <2>2, <2>4 DEF Lists, AllCounted, Counts
<1> QED BY <1>1, <1>2 DEF ScreensCountedOnce

(* Every valid screen is counted once, in the catalog and in the history   *)
(* of outcomes, at whatever attempt a runner crashed and another went on.  *)
THEOREM EachScreenCountedOnce == Spec => []ScreensCountedOnce
<1>1. Init => Listed
  BY InitListed
<1>2. /\ Inductive /\ Documented /\ Accounted /\ Replayed
      /\ Listed /\ [Next]_vars
      => Listed'
  BY NextListed
<1>3. Inductive /\ Documented /\ Replayed /\ Listed => ScreensCountedOnce
  BY InductiveParts, ListedOnce
<1> QED BY <1>1, <1>2, <1>3, ReplayInductive, PTL DEF Spec

---------------------------------------------------------------------------
(* Totals: the cost of a set, by any of its elements *)

(* A set of numbers that is not empty has a least.                         *)
LEMMA LeastNat ==
    ASSUME NEW T, T \subseteq Nat, T # {}
    PROVE  \E n \in T : \A m \in T : ~(m < n)
<1>1. \E x \in T : \A y \in T : ~(<<y, x>> \in OpToRel(<, Nat))
  BY WFMin, NatLessThanWellFounded
<1> QED BY <1>1 DEF OpToRel

(* The total of a set is the total without one of its elements, plus the   *)
(* cost of that one: what the fold's function says of each set it is       *)
(* defined on.                                                             *)
Picked(s) == CHOOSE x \in s : TRUE
Sums(g, D) == g = [s \in D |-> IF s = {} THEN 0 ELSE Picked(s).cost + g[s \ {Picked(s)}]]

(* The total, without the fold.                                            *)
LEMMA TotalCostIs == ASSUME NEW S PROVE TotalCost(S) = (CHOOSE g : Sums(g, SUBSET S))[S]
BY Zenon DEF TotalCost, MapThenSumSet, MapThenFoldSet, Sums, Picked

(* An element picked is one.                                               *)
LEMMA PickedIn == ASSUME NEW s, s # {} PROVE Picked(s) \in s
BY DEF Picked

(* What is left of a finite set without one element has one less.          *)
LEMMA SmallerSubsets ==
    ASSUME NEW S, IsFiniteSet(S), NEW s \in SUBSET S
    PROVE  /\ IsFiniteSet(s) /\ Cardinality(s) \in Nat
           /\ Cardinality(s) = 0 <=> s = {}
           /\ \A x \in s : /\ s \ {x} \in SUBSET S
                           /\ Cardinality(s \ {x}) = Cardinality(s) - 1
                           /\ Cardinality(s \ {x}) \in Nat
<1>1. IsFiniteSet(s)
  BY FS_Subset
<1>2. Cardinality(s) \in Nat
  BY <1>1, FS_CardinalityType
<1>3. Cardinality(s) = 0 <=> s = {}
  BY <1>1, FS_EmptySet
<1>4. ASSUME NEW x \in s
      PROVE  Cardinality(s \ {x}) = Cardinality(s) - 1 /\ Cardinality(s \ {x}) \in Nat
  BY <1>1, <1>4, FS_RemoveElement, FS_CardinalityType
<1> QED BY <1>1, <1>2, <1>3, <1>4

(* The function of the fold exists: size by size.                          *)
LEMMA SumsExist ==
    ASSUME NEW S, IsFiniteSet(S)
    PROVE  \E g : Sums(g, SUBSET S)
<1> DEFINE UpTo(n) == {s \in SUBSET S : Cardinality(s) <= n}
           Step(g, D) == [s \in D |-> IF s = {} THEN 0
                                      ELSE Picked(s).cost + g[s \ {Picked(s)}]]
           Bad == {n \in Nat : ~(\E g : Sums(g, UpTo(n)))}
<1>1. Bad = {}
  <2>1. SUFFICES ASSUME Bad # {} PROVE FALSE
    OBVIOUS
  <2>2. PICK n \in Bad : \A m \in Bad : ~(m < n)
    BY <2>1, LeastNat
  <2>3. CASE n = 0
    <3>1. \A s \in UpTo(0) : s = {}
      BY SmallerSubsets
    <3>2. Sums([s \in UpTo(0) |-> 0], UpTo(0))
      BY <3>1 DEF Sums
    <3> QED BY <2>2, <2>3, <3>2
  <2>4. CASE n # 0
    <3>1. n - 1 \in Nat /\ n - 1 < n /\ n \in Nat
      BY <2>4
    <3>2. PICK g : Sums(g, UpTo(n - 1))
      BY <2>2, <3>1
    <3>3. g = Step(g, UpTo(n - 1))
      BY <3>2 DEF Sums
    <3> DEFINE h == Step(g, UpTo(n))
    <3>4. ASSUME NEW s \in UpTo(n), s # {}
          PROVE  h[s \ {Picked(s)}] = g[s \ {Picked(s)}]
      <4>1. s \in SUBSET S /\ Cardinality(s) <= n /\ Picked(s) \in s
        BY <3>4, PickedIn
      <4>2. /\ s \ {Picked(s)} \in SUBSET S
            /\ Cardinality(s \ {Picked(s)}) = Cardinality(s) - 1
            /\ Cardinality(s) \in Nat
        BY <4>1, SmallerSubsets
      <4>3. Cardinality(s) - 1 <= n - 1 /\ Cardinality(s) - 1 <= n
        BY <3>1, <4>1, <4>2
      <4>4. s \ {Picked(s)} \in UpTo(n) /\ s \ {Picked(s)} \in UpTo(n - 1)
        BY <4>2, <4>3
      <4> HIDE DEF UpTo
      <4> QED BY <3>3, <4>4
    <3>5. h = Step(h, UpTo(n))
      <4> HIDE DEF UpTo
      <4> QED BY <3>4
    <3>6. Sums(h, UpTo(n))
      BY <3>5 DEF Sums
    <3> QED BY <2>2, <3>6
  <2> QED BY <2>3, <2>4
<1>2. Cardinality(S) \in Nat
  BY FS_CardinalityType
<1>3. UpTo(Cardinality(S)) = SUBSET S
  <2>1. ASSUME NEW s \in SUBSET S PROVE Cardinality(s) <= Cardinality(S)
    BY FS_Subset
  <2> QED BY <2>1
<1> QED BY <1>1, <1>2, <1>3

(* Two such functions give a set both are defined on the same total.       *)
LEMMA SumsAgree ==
    ASSUME NEW S, IsFiniteSet(S), NEW R \in SUBSET S,
           NEW g, Sums(g, SUBSET S), NEW h, Sums(h, SUBSET R)
    PROVE  g[R] = h[R]
<1> DEFINE Bad == {n \in Nat : \E r \in SUBSET R : Cardinality(r) = n /\ g[r] # h[r]}
<1>1. Bad = {}
  <2>1. SUFFICES ASSUME Bad # {} PROVE FALSE
    OBVIOUS
  <2>2. PICK n \in Bad : \A m \in Bad : ~(m < n)
    BY <2>1, LeastNat
  <2>3. PICK r \in SUBSET R : Cardinality(r) = n /\ g[r] # h[r]
    BY <2>2
  <2>4. r \in SUBSET S
    OBVIOUS
  <2>5. r # {}
    BY <2>3, <2>4 DEF Sums
  <2>6. Picked(r) \in r
    BY <2>5, PickedIn
  <2>7. /\ r \ {Picked(r)} \in SUBSET R
        /\ Cardinality(r \ {Picked(r)}) = n - 1 /\ n - 1 \in Nat /\ n \in Nat
    BY <2>3, <2>4, <2>6, SmallerSubsets
  <2>8. g[r \ {Picked(r)}] = h[r \ {Picked(r)}]
    BY <2>2, <2>7
  <2> QED BY <2>3, <2>4, <2>5, <2>8 DEF Sums
<1>2. Cardinality(R) \in Nat
  BY SmallerSubsets
<1> QED BY <1>1, <1>2

(* The total of the empty set, and of any other by the element picked.     *)
LEMMA TotalByPicked ==
    ASSUME NEW S, IsFiniteSet(S)
    PROVE  /\ TotalCost({}) = 0
           /\ S # {} => TotalCost(S) = Picked(S).cost + TotalCost(S \ {Picked(S)})
<1> DEFINE G(R) == CHOOSE g : Sums(g, SUBSET R)
<1>1. ASSUME NEW R \in SUBSET S PROVE Sums(G(R), SUBSET R) /\ TotalCost(R) = G(R)[R]
  BY SmallerSubsets, SumsExist, TotalCostIs
<1> HIDE DEF G
<1>2. TotalCost({}) = 0
  BY <1>1 DEF Sums
<1>3. ASSUME S # {} PROVE TotalCost(S) = Picked(S).cost + TotalCost(S \ {Picked(S)})
  <2>1. PICK R : R = S \ {Picked(S)} /\ R \in SUBSET S
    OBVIOUS
  <2>2. TotalCost(S) = Picked(S).cost + G(S)[R]
    <3>1. S \in SUBSET S
      OBVIOUS
    <3>2. Sums(G(S), SUBSET S) /\ TotalCost(S) = G(S)[S]
      BY <1>1, <3>1
    <3> QED BY <1>3, <2>1, <3>1, <3>2 DEF Sums
  <2>3. G(S)[R] = G(R)[R]
    <3>1. S \in SUBSET S /\ R \in SUBSET R
      OBVIOUS
    <3>2. Sums(G(S), SUBSET S) /\ Sums(G(R), SUBSET R)
      BY <1>1, <2>1, <3>1
    <3>3. PICK g : g = G(S)
      OBVIOUS
    <3>4. PICK h : h = G(R)
      OBVIOUS
    <3>5. /\ IsFiniteSet(S) /\ R \in SUBSET S /\ R \in SUBSET R
          /\ Sums(g, SUBSET S) /\ Sums(h, SUBSET R)
      BY <2>1, <3>2, <3>3, <3>4
    <3>6. g[R] = h[R]
      BY <3>5, SumsAgree
    <3> QED BY <3>3, <3>4, <3>6
  <2> QED BY <1>1, <2>1, <2>2, <2>3
<1> QED BY <1>2, <1>3

(* The total is a number, and it does not matter which element is taken    *)
(* away.                                                                   *)
LEMMA TotalByAny ==
    ASSUME NEW S, IsFiniteSet(S), \A x \in S : x.cost \in Nat
    PROVE  /\ TotalCost(S) \in Nat
           /\ \A x \in S : TotalCost(S) = x.cost + TotalCost(S \ {x})
<1> DEFINE Right(s) == /\ TotalCost(s) \in Nat
                       /\ \A x \in s : TotalCost(s) = x.cost + TotalCost(s \ {x})
           Bad == {n \in Nat : \E s \in SUBSET S : Cardinality(s) = n /\ ~Right(s)}
<1>1. Bad = {}
  <2>1. SUFFICES ASSUME Bad # {} PROVE FALSE
    OBVIOUS
  <2>2. PICK n \in Bad : \A m \in Bad : ~(m < n)
    BY <2>1, LeastNat
  <2>3. PICK s \in SUBSET S : Cardinality(s) = n /\ ~Right(s)
    BY <2>2
  <2>4. ASSUME NEW r \in SUBSET S, Cardinality(r) \in Nat, Cardinality(r) < n
        PROVE  Right(r)
    BY <2>2, <2>4
  <2>5. IsFiniteSet(s) /\ s # {}
    <3>1. Right({})
      <4>1. TotalCost({}) = 0
        BY TotalByPicked
      <4> QED BY <4>1
    <3> QED BY <2>3, <3>1, SmallerSubsets
  <2>6. PICK p \in s : p = Picked(s)
    BY <2>5, PickedIn
  <2>7. TotalCost(s) = p.cost + TotalCost(s \ {p})
    BY <2>5, <2>6, TotalByPicked
  <2>8. ASSUME NEW x \in s PROVE Right(s \ {x})
    <3>1. s \ {x} \in SUBSET S /\ Cardinality(s \ {x}) = n - 1 /\ n - 1 \in Nat /\ n \in Nat
      BY <2>3, SmallerSubsets
    <3>2. n - 1 < n
      BY <3>1
    <3> HIDE DEF Right
    <3> QED BY <2>4, <3>1, <3>2
  <2>9. ASSUME NEW x \in s PROVE TotalCost(s) = x.cost + TotalCost(s \ {x})
    <3>1. CASE x = p
      BY <2>7, <3>1
    <3>2. CASE x # p
      <4>1. x \in s \ {p} /\ p \in s \ {x} /\ (s \ {p}) \ {x} = (s \ {x}) \ {p}
        BY <3>2
      <4>2. TotalCost(s \ {p}) = x.cost + TotalCost((s \ {p}) \ {x})
        BY <2>8, <4>1
      <4>3. TotalCost(s \ {x}) = p.cost + TotalCost((s \ {x}) \ {p})
        BY <2>8, <4>1
      <4>4. TotalCost((s \ {p}) \ {x}) \in Nat
        <5>1. (s \ {p}) \ {x} \in SUBSET S /\ Cardinality((s \ {p}) \ {x}) \in Nat
          BY SmallerSubsets
        <5>2. s \ {p} \in SUBSET S /\ Cardinality(s \ {p}) = n - 1 /\ n \in Nat
          BY <2>3, SmallerSubsets
        <5>3. Cardinality((s \ {p}) \ {x}) = n - 2
          <6>1. PICK r \in SUBSET S : r = s \ {p}
            BY <5>2
          <6>2. x \in r /\ IsFiniteSet(S)
            BY <4>1, <6>1
          <6>3. Cardinality(r \ {x}) = Cardinality(r) - 1
            BY <6>2, SmallerSubsets
          <6> QED BY <5>2, <6>1, <6>3
        <5>4. n - 2 < n
          BY <5>2
        <5> HIDE DEF Right
        <5>5. Right((s \ {p}) \ {x})
          BY <2>4, <5>1, <5>3, <5>4
        <5> QED BY <5>5 DEF Right
      <4>5. x.cost \in Nat /\ p.cost \in Nat
        OBVIOUS
      <4>6. TotalCost(s \ {x}) = p.cost + TotalCost((s \ {p}) \ {x})
        BY <4>1, <4>3
      <4> QED BY <2>7, <4>2, <4>4, <4>5, <4>6
    <3> QED BY <3>1, <3>2
  <2>10. TotalCost(s) \in Nat
    BY <2>7, <2>8
  <2> QED BY <2>3, <2>9, <2>10
<1>2. S \in SUBSET S /\ Cardinality(S) \in Nat
  BY FS_CardinalityType
<1> HIDE DEF Right
<1>3. Right(S)
  BY <1>1, <1>2
<1> QED BY <1>3 DEF Right

(* Costs matched one to one add up to the same total.                      *)
LEMMA TotalsMatch ==
    ASSUME NEW S, IsFiniteSet(S), \A x \in S : x.cost \in Nat,
           NEW T, NEW f \in [S -> T], \A y \in T : \E x \in S : f[x] = y,
           \A x, y \in S : f[x] = f[y] => x = y,
           \A x \in S : f[x].cost = x.cost
    PROVE  TotalCost(S) = TotalCost(T)
<1> DEFINE Image(s) == {f[x] : x \in s}
           Bad == {n \in Nat : \E s \in SUBSET S :
                      Cardinality(s) = n /\ TotalCost(s) # TotalCost(Image(s))}
<1>1. Bad = {}
  <2>1. SUFFICES ASSUME Bad # {} PROVE FALSE
    OBVIOUS
  <2>2. PICK n \in Bad : \A m \in Bad : ~(m < n)
    BY <2>1, LeastNat
  <2>3. PICK s \in SUBSET S : Cardinality(s) = n /\ TotalCost(s) # TotalCost(Image(s))
    BY <2>2
  <2>4. s # {}
    <3>1. Image({}) = {}
      OBVIOUS
    <3> QED BY <2>3, <3>1
  <2>5. PICK x : x \in s
    BY <2>4
  <2>6. IsFiniteSet(s) /\ IsFiniteSet(Image(s))
    <3>1. IsFiniteSet(s)
      BY SmallerSubsets
    <3>2. [z \in s |-> f[z]] \in Surjection(s, Image(s))
      BY DEF Surjection
    <3> HIDE DEF Image
    <3> QED BY <3>1, <3>2, FS_Surjection
  <2>7. \A y \in Image(s) : y.cost \in Nat
    OBVIOUS
  <2>8. TotalCost(s) = x.cost + TotalCost(s \ {x})
    BY <2>5, <2>6, TotalByAny
  <2>9. f[x] \in Image(s)
    BY <2>5
  <2>10. Image(s) \ {f[x]} = Image(s \ {x})
    BY <2>5
  <2>11. TotalCost(Image(s)) = f[x].cost + TotalCost(Image(s) \ {f[x]})
    <3> HIDE DEF Image
    <3> QED BY <2>6, <2>7, <2>9, TotalByAny
  <2>12. s \ {x} \in SUBSET S /\ Cardinality(s \ {x}) = n - 1 /\ n - 1 \in Nat /\ n \in Nat
    BY <2>3, <2>5, SmallerSubsets
  <2>13. TotalCost(s \ {x}) = TotalCost(Image(s \ {x}))
    <3> HIDE DEF Image
    <3> QED BY <2>2, <2>12
  <2> HIDE DEF Image
  <2>14. f[x].cost = x.cost
    BY <2>5
  <2> QED BY <2>3, <2>8, <2>10, <2>11, <2>13, <2>14
<1>2. S \in SUBSET S /\ Cardinality(S) \in Nat
  BY FS_CardinalityType
<1>3. Image(S) = T
  OBVIOUS
<1> HIDE DEF Image
<1> QED BY <1>1, <1>2, <1>3

---------------------------------------------------------------------------
(* What is paid for, within the budget *)

(* Nothing is paid for out of order, and the places that pay next have     *)
(* seen the budget.                                                        *)
Costed == IsFiniteSet(jobs) /\ IsFiniteSet(st.ledger)
Sequenced == active # None => \A j \in jobs : j.exp = active =>
    /\ j.arm = "optimizer" => mine.accepted # None
    /\ j.arm = "candidate" => mine.optimizer # None
HasPatch == {"optimized", "validation", "built", "candidate", "evaluation"}
Optimized == pc \in HasPatch => mine.optimizer # None
WithinBudget == pc \in {"optimizer", "evaluation"} => ~BudgetExhausted
Afforded == Costed /\ Sequenced /\ Optimized /\ WithinBudget

(* A step that pays and charges nothing, and withdraws no file.            *)
Unspent ==
    /\ jobs' = jobs /\ st'.ledger = st.ledger /\ active' = active
    /\ mine.accepted # None => mine'.accepted # None
    /\ mine.optimizer # None => mine'.optimizer # None

(* Such a step need only know the place it goes to.                        *)
LEMMA UnspentAfforded ==
    ASSUME Afforded, Unspent,
           pc' \in HasPatch => pc \in HasPatch \/ mine.optimizer # None,
           pc' \in {"optimizer", "evaluation"} => pc' = pc \/ ~BudgetExhausted
    PROVE  Afforded'
<1>1. Costed' /\ Sequenced'
  BY DEF Afforded, Costed, Sequenced, Unspent
<1>2. Optimized'
  BY DEF Afforded, Optimized, Unspent
<1>3. WithinBudget'
  BY DEF Afforded, WithinBudget, BudgetExhausted, Unspent
<1> QED BY <1>1, <1>2, <1>3 DEF Afforded

(* The disk as it is, the phase and the status apart.                      *)
LEMMA StillUnspent == ASSUME Still PROVE Unspent
BY DEF Still, Unspent, active, mine

(* The end of an invocation.                                               *)
LEMMA EndsAfforded == ASSUME Afforded, Ends PROVE Afforded'
BY StillUnspent, UnspentAfforded DEF Ends, Idle, HasPatch

(* A runner that stays where it is.                                        *)
LEMMA StaysAfforded == ASSUME Afforded, Stays PROVE Afforded'
BY StillUnspent, UnspentAfforded DEF Stays

(* A file written withdraws none of the panel and of the optimizer.        *)
LEMMA WriteUnspent ==
    ASSUME Typed, History, active # None, NEW new, WriteArtifact(new),
           mine.accepted # None => new.accepted # None,
           mine.optimizer # None => new.optimizer # None
    PROVE  Unspent
<1>1. mine' = new /\ active' = active /\ UNCHANGED <<st, jobs>>
  BY WroteOne
<1> QED BY <1>1 DEF Unspent

(* The runner's moves from place to place: the optimizer is entered past   *)
(* the budget, and so is the evaluation.                                   *)
LEMMA MovesAfforded ==
    ASSUME Typed, Afforded,
           \/ EnterScreening \/ ReadAttemptChain \/ ChampionRuntime \/ ReplayAttempt
           \/ PanelSaturated \/ PanelInfrastructureInvalid
           \/ PanelPrepared \/ OptimizerDone \/ ReplayCandidate \/ CandidateReady \/ Decided
           \/ Published \/ ReconcileHistory \/ ReconcileCatalog
    PROVE  Afforded'
<1>1. CASE Ends
  BY <1>1, EndsAfforded
<1>2. CASE ~Ends
  <2>1. CASE EnterScreening
    <3>1. Unspent /\ pc' = "chain"
      BY <2>1 DEF EnterScreening, UpdateState, Goto, Unspent, active, mine, Typed, TypeOK, StateType
    <3> QED BY <3>1, UnspentAfforded DEF HasPatch
  <2>2. CASE \/ ReadAttemptChain \/ ChampionRuntime \/ ReplayAttempt
             \/ PanelSaturated \/ PanelInfrastructureInvalid \/ Decided \/ Published
    <3>1. UpdateState(st) /\ pc' \in {"runtime", "screen", "account", "publication", "advance"}
      <4>1. CASE ReadAttemptChain \/ ReplayAttempt \/ Decided \/ Published
        BY <1>2, <4>1, BlockEnds DEF ReadAttemptChain, ReplayAttempt, Decided, Published, Goto
      <4>2. CASE ChampionRuntime
        BY <1>2, <4>2, FinishEnds DEF ChampionRuntime, Failure, Cancelled, Stop
      <4>3. CASE PanelSaturated \/ PanelInfrastructureInvalid
        BY <1>2, <4>3, BlockEnds DEF PanelSaturated, PanelInfrastructureInvalid, NextOrdinal
      <4> QED BY <2>2, <4>1, <4>2, <4>3
    <3>2. Unspent
      BY <3>1 DEF UpdateState, Unspent, active, mine
    <3> QED BY <3>1, <3>2, UnspentAfforded DEF HasPatch
  <2>3. CASE PanelPrepared \/ OptimizerDone \/ ReplayCandidate \/ CandidateReady
    <3>1. /\ UpdateState(st)
          /\ \/ pc' = "optimizer" /\ ~BudgetExhausted
             \/ pc' \in {"validation", "candidate", "decision"} /\ pc \in HasPatch
             \/ pc' = "evaluation" /\ pc \in HasPatch /\ ~BudgetExhausted
      <4>1. CASE PanelPrepared
        BY <1>2, <4>1, StopEnds DEF PanelPrepared, Boundary, Goto
      <4>2. CASE CandidateReady
        BY <1>2, <4>2, StopEnds, BlockEnds DEF CandidateReady, Boundary, Goto, HasPatch
      <4>3. CASE OptimizerDone \/ ReplayCandidate
        BY <1>2, <4>3, StopEnds DEF OptimizerDone, ReplayCandidate, InPhase, Goto, HasPatch
      <4> QED BY <2>3, <4>1, <4>2, <4>3
    <3>2. Unspent
      BY <3>1 DEF UpdateState, Unspent, active, mine
    <3> QED BY <3>1, <3>2, UnspentAfforded DEF HasPatch
  <2>4. CASE ReconcileHistory \/ ReconcileCatalog
    <3>1. Unspent
      <4>1. CASE ReconcileCatalog
        BY <1>2, <4>1, BlockEnds DEF ReconcileCatalog, Unspent, active, mine
      <4>2. CASE ReconcileHistory
        <5>1. PICK h : UpdateState(st) \/ UpdateState([st EXCEPT !.history = h])
          BY <1>2, <4>2, BlockEnds DEF ReconcileHistory
        <5> QED BY <5>1 DEF UpdateState, Unspent, active, mine, Typed, TypeOK, StateType
      <4> QED BY <2>4, <4>1, <4>2
    <3>2. pc' \in {"catalog", "assess"}
      BY <1>2, <2>4, BlockEnds DEF ReconcileHistory, ReconcileCatalog, Goto
    <3> QED BY <3>1, <3>2, UnspentAfforded DEF HasPatch
  <2> QED BY <2>1, <2>2, <2>3, <2>4
<1> QED BY <1>1, <1>2

(* The files: a patch is validated only once it is recorded.               *)
LEMMA WritesAfforded ==
    ASSUME Typed, History, Documented, Afforded, Typed',
           \/ RecordExperiment \/ ReuseRetained \/ ReplayReuse \/ RecordAttempt \/ PanelAccepted
           \/ RecordOptimizer \/ ValidateCandidate \/ RecordValidCandidate
           \/ RecordEvaluation \/ Decide \/ RecordPublication \/ Advance
    PROVE  Afforded'
<1>1. CASE Ends
  BY <1>1, EndsAfforded
<1>2. CASE ~Ends
  <2>1. pc \notin Idle
    BY DEF RecordExperiment, ReuseRetained, ReplayReuse, RecordAttempt, Live, Screening,
       PanelAccepted, RecordOptimizer, ValidateCandidate, RecordValidCandidate,
       RecordEvaluation, Decide, RecordPublication, Advance, InPhase, Idle
  <2>2. active # None /\ mine \in ArtifactType
    BY <2>1 DEF Typed, TypeOK, StateType, Located, active, mine
  <2>3. CASE ReplayReuse \/ PanelAccepted
    <3>1. pc' = "prepared" /\ \E a : WriteArtifact([mine EXCEPT !.accepted = a])
      BY <1>2, <2>3, BlockEnds DEF ReplayReuse, PanelAccepted, Goto
    <3>2. PICK a : WriteArtifact([mine EXCEPT !.accepted = a])
      BY <3>1
    <3>3. PICK new : new = [mine EXCEPT !.accepted = a]
      OBVIOUS
    <3>4. new.optimizer = mine.optimizer /\ WriteArtifact(new)
      BY <2>2, <3>2, <3>3 DEF ArtifactType
    <3>5. mine' = new
      BY <2>2, <3>4, WroteOne
    <3>6. new.accepted # None
      BY <3>1, <3>5 DEF Typed, Located, AfterPanel
    <3>7. Unspent
      BY <2>2, <3>4, <3>6, WriteUnspent
    <3> QED BY <3>1, <3>7, UnspentAfforded DEF HasPatch
  <2>4. CASE RecordOptimizer
    <3>1. PICK a : WriteArtifact([mine EXCEPT !.optimizer = a])
      BY <2>4 DEF RecordOptimizer
    <3>2. PICK new : new = [mine EXCEPT !.optimizer = a]
      OBVIOUS
    <3>3. new.accepted = mine.accepted /\ WriteArtifact(new)
      BY <2>2, <3>1, <3>2 DEF ArtifactType
    <3>4. mine.optimizer = None /\ pc = "optimizer" /\ pc' = pc
      BY <2>4 DEF RecordOptimizer, InPhase, Goto
    <3>5. Unspent
      BY <2>2, <3>3, <3>4, WriteUnspent
    <3> QED BY <3>4, <3>5, UnspentAfforded DEF HasPatch
  <2>5. CASE \/ RecordExperiment \/ ReuseRetained \/ RecordAttempt
             \/ ValidateCandidate \/ RecordValidCandidate
             \/ RecordEvaluation \/ Decide \/ RecordPublication \/ Advance
    <3>1. \E new : /\ WriteArtifact(new) /\ new.accepted = mine.accepted
                   /\ new.optimizer = mine.optimizer
      <4>1. CASE RecordExperiment
        <5>1. PICK a : WriteArtifact([mine EXCEPT !.before = a])
          BY <1>2, <4>1, BlockEnds DEF RecordExperiment
        <5> QED BY <2>2, <5>1 DEF ArtifactType
      <4>2. CASE ReuseRetained
        <5>1. PICK a : WriteArtifact([mine EXCEPT !.reused = a])
          BY <1>2, <4>2, BlockEnds DEF ReuseRetained
        <5> QED BY <2>2, <5>1 DEF ArtifactType
      <4>3. CASE RecordAttempt
        <5>1. PICK a : WriteArtifact([mine EXCEPT !.attempts[mem.ordinal] = a])
          BY <1>2, <4>3, RecordAttemptEffect
        <5> QED BY <2>2, <5>1 DEF ArtifactType
      <4>4. CASE ValidateCandidate
        <5>1. PICK new : /\ WriteArtifact(new)
                         /\ new = [mine EXCEPT !.runtime = TRUE]
                            \/ new = [mine EXCEPT !.candidate = "invalid"]
          BY <4>4 DEF ValidateCandidate
        <5> QED BY <2>2, <5>1 DEF ArtifactType
      <4>5. CASE RecordValidCandidate
        <5>1. WriteArtifact([mine EXCEPT !.candidate = "valid"])
          BY <4>5 DEF RecordValidCandidate
        <5> QED BY <2>2, <5>1 DEF ArtifactType
      <4>6. CASE RecordEvaluation
        <5>1. PICK a : WriteArtifact([mine EXCEPT !.evaluation = a])
          BY <4>6 DEF RecordEvaluation
        <5> QED BY <2>2, <5>1 DEF ArtifactType
      <4>7. CASE Decide
        <5>1. PICK a : WriteArtifact([mine EXCEPT !.decision = a])
          BY <1>2, <4>7, BlockEnds DEF Decide
        <5> QED BY <2>2, <5>1 DEF ArtifactType
      <4>8. CASE RecordPublication
        <5>1. PICK a : WriteArtifact([mine EXCEPT !.publication = a])
          BY <4>8 DEF RecordPublication
        <5> QED BY <2>2, <5>1 DEF ArtifactType
      <4>9. CASE Advance
        <5>1. PICK a : WriteArtifact([mine EXCEPT !.receipt = a])
          BY <4>9 DEF Advance
        <5> QED BY <2>2, <5>1 DEF ArtifactType
      <4> QED BY <2>5, <4>1, <4>2, <4>3, <4>4, <4>5, <4>6, <4>7, <4>8, <4>9
    <3>2. Unspent
      BY <2>2, <3>1, WriteUnspent
    <3>3. \/ pc' \notin HasPatch /\ pc' # "optimizer"
          \/ pc' \in HasPatch /\ pc \in HasPatch /\ (pc' = "evaluation" => pc' = pc)
      <4>1. CASE RecordExperiment \/ ReuseRetained \/ Decide
        BY <1>2, <4>1, BlockEnds DEF RecordExperiment, ReuseRetained, Decide, Goto, HasPatch
      <4>2. CASE RecordAttempt
        BY <1>2, <4>2, RecordAttemptEffect DEF HasPatch
      <4>3. CASE ValidateCandidate \/ RecordValidCandidate \/ RecordEvaluation
        BY <4>3 DEF ValidateCandidate, RecordValidCandidate, RecordEvaluation, InPhase, Goto,
           HasPatch
      <4>4. CASE RecordPublication \/ Advance
        BY <4>4 DEF RecordPublication, Advance, Goto, HasPatch
      <4> QED BY <2>5, <4>1, <4>2, <4>3, <4>4
    <3> QED BY <3>2, <3>3, UnspentAfforded DEF HasPatch
  <2> QED BY <2>3, <2>4, <2>5
<1> QED BY <1>1, <1>2

(* A charge adds one entry, and the optimizer's comes after its record.    *)
LEMMA ChargesAfforded ==
    ASSUME Typed, Afforded,
           ReplayAccepted \/ AccountAttempt \/ AccountOptimizer \/ AccountEvaluation
    PROVE  Afforded'
<1>1. CASE Ends
  BY <1>1, EndsAfforded
<1>2. CASE ~Ends
  <2>1. PICK arm, o, c, there :
          /\ AccountCost(arm, o, c, there)
          /\ there \in {"prepared", "history", "optimized", "decision"}
          /\ there = "optimized" => mine.optimizer # None
    <3>1. CASE ReplayAccepted
      BY <1>2, <3>1, BlockEnds DEF ReplayAccepted
    <3>2. CASE AccountAttempt
      BY <3>2 DEF AccountAttempt
    <3>3. CASE AccountOptimizer
      BY <3>3 DEF AccountOptimizer
    <3>4. CASE AccountEvaluation
      BY <3>4 DEF AccountEvaluation
    <3> QED BY <3>1, <3>2, <3>3, <3>4
  <2>2. /\ Unwritten /\ jobs' = jobs /\ pc' = there
        /\ \/ st'.ledger = st.ledger
           \/ st'.ledger = st.ledger \cup {LedgerEntry(active, arm, o, c)}
    BY <1>2, <2>1, AccountEffect
  <2>3. Costed'
    BY <2>2, FS_AddElement DEF Afforded, Costed
  <2>4. Sequenced'
    BY <2>2 DEF Afforded, Sequenced, Unwritten, active, mine
  <2>5. Optimized' /\ WithinBudget'
    BY <2>1, <2>2 DEF Optimized, WithinBudget, Unwritten, active, mine, HasPatch
  <2> QED BY <2>3, <2>4, <2>5 DEF Afforded
<1> QED BY <1>1, <1>2

(* A job leaves one receipt, that of the arm at whose place the runner is. *)
LEMMA RunsAfforded ==
    ASSUME Typed, Documented, Afforded,
           ChampionArmRuns \/ OptimizerRuns \/ CandidateArmRuns
    PROVE  Afforded'
<1>1. PICK arm, o, panel, revision, outcomes :
        /\ RunJob(arm, o, panel, revision, outcomes)
        /\ arm = "optimizer" => pc = "optimizer"
        /\ arm = "candidate" => pc = "evaluation"
  BY DEF ChampionArmRuns, OptimizerRuns, CandidateArmRuns, InPhase
<1>2. PICK new : jobs' = jobs \cup {new} /\ new.arm = arm
  <2>1. PICK outcome, cost :
          jobs' = jobs \cup {[exp |-> active, arm |-> arm, ordinal |-> o, panel |-> panel,
                              revision |-> revision, outcome |-> outcome, cost |-> cost]}
    BY <1>1 DEF RunJob
  <2>2. PICK new : new = [exp |-> active, arm |-> arm, ordinal |-> o, panel |-> panel,
                          revision |-> revision, outcome |-> outcome, cost |-> cost]
    OBVIOUS
  <2> QED BY <2>1, <2>2
<1>3. /\ UNCHANGED <<st, art>> /\ pc' = pc /\ active' = active /\ mine' = mine
  BY <1>1 DEF RunJob, Goto, active, mine
<1>4. Costed'
  BY <1>2, <1>3, FS_AddElement DEF Afforded, Costed
<1>5. /\ arm = "optimizer" => mine.accepted # None
      /\ arm = "candidate" => mine.optimizer # None
  BY <1>1, AfterPanelTyped DEF AfterPanel, Afforded, Optimized, HasPatch
<1>6. Sequenced'
  BY <1>2, <1>3, <1>5 DEF Afforded, Sequenced
<1>7. Optimized' /\ WithinBudget'
  BY <1>3 DEF Afforded, Optimized, WithinBudget, BudgetExhausted
<1> QED BY <1>4, <1>6, <1>7 DEF Afforded

(* A new experiment has paid for nothing; one that is over is not active.  *)
LEMMA TurnsAfforded ==
    ASSUME Typed, History, Accounted, Afforded, OpenExperiment \/ Finalize
    PROVE  Afforded'
<1>1. CASE Ends
  BY <1>1, EndsAfforded
<1>2. CASE ~Ends /\ Finalize
  <2>1. /\ pc' = "loop" /\ jobs' = jobs /\ active' = None /\ st'.ledger = st.ledger
    BY <1>2, FinalizeEffect DEF active
  <2> QED BY <2>1 DEF Afforded, Costed, Sequenced, Optimized, WithinBudget, HasPatch
<1>3. CASE OpenExperiment
  <2>1. pc' = "experiment" /\ UNCHANGED <<art, jobs>>
    BY <1>3 DEF OpenExperiment, UpdateState, Goto
  <2>2. CASE active # None
    <3>1. st' = st
      BY <1>3, <2>2 DEF OpenExperiment, UpdateState
    <3>2. Unspent
      BY <2>1, <3>1 DEF Unspent, active, mine
    <3> QED BY <2>1, <3>2, UnspentAfforded DEF HasPatch
  <2>3. CASE active = None
    <3>1. /\ st' = [st EXCEPT !.active = st.next, !.phase = "panel-screening"]
          /\ st \in StateType
      BY <1>3, <2>3 DEF OpenExperiment, UpdateState, Typed, TypeOK
    <3>2. active' = st.next /\ st'.ledger = st.ledger /\ st.next \in Nat
      BY <3>1, Sets, ConstantsAssumption DEF StateType, active
    <3>3. \A j \in jobs : j.exp < st.next
      BY <2>3 DEF Accounted, Accounts, JobsOpened
    <3>4. \A j \in jobs : j.exp # st.next
      BY <3>2, <3>3
    <3>5. Sequenced'
      BY <2>1, <3>2, <3>4 DEF Sequenced
    <3> QED BY <2>1, <3>2, <3>5 DEF Afforded, Costed, Optimized, WithinBudget, HasPatch
  <2> QED BY <2>2, <2>3
<1> QED BY <1>1, <1>2, <1>3

(* A campaign just initialized has paid and charged nothing.               *)
LEMMA InitAfforded == Init => Afforded
BY FS_EmptySet DEF Init, InitialState, Afforded, Costed, Sequenced, Optimized, WithinBudget,
   HasPatch, active

(* Every step keeps the order of the payments.                             *)
LEMMA NextAfforded ==
    Inductive /\ Documented /\ Accounted /\ Afforded /\ [Next]_vars => Afforded'
<1> SUFFICES ASSUME Typed, History, Documented, Accounted, Afforded, [Next]_vars, Typed'
             PROVE  Afforded'
  BY InductiveParts, NextInductive DEF Inductive, Typed
<1>1. CASE \/ Crash \/ OperationFails \/ Begin \/ LoopStops
           \/ \E resume \in BOOLEAN : Start(resume)
  BY <1>1, OutsideEnds, OperationFailsEnds, EndsAfforded
<1>2. CASE \/ SetPhase \/ AtBound \/ UNCHANGED vars
           \/ \E mode \in {"after-phase", "cancel-active"} : RequestStop(mode)
           \/ PushChampion
  BY <1>2, RestStays, EndsAfforded, StaysAfforded
<1>3. CASE \/ RecordExperiment \/ ReuseRetained \/ ReplayReuse \/ RecordAttempt \/ PanelAccepted
           \/ RecordOptimizer \/ ValidateCandidate \/ RecordValidCandidate
           \/ RecordEvaluation \/ Decide \/ RecordPublication \/ Advance
  BY <1>3, WritesAfforded
<1>4. CASE ReplayAccepted \/ AccountAttempt \/ AccountOptimizer \/ AccountEvaluation
  BY <1>4, ChargesAfforded
<1>5. CASE ChampionArmRuns \/ OptimizerRuns \/ CandidateArmRuns
  BY <1>5, RunsAfforded
<1>6. CASE \/ EnterScreening \/ ReadAttemptChain \/ ChampionRuntime \/ ReplayAttempt
           \/ PanelSaturated \/ PanelInfrastructureInvalid
           \/ PanelPrepared \/ OptimizerDone \/ ReplayCandidate \/ CandidateReady \/ Decided
           \/ Published \/ ReconcileHistory \/ ReconcileCatalog
  BY <1>6, MovesAfforded
<1>7. CASE OpenExperiment \/ Finalize
  BY <1>7, TurnsAfforded
<1>8. CASE ScreensExhausted \/ ScreenOverBudget
  BY <1>8, BlockEnds, StopEnds, EndsAfforded DEF ScreensExhausted, ScreenOverBudget
<1> QED BY <1>1, <1>2, <1>3, <1>4, <1>5, <1>6, <1>7, <1>8
        DEF Next, Progress, Campaign, Panel, Candidate, Conclusion

(* Only the three arms pay.                                                *)
LEMMA OnlyRunsPay ==
    ASSUME Typed, History, Documented, [Next]_vars, jobs' # jobs
    PROVE  ChampionArmRuns \/ OptimizerRuns \/ CandidateArmRuns
<1> SUFFICES ASSUME ~(ChampionArmRuns \/ OptimizerRuns \/ CandidateArmRuns) PROVE jobs' = jobs
  OBVIOUS
<1>1. ASSUME Ends \/ Stays PROVE jobs' = jobs
  BY <1>1 DEF Ends, Stays, Still
<1>2. CASE \/ Crash \/ OperationFails \/ Begin \/ LoopStops
           \/ \E resume \in BOOLEAN : Start(resume)
  BY <1>1, <1>2, OutsideEnds, OperationFailsEnds
<1>3. CASE \/ SetPhase \/ AtBound \/ UNCHANGED vars
           \/ \E mode \in {"after-phase", "cancel-active"} : RequestStop(mode)
           \/ PushChampion
  BY <1>1, <1>3, RestStays
<1>4. CASE Campaign \/ Conclusion
  BY <1>1, <1>2, <1>3, <1>4, BlockEnds DEF Campaign, Conclusion, OpenExperiment, RecordExperiment, Decide, Decided,
     RecordPublication, Published, Advance, Finalize, UpdateState, WriteArtifact
<1>5. CASE Panel
  BY <1>1, <1>5 DEF Panel, ReplayReuse, ReplayAccepted, ReuseRetained, EnterScreening,
     ReadAttemptChain, ChampionRuntime, ScreensExhausted, ReplayAttempt, ScreenOverBudget,
     RecordAttempt, AccountAttempt, ReconcileHistory, ReconcileCatalog, PanelSaturated,
     PanelInfrastructureInvalid, PanelAccepted, PanelPrepared, AccountCost, Boundary, NextOrdinal,
     Block, Stop, Failure, Cancelled, Finish, UpdateState, WriteArtifact
<1>6. CASE Candidate
  BY <1>6 DEF Candidate, RecordOptimizer, AccountOptimizer, OptimizerDone, ValidateCandidate,
     RecordValidCandidate, ReplayCandidate, CandidateReady, RecordEvaluation, AccountEvaluation,
     AccountCost, Boundary, Block, Stop, Finish, UpdateState, WriteArtifact
<1> QED BY <1>2, <1>3, <1>4, <1>5, <1>6 DEF Next, Progress

---------------------------------------------------------------------------
(* Before a job is paid for, every other one is charged *)

(* Where a job may run, all receipts on disk are in the ledger, and the    *)
(* ledger is within the budget.                                            *)
LEMMA PaidWorkCharged ==
    ASSUME Typed, History, Documented, Accounted, Afforded,
           ChampionArmRuns \/ OptimizerRuns \/ CandidateArmRuns
    PROVE  ~BudgetExhausted /\ \A j \in jobs : Charged(j)
<1>1. ~BudgetExhausted
  BY DEF ChampionArmRuns, OptimizerRuns, CandidateArmRuns, InPhase, Afforded, WithinBudget
<1>2. pc \in {"screen", "optimizer", "evaluation"} /\ active # None
  BY NoReceiptYet DEF ChampionArmRuns, Live, Screening, OptimizerRuns, CandidateArmRuns, InPhase,
     Idle
<1>3. SUFFICES ASSUME NEW j \in jobs, j.exp = active PROVE Charged(j)
  BY <1>1, <1>2 DEF Accounted, Accounts, JobsOpened, SettledBefore
<1>4. j.arm \in Arms
  BY DEF Typed, TypeOK, JobType
<1>5. CASE ChampionArmRuns
  <2>1. /\ mem.ordinal \in Ordinals /\ Attempt(mem.ordinal) = None /\ pc = "screen"
        /\ Job("panel", mem.ordinal) = {}
    BY <1>5, SelectionTyped DEF ChampionArmRuns, Live, Screening, RunJob
  <2>2. mine.accepted = None
    BY <2>1 DEF Documented, Staged, Replaying
  <2>3. CASE j.arm = "panel"
    <3>1. j.ordinal \in Ordinals /\ j.ordinal \in Nat /\ TriedBefore(j.ordinal)
      BY <1>2, <1>3, <2>3, PanelJobOrdinal DEF Accounted, Accounts, JobsFiled
    <3>2. j.ordinal # mem.ordinal
      BY <1>3, <2>1, <2>3 DEF Job
    <3>3. ~(mem.ordinal < j.ordinal)
      BY <2>1, <3>1 DEF TriedBefore
    <3>4. j.ordinal < mem.ordinal
      <4>1. mem.ordinal \in Nat
        BY <2>1, Sets
      <4> QED BY <3>1, <3>2, <3>3, <4>1
    <3> QED BY <1>2, <1>3, <2>1, <2>3, <3>4 DEF Accounted, SettledHere
  <2>4. CASE j.arm = "optimizer"
    BY <1>2, <1>3, <2>2, <2>4 DEF Afforded, Sequenced
  <2>5. CASE j.arm = "candidate"
    BY <1>2, <1>3, <2>2, <2>5 DEF Accounted, Accounts, JobsFiled
  <2> QED BY <1>4, <2>3, <2>4, <2>5 DEF Arms
<1>6. CASE OptimizerRuns \/ CandidateArmRuns
  <2>1. pc \in {"optimizer", "evaluation"} /\ mine.accepted # None
    BY <1>6, AfterPanelTyped DEF OptimizerRuns, CandidateArmRuns, InPhase, AfterPanel
  <2>2. CASE j.arm = "panel"
    BY <1>2, <1>3, <2>1, <2>2 DEF Accounted, Accounts, SettledFiles
  <2>3. CASE j.arm = "optimizer"
    <3>1. CASE OptimizerRuns
      <4>1. Job("optimizer", 0) = {}
        BY <3>1 DEF OptimizerRuns, RunJob
      <4> QED BY <1>2, <1>3, <2>3, <4>1 DEF Job, Accounted, Accounts, JobsFiled
    <3>2. CASE CandidateArmRuns
      BY <1>2, <1>3, <2>3, <3>2 DEF CandidateArmRuns, InPhase, Accounted, SettledHere
    <3> QED BY <1>6, <3>1, <3>2
  <2>4. CASE j.arm = "candidate"
    <3>1. CASE OptimizerRuns
      BY <1>2, <1>3, <2>4, <3>1 DEF OptimizerRuns, Afforded, Sequenced
    <3>2. CASE CandidateArmRuns
      <4>1. Job("candidate", mine.accepted.panel.ordinal) = {}
        BY <3>2 DEF CandidateArmRuns, RunJob
      <4> QED BY <1>2, <1>3, <2>4, <4>1 DEF Job, Accounted, Accounts, JobsFiled
    <3> QED BY <1>6, <3>1, <3>2
  <2> QED BY <1>4, <2>2, <2>3, <2>4 DEF Arms
<1> QED BY <1>5, <1>6

(* A ledger that charges every receipt has their total.                    *)
LEMMA ChargedTotals ==
    ASSUME Typed, Accounted, Costed, \A j \in jobs : Charged(j)
    PROVE  TotalCost(jobs) = TotalCost(st.ledger)
<1> DEFINE For(j) == CHOOSE l \in st.ledger :
                        l.exp = j.exp /\ l.arm = j.arm /\ l.ordinal = KeyOf(j)
           f == [j \in jobs |-> For(j)]
<1>1. ASSUME NEW j \in jobs
      PROVE  /\ f[j] \in st.ledger
             /\ f[j].exp = j.exp /\ f[j].arm = j.arm /\ f[j].ordinal = KeyOf(j)
  BY DEF Charged
<1> HIDE DEF f
<1>2. ASSUME NEW j \in jobs PROVE f[j].cost = j.cost
  <2>1. PaidFor(j.exp, j.arm, KeyOf(j), j.cost)
    BY DEF PaidFor
  <2>2. f[j] \in EntriesFor(st.ledger, j.exp, j.arm, KeyOf(j))
    BY <1>1 DEF EntriesFor
  <2> QED BY <2>1, <2>2, KnownChargesAgree
<1>3. \A l \in st.ledger :
        l \in [exp : Experiments, arm : Arms, ordinal : Ordinals \cup {0}, cost : Costs]
  BY DEF Typed, TypeOK, StateType
<1>4. ASSUME NEW l \in st.ledger PROVE \E j \in jobs : f[j] = l
  <2>1. PICK j \in jobs : j.exp = l.exp /\ j.arm = l.arm /\ KeyOf(j) = l.ordinal /\ j.cost = l.cost
    BY DEF Accounted, Accounts, ChargesPaid, PaidFor
  <2>2. /\ f[j] \in st.ledger /\ f[j].exp = l.exp /\ f[j].arm = l.arm
        /\ f[j].ordinal = l.ordinal /\ f[j].cost = l.cost
    BY <1>1, <1>2, <2>1
  <2>3. f[j] = l
    BY <1>3, <2>2
  <2> QED BY <2>3
<1>5. \A j, k \in jobs : f[j] = f[k] => j = k
  <2> SUFFICES ASSUME NEW j \in jobs, NEW k \in jobs, f[j] = f[k] PROVE j = k
    OBVIOUS
  <2>1. j.exp = k.exp /\ j.arm = k.arm /\ KeyOf(j) = KeyOf(k)
    BY <1>1
  <2> QED BY <2>1 DEF Accounted, Accounts, JobsOnce
<1>6. \A j \in jobs : j.cost \in Nat
  BY Sets DEF Typed, TypeOK, JobType
<1>7. f \in [jobs -> st.ledger]
  BY <1>1 DEF f
<1> QED BY <1>2, <1>4, <1>5, <1>6, <1>7, TotalsMatch DEF Costed

(* No job is started once the receipts on disk, the ones a crash left out  *)
(* of the ledger included, add up to maximumCampaignCostUsd.               *)
THEOREM NothingPaidOverBudget == Spec => NoPaidWorkOverBudget
<1>1. Init => Inductive /\ Documented /\ Accounted /\ Afforded
  BY InitInductive, InitDocumented, InitAccounted, InitAfforded
<1>2. /\ Inductive /\ Documented /\ Accounted /\ Afforded
      /\ [Next]_vars
      => (Inductive /\ Documented /\ Accounted /\ Afforded)'
  BY NextInductive, NextDocumented, NextAccounted, NextAfforded
<1>3. /\ Inductive /\ Documented /\ Accounted /\ Afforded
      /\ [Next]_vars
      => [jobs' # jobs /\ BudgetLimit # None => TotalCost(jobs) < BudgetLimit]_vars
  <2> SUFFICES ASSUME Typed, History, Documented, Accounted, Afforded, [Next]_vars,
                      jobs' # jobs, BudgetLimit # None
               PROVE  TotalCost(jobs) < BudgetLimit
    BY InductiveParts
  <2>1. ChampionArmRuns \/ OptimizerRuns \/ CandidateArmRuns
    BY OnlyRunsPay
  <2>2. ~BudgetExhausted /\ \A j \in jobs : Charged(j)
    BY <2>1, PaidWorkCharged
  <2>3. TotalCost(jobs) = TotalCost(st.ledger)
    BY <2>2, ChargedTotals DEF Afforded
  <2>4. TotalCost(jobs) \in Nat /\ BudgetLimit \in Nat
    <3>1. \A j \in jobs : j.cost \in Nat
      BY Sets DEF Typed, TypeOK, JobType
    <3> QED BY <3>1, TotalByAny, ConstantsAssumption DEF Afforded, Costed
  <2> QED BY <2>2, <2>3, <2>4 DEF BudgetExhausted
<1> QED BY <1>1, <1>2, <1>3, PTL DEF Spec, NoPaidWorkOverBudget
=============================================================================
