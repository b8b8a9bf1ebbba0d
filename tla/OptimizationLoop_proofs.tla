------------------------ MODULE OptimizationLoop_proofs ------------------------
(***************************************************************************)
(* The proofs about OptimizationLoop: whatever the process, the operator   *)
(* and the crashes do, for any numbers of experiments, of authorizations   *)
(* and of operations, the history stays readable, the campaign and the     *)
(* journal agree, nothing spent is lost and the ledger's promise is kept.  *)
(*                                                                         *)
(* The argument: the operator changes nothing an experiment's course is    *)
(* decided by, so what the process holds is still true of the head; the    *)
(* tokens of the history are bounded by the counters of the head, so the   *)
(* next one is new; and nobody but the process touches the journal.        *)
(***************************************************************************)
EXTENDS OptimizationLoop, SequenceTheorems, TLAPS

Tokens(kinds) == kinds \X Nat

CampaignStates ==
    [ status: Statuses, epoch: Nat, reason: {None, "operator"},
      pause: {None} \cup Tokens({"pause"}), resumeAuth: {None} \cup Auths,
      next: Nat, inFlight: {None} \cup Nat, interrupted: Nat,
      champion: Nat, sealed: Nat, disposition: {None} \cup Dispositions,
      used: Nat, acct: Tokens({"acct"}),
      limit: Nat, limitAuth: {"limit"} \X ({None} \cup Auths),
      fresh: Nat, generation: Nat,
      availability: Tokens({"genesis", "replenish", "seal"}),
      replenishAuth: {None} \cup Auths,
      exposure: Tokens({"genesis", "seal", "exposure"}),
      ledger: Tokens({"genesis", "seal", "checkpoint"}),
      recoveryAuth: {None} \cup Auths,
      late: BOOLEAN ]

JournalRecords ==
    [ status: {"active", "sealed", "interrupted"}, before: Nat, after: Nat, spent: Nat,
      stage: {"none"} \cup EvaluationStages, disposition: {"none"} \cup Dispositions ]

----------------------------------------------------------------------------
(* The history.                                                             *)

(* The experiment in flight is the newest, and it is neither sealed nor     *)
(* archived; the budget bounds what is spent.                               *)
Sane(s) ==
    /\ s.next > s.sealed /\ s.next > s.interrupted
    /\ s.champion <= s.sealed /\ s.used <= s.limit
    /\ s.inFlight # None =>
          /\ s.status \in {"running", "stop-requested"}
          /\ s.inFlight \in Numbers /\ s.inFlight = s.next - 1
          /\ s.inFlight > s.sealed /\ s.inFlight > s.interrupted

(* The counters of q bound those of p and number its tokens. *)
Bounds(p, q) ==
    /\ p.sealed <= q.sealed /\ p.interrupted <= q.interrupted
    /\ p.generation <= q.generation
    /\ p.availability \in {<<"genesis", 0>>} \cup ({"replenish"} \X (1 .. q.generation))
                            \cup ({"seal"} \X (1 .. q.sealed))
    /\ p.exposure \in {<<"genesis", 0>>} \cup ({"seal"} \X (1 .. q.sealed))
                        \cup ({"exposure"} \X (1 .. q.interrupted))

Pointed(i) == states[i].ledger \in {<<"genesis", 0>>} \cup ({"seal"} \X (1 .. Current.sealed))
                                     \cup ({"checkpoint"} \X (1 .. Len(states) - 1))

Ended(n) == \E i \in DOMAIN states : states[i].sealed = n \/ states[i].interrupted = n
AllocatedAt(i) == i \in 2 .. Len(states) /\ states[i - 1].inFlight # states[i].inFlight

History ==
    /\ states \in Seq(CampaignStates) /\ states # <<>>
    /\ ValidHistory(states)
    /\ Sane(Current)
    /\ \A i \in DOMAIN states : Bounds(states[i], Current) /\ Pointed(i)
    /\ \A n \in 1 .. Current.next - 1 : n # Current.inFlight => Ended(n)
    /\ Current.inFlight # None =>
          \E i \in 2 .. Len(states) : AllocatedAt(i) /\ states[i].inFlight = Current.inFlight

(* What the process holds is true of the head in all that decides the       *)
(* course of an experiment.                                                 *)
AsHeld(p, q) ==
    /\ q.next = p.next /\ q.inFlight = p.inFlight /\ q.interrupted = p.interrupted
    /\ q.champion = p.champion /\ q.sealed = p.sealed /\ q.disposition = p.disposition
    /\ q.used = p.used

Held ==
    /\ cur \in 1 .. Len(states)
    /\ \A i \in cur .. Len(states) : AsHeld(states[i], Current)

----------------------------------------------------------------------------
(* The journal.                                                             *)

Recorded(n) ==
    LET r == records[n] IN
    /\ r.status = "sealed" => r.stage # "none" /\ r.disposition # "none"
    /\ r.status # "sealed" => r.disposition = "none"
    /\ r.disposition = "promoted" => r.stage = "validation"
    /\ r.after = IF r.disposition = "promoted" THEN n ELSE r.before

Journal ==
    /\ records \in Seq(JournalRecords)
    /\ Len(records) < Current.next
    /\ \A n \in DOMAIN records : Recorded(n)

----------------------------------------------------------------------------
(* The interruptions and the places of the process.                         *)

Ports ==
    /\ interruptions \in [Numbers -> {None} \cup Interruptions]
    /\ \A n \in Numbers : interruptions[n] # None =>
          /\ interruptions[n].archive \in {None} \cup DOMAIN states
          /\ interruptions[n].final \in {None} \cup DOMAIN states
    /\ \A m, n \in ActiveInterruptions : m = n

Undisturbed == {"claim", "resolve", "run", "complete", "usage", "seal", "sealAck",
                "interrupt", "idleAck", "begin"}
Applying == {"apply", "charge", "archive", "control", "settle", "ackStop", "mark"}
InFlight == {"resolve", "run", "usage", "seal", "begin", "charge", "archive"}

(* State i archived experiment n. *)
ArchivedIn(i, n) ==
    /\ states[i - 1].inFlight = n /\ states[i].inFlight = None
    /\ states[i].interrupted = n /\ states[i].exposure = <<"exposure", n>>

(* What the process may rely on at a place. *)
At(label) ==
    /\ label \in {"down"} \cup Undisturbed \cup Applying
    /\ label \in Undisturbed => ActiveInterruptions = {}
    /\ label \in Applying => ActiveInterruptions # {}
    /\ label = "claim" => State.inFlight # None \/ State.next \in Numbers
    /\ label \in InFlight => State.inFlight # None
    /\ label \in {"usage", "seal"} => IsSealed(State.inFlight)
    /\ label = "usage" => records[State.inFlight].spent # State.used
    /\ label = "seal" => records[State.inFlight].spent = State.used
    /\ label \in {"charge", "archive"} => /\ State.inFlight = FindPending
                                          /\ InterruptionAccountable(State.inFlight)
    /\ label = "archive" => records[State.inFlight].spent <= State.used
    /\ label = "control" => \E i \in 2 .. cur : ArchivedIn(i, FindPending)

Place ==
    /\ At(pc)
    /\ lock \in {"free", "abandoned"}
    /\ faults \in 0 .. MaxFaults /\ ops \in 0 .. MaxOps

(* Campaign and journal; their agreement needs nothing of the process. *)
Core == History /\ Journal /\ RecordsAgree /\ SpendNotLost

Inductive == Core /\ Held /\ Ports /\ Place

----------------------------------------------------------------------------
(* How the history grows.                                                   *)

(* A state that may follow the head. *)
Continues(q) ==
    LET p == Current IN
    /\ q \in CampaignStates /\ Sane(q) /\ LawfulTransition(p, q)
    /\ \A f \in OneUseFields : q[f] = None \/ q[f] = p[f] \/ ~Consumed(f, q[f])
    /\ p.sealed <= q.sealed /\ p.interrupted <= q.interrupted
    /\ p.generation <= q.generation
    /\ Bounds(q, q)
    /\ q.ledger \in {p.ledger} \cup ({"seal"} \X (1 .. q.sealed))
                      \cup {<<"checkpoint", Len(states)>>}
    /\ \A n \in 1 .. q.next - 1 :
          \/ n \in {q.inFlight, q.sealed, q.interrupted}
          \/ n < p.next /\ n # p.inFlight

(* What is known of a nonempty sequence and of the one that is one longer.  *)
LEMMA Grown ==
    ASSUME NEW S, NEW s \in Seq(S), s # <<>>, NEW q \in S, NEW t, t = Append(s, q)
    PROVE  /\ t \in Seq(S) /\ t # <<>> /\ Len(t) = Len(s) + 1 /\ Len(s) \in Nat \ {0}
           /\ DOMAIN s = 1 .. Len(s) /\ DOMAIN t = 1 .. Len(s) + 1
           /\ \A i \in DOMAIN s : t[i] = s[i] /\ s[i] \in S
           /\ t[Len(t)] = q /\ t[Len(s) + 1] = q /\ s[Len(s)] \in S
  <1>1. Len(s) \in Nat /\ Len(s) # 0 /\ DOMAIN s = 1 .. Len(s)
    BY EmptySeq, LenProperties
  <1> QED  BY <1>1, AppendProperties, ElementOfSeq

(* A hash that does not stand in the history may enter it.                  *)
LEMMA NoReuseGrows ==
    ASSUME NEW S, NEW s \in Seq(S), s # <<>>, NEW q \in S, NEW t, t = Append(s, q),
           NoReuse(s),
           \A f \in OneUseFields : \/ q[f] = None \/ q[f] = s[Len(s)][f]
                                   \/ ~\E i \in DOMAIN s : s[i][f] = q[f]
    PROVE  NoReuse(t)
  <1>1. /\ Len(s) \in Nat \ {0} /\ Len(t) = Len(s) + 1
        /\ DOMAIN s = 1 .. Len(s) /\ DOMAIN t = 1 .. Len(s) + 1
        /\ \A i \in DOMAIN s : t[i] = s[i]
        /\ t[Len(s) + 1] = q
    BY Grown
  <1> SUFFICES ASSUME NEW f \in OneUseFields, NEW i \in Enters(t, f), NEW j \in Enters(t, f),
                      t[i][f] = t[j][f]
               PROVE  i = j
    BY DEF NoReuse
  <1>2. ASSUME NEW k \in Enters(t, f)
        PROVE  \/ k \in Enters(s, f)
               \/ k = Len(s) + 1 /\ ~\E m \in DOMAIN s : s[m][f] = q[f]
    <2>1. CASE k \in DOMAIN s
      <3>1. k > 1 => k - 1 \in DOMAIN s  BY <1>1, <2>1
      <3> QED  BY <1>1, <2>1, <3>1 DEF Enters
    <2>2. CASE k = Len(s) + 1
      <3>1. k > 1 /\ k - 1 = Len(s) /\ Len(s) \in DOMAIN s  BY <1>1, <2>2
      <3>2. t[k][f] # None /\ t[k][f] # t[k - 1][f]
        BY <1>2, <3>1 DEF Enters
      <3>3. t[k] = q /\ t[k - 1] = s[Len(s)]  BY <1>1, <2>2, <3>1
      <3> QED  BY <2>2, <3>2, <3>3
    <2> QED  BY <1>1, <1>2, <2>1, <2>2 DEF Enters
  <1>3. \A k \in Enters(s, f) : k \in DOMAIN s  BY DEF Enters
  <1> QED  BY <1>1, <1>2, <1>3 DEF NoReuse

(* The counters of a state.                                                 *)
LEMMA CountersTyped ==
    ASSUME NEW s \in CampaignStates
    PROVE  /\ s.sealed \in Nat /\ s.interrupted \in Nat /\ s.generation \in Nat
           /\ s.next \in Nat /\ s.used \in Nat /\ s.limit \in Nat /\ s.champion \in Nat
           /\ s.fresh \in Nat /\ s.inFlight \in {None} \cup Nat
  BY DEF CampaignStates

(* The history with one more state that may follow is a history.            *)
LEMMA HistoryGrows ==
    ASSUME History, NEW q, Continues(q), states' = Append(states, q)
    PROVE  History'
  <1>1. q \in CampaignStates  BY DEF Continues
  <1>2. /\ states' \in Seq(CampaignStates) /\ states' # <<>>
        /\ Len(states') = Len(states) + 1 /\ Len(states) \in Nat \ {0}
        /\ DOMAIN states = 1 .. Len(states) /\ DOMAIN states' = 1 .. Len(states) + 1
        /\ \A i \in DOMAIN states : states'[i] = states[i] /\ states[i] \in CampaignStates
        /\ Current' = q /\ states'[Len(states) + 1] = q /\ Current \in CampaignStates
    BY <1>1, Grown DEF History, Current
  <1>3. ValidHistory(states')
    <2>1. states'[1] = InitialState  BY <1>2 DEF History, ValidHistory
    <2>2. NoReuse(states')
      <3>1. \A f \in OneUseFields : \/ q[f] = None \/ q[f] = states[Len(states)][f]
                                    \/ ~\E i \in DOMAIN states : states[i][f] = q[f]
        BY DEF Continues, Consumed, Current
      <3>2. NoReuse(states) /\ states \in Seq(CampaignStates) /\ states # <<>>
        BY DEF History, ValidHistory
      <3> QED  BY <1>1, <3>1, <3>2, NoReuseGrows, ZenonT(30)
    <2>3. ASSUME NEW i \in 2 .. Len(states')
          PROVE  LawfulTransition(states'[i - 1], states'[i])
      <3>1. CASE i \in 2 .. Len(states)
        <4>1. states'[i - 1] = states[i - 1] /\ states'[i] = states[i]  BY <1>2, <3>1
        <4> QED  BY <3>1, <4>1 DEF History, ValidHistory
      <3>2. CASE i = Len(states) + 1
        <4>0. i - 1 = Len(states) /\ Len(states) \in DOMAIN states  BY <1>2, <3>2
        <4>1. states'[i - 1] = Current /\ states'[i] = q  BY <1>2, <3>2, <4>0 DEF Current
        <4> QED  BY <4>1 DEF Continues
      <3> QED  BY <1>2, <3>1, <3>2
    <2> QED  BY <2>1, <2>2, <2>3 DEF ValidHistory
  <1>c. /\ Current.sealed \in Nat /\ Current.interrupted \in Nat /\ Current.generation \in Nat
        /\ q.sealed \in Nat /\ q.interrupted \in Nat /\ q.generation \in Nat
        /\ Current.sealed <= q.sealed /\ Current.interrupted <= q.interrupted
        /\ Current.generation <= q.generation
    BY <1>1, <1>2, CountersTyped DEF Continues
  <1>r. /\ 1 .. Current.sealed \subseteq 1 .. q.sealed
        /\ 1 .. Current.interrupted \subseteq 1 .. q.interrupted
        /\ 1 .. Current.generation \subseteq 1 .. q.generation
        /\ 1 .. Len(states) - 1 \subseteq 1 .. Len(states') - 1
        /\ 1 .. Len(states) - 1 \subseteq 1 .. Len(states)
    BY <1>2, <1>c
  <1>4. ASSUME NEW i \in DOMAIN states'
        PROVE  Bounds(states'[i], q) /\ Pointed(i)'
    <2>1. CASE i \in DOMAIN states
      <3>1. states[i] \in CampaignStates /\ states'[i] = states[i]  BY <1>2, <2>1
      <3>2. Bounds(states[i], Current) /\ Pointed(i)  BY <2>1 DEF History
      <3>3. Bounds(states'[i], q)
        <4>1. /\ states[i].sealed <= q.sealed /\ states[i].interrupted <= q.interrupted
              /\ states[i].generation <= q.generation
          <5>1. /\ states[i].sealed \in Nat /\ states[i].interrupted \in Nat
                /\ states[i].generation \in Nat
            BY <3>1, CountersTyped
          <5>2. /\ states[i].sealed <= Current.sealed
                /\ states[i].interrupted <= Current.interrupted
                /\ states[i].generation <= Current.generation
            BY <3>2 DEF Bounds
          <5> QED  BY <1>c, <5>1, <5>2, SMTT(30)
        <4>2. /\ states[i].availability
                    \in {<<"genesis", 0>>} \cup ({"replenish"} \X (1 .. q.generation))
                          \cup ({"seal"} \X (1 .. q.sealed))
              /\ states[i].exposure
                    \in {<<"genesis", 0>>} \cup ({"seal"} \X (1 .. q.sealed))
                          \cup ({"exposure"} \X (1 .. q.interrupted))
          BY <3>2, <1>r DEF Bounds
        <4> QED  BY <3>1, <4>1, <4>2 DEF Bounds
      <3>4. Pointed(i)'
        BY <1>2, <3>1, <3>2, <1>r, <1>c DEF Pointed
      <3> QED  BY <3>3, <3>4
    <2>2. CASE i = Len(states) + 1
      <3>1. states'[i] = q  BY <1>2, <2>2
      <3>2. Current.ledger \in {<<"genesis", 0>>} \cup ({"seal"} \X (1 .. Current.sealed))
                                \cup ({"checkpoint"} \X (1 .. Len(states) - 1))
        BY <1>2 DEF History, Pointed, Current
      <3>3. q.ledger \in {Current.ledger} \cup ({"seal"} \X (1 .. q.sealed))
                           \cup {<<"checkpoint", Len(states)>>}
        BY DEF Continues
      <3>4. <<"checkpoint", Len(states)>> \in {"checkpoint"} \X (1 .. Len(states))  BY <1>2
      <3>5. q.ledger \in {<<"genesis", 0>>} \cup ({"seal"} \X (1 .. q.sealed))
                           \cup ({"checkpoint"} \X (1 .. Len(states)))
        BY <3>2, <3>3, <3>4, <1>c, <1>r
      <3>6. Len(states') - 1 = Len(states)  BY <1>2
      <3>7. Pointed(i)'  BY <1>2, <3>1, <3>5, <3>6 DEF Pointed
      <3> QED  BY <3>1, <3>7 DEF Continues
    <2> QED  BY <1>2, <2>1, <2>2
  <1>5. ASSUME NEW n \in 1 .. q.next - 1, n # q.inFlight
        PROVE  Ended(n)'
    <2>1. CASE n = q.sealed \/ n = q.interrupted
      BY <1>2, <2>1 DEF Ended
    <2>2. CASE n < Current.next /\ n # Current.inFlight
      <3>1. Current.next \in Nat /\ q.next \in Nat  BY <1>1, <1>2 DEF CampaignStates
      <3>2. Ended(n)  BY <2>2, <3>1 DEF History
      <3> QED  BY <1>2, <3>2 DEF Ended
    <2> QED  BY <1>5, <2>1, <2>2 DEF Continues
  <1>6. ASSUME q.inFlight # None
        PROVE  \E i \in 2 .. Len(states') : AllocatedAt(i)' /\ states'[i].inFlight = q.inFlight
    <2>1. CASE q.inFlight = Current.inFlight
      <3>1. PICK i \in 2 .. Len(states) : AllocatedAt(i) /\ states[i].inFlight = Current.inFlight
        BY <1>6, <2>1 DEF History
      <3>2. i \in DOMAIN states /\ i - 1 \in DOMAIN states /\ i \in 2 .. Len(states')  BY <1>2
      <3> QED  BY <1>2, <2>1, <3>1, <3>2 DEF AllocatedAt
    <2>2. CASE q.inFlight # Current.inFlight
      <3>1. Len(states') \in 2 .. Len(states') /\ Len(states') - 1 \in DOMAIN states
            /\ Len(states') - 1 = Len(states)
        BY <1>2
      <3> QED  BY <1>2, <2>2, <3>1 DEF AllocatedAt, Current
    <2> QED  BY <2>1, <2>2
  <1> QED  BY <1>1, <1>2, <1>3, <1>4, <1>5, <1>6 DEF History, Continues

----------------------------------------------------------------------------
(* The operations of the store append a state that may follow.              *)

Fields == { "status", "epoch", "reason", "pause", "resumeAuth", "next", "inFlight",
            "interrupted", "champion", "sealed", "disposition", "used", "acct", "limit",
            "limitAuth", "fresh", "generation", "availability", "replenishAuth", "exposure",
            "ledger", "recoveryAuth", "late" }

(* What the fields of a state may hold. *)
Typed(s) ==
    /\ s.status \in Statuses /\ s.epoch \in Nat
    /\ s.next \in Nat /\ s.inFlight \in {None} \cup Nat /\ s.interrupted \in Nat
    /\ s.champion \in Nat /\ s.sealed \in Nat /\ s.disposition \in {None} \cup Dispositions
    /\ s.used \in Nat /\ s.limit \in Nat /\ s.fresh \in Nat /\ s.generation \in Nat
    /\ s.recoveryAuth \in {None} \cup Auths /\ s.resumeAuth \in {None} \cup Auths
    /\ s.late \in BOOLEAN

(* A state of the campaign has the fields of Fields, each of its type.      *)
LEMMA FieldsTyped ==
    ASSUME NEW s \in CampaignStates
    PROVE  DOMAIN s = Fields /\ Typed(s)
  BY DEF CampaignStates, Fields, Typed

(* The head of a history. *)
LEMMA HeadTyped ==
    ASSUME History
    PROVE  /\ Current \in CampaignStates /\ Sane(Current) /\ Bounds(Current, Current)
           /\ Typed(Current) /\ DOMAIN Current = Fields
           /\ Len(states) \in Nat \ {0} /\ DOMAIN states = 1 .. Len(states)
           /\ \A i \in DOMAIN states : states[i] \in CampaignStates
  <1>1. Len(states) \in Nat /\ Len(states) # 0 /\ DOMAIN states = 1 .. Len(states)
    BY EmptySeq, LenProperties DEF History
  <1> QED  BY <1>1, ElementOfSeq, FieldsTyped DEF History, Current

(* The parts of a state an operation leaves alone are fields of the record. *)
LEMMA AllocatedContinues ==
    ASSUME History, MayAllocate, Current.next \in Numbers,
           NEW late \in BOOLEAN, NEW q, q = [Allocated EXCEPT !.late = late]
    PROVE  /\ Continues(q)
           /\ q.inFlight = Current.next /\ q.next = Current.next + 1
           /\ q.interrupted = Current.interrupted /\ q.champion = Current.champion
           /\ q.sealed = Current.sealed /\ q.disposition = Current.disposition
           /\ q.used = Current.used
  <1> PICK p : p = Current  OBVIOUS
  <1>1. p \in CampaignStates /\ Sane(p) /\ Bounds(p, p) /\ Typed(p) /\ DOMAIN p = Fields
    BY HeadTyped
  <1> PICK m : m = p.next  OBVIOUS
  <1> PICK e : e = p.next + 1  OBVIOUS
  <1>2. q = [p EXCEPT !.next = e, !.inFlight = m, !.late = late]
    BY <1>1 DEF Allocated, Fields
  <1>3. m \in Nat /\ e \in Nat  BY <1>1 DEF Typed
  <1>4. q \in CampaignStates
    <2>1. /\ p \in CampaignStates /\ late \in BOOLEAN
          /\ e \in Nat /\ m \in {None} \cup Nat
      BY <1>1, <1>3
    <2> QED  BY <1>2, <2>1, ZenonT(60) DEF CampaignStates
  <1>5. /\ q.next = m + 1 /\ q.inFlight = m /\ p.next = m
        /\ \A f \in Fields \ {"next", "inFlight", "late"} : q[f] = p[f]
    BY <1>1, <1>2 DEF Fields
  <1>6. /\ q.status = p.status /\ q.epoch = p.epoch /\ q.reason = p.reason
        /\ q.pause = p.pause /\ q.resumeAuth = p.resumeAuth /\ q.interrupted = p.interrupted
        /\ q.champion = p.champion /\ q.sealed = p.sealed /\ q.disposition = p.disposition
        /\ q.used = p.used /\ q.acct = p.acct /\ q.limit = p.limit /\ q.limitAuth = p.limitAuth
        /\ q.fresh = p.fresh /\ q.generation = p.generation /\ q.availability = p.availability
        /\ q.replenishAuth = p.replenishAuth /\ q.exposure = p.exposure
        /\ q.ledger = p.ledger /\ q.recoveryAuth = p.recoveryAuth
    BY <1>5 DEF Fields
  <1>7. p.status = "running" /\ p.inFlight = None /\ m \in Numbers
    BY DEF MayAllocate
  <1>8. Sane(q)
    BY <1>1, <1>3, <1>5, <1>6, <1>7, StoreAssumption DEF Sane, Typed
  <1>9. LawfulTransition(p, q)
    <2>1. ControlLawful(p, q)  BY <1>1, <1>6, <1>7 DEF ControlLawful, Statuses, Typed
    <2>2. NumberingLawful(p, q)
      BY <1>1, <1>3, <1>5, <1>6, <1>7, StoreAssumption DEF NumberingLawful, Typed
    <2>3. ChampionLawful(p, q)  BY <1>1, <1>6 DEF ChampionLawful, Typed
    <2>4. BudgetLawful(p, q)  BY <1>1, <1>6 DEF BudgetLawful, Typed, Sane
    <2>5. HoldoutLawful(p, q)  BY <1>1, <1>6 DEF HoldoutLawful, Typed
    <2>6. ReconstructionLawful(p, q)  BY <1>1, <1>6 DEF ReconstructionLawful, Typed
    <2> QED  BY <2>1, <2>2, <2>3, <2>4, <2>5, <2>6 DEF LawfulTransition
  <1>10. \A f \in OneUseFields : q[f] = p[f]
    BY <1>6 DEF OneUseFields
  <1>11. Bounds(q, q)
    BY <1>1, <1>6 DEF Bounds
  <1>12. /\ p.sealed <= q.sealed /\ p.interrupted <= q.interrupted /\ p.generation <= q.generation
         /\ \A n \in 1 .. q.next - 1 :
              \/ n \in {q.inFlight, q.sealed, q.interrupted}
              \/ n < p.next /\ n # p.inFlight
    BY <1>1, <1>3, <1>5, <1>6, <1>7, StoreAssumption DEF Typed
  <1> QED  BY <1>4, <1>5, <1>6, <1>8, <1>9, <1>10, <1>11, <1>12 DEF Continues

(* Most operations leave the course of the experiments alone.               *)
SameCourse(p, q) ==
    /\ q.next = p.next /\ q.inFlight = p.inFlight /\ q.interrupted = p.interrupted
    /\ q.champion = p.champion /\ q.sealed = p.sealed /\ q.disposition = p.disposition
    /\ q.exposure = p.exposure

(* A transition that keeps status, epoch and attestations keeps the law of  *)
(* the control section.                                                     *)
LEMMA ControlKept ==
    ASSUME NEW p, NEW q, Typed(p), q.status = p.status, q.epoch = p.epoch,
           q.reason = p.reason, q.pause = p.pause, q.resumeAuth = p.resumeAuth
    PROVE  ControlLawful(p, q)
  BY DEF ControlLawful, Typed, Statuses

(* A transition that keeps usage, limit and their tokens keeps the law of   *)
(* the budget section.                                                      *)
LEMMA BudgetKept ==
    ASSUME NEW p, NEW q, Typed(p), Sane(p), q.used = p.used, q.limit = p.limit,
           q.limitAuth = p.limitAuth, q.acct = p.acct
    PROVE  BudgetLawful(p, q)
  BY DEF BudgetLawful, Typed, Sane

(* A transition that keeps the panels and their tokens keeps the law of the *)
(* holdout section.                                                         *)
LEMMA HoldoutKept ==
    ASSUME NEW p, NEW q, Typed(p), q.fresh = p.fresh, q.generation = p.generation,
           q.replenishAuth = p.replenishAuth, q.availability = p.availability
    PROVE  HoldoutLawful(p, q)
  BY DEF HoldoutLawful, Typed

(* A state that keeps the course of the experiments, and whose own sections *)
(* are lawful and tokens new, may follow the head.                          *)
LEMMA CourseKept ==
    ASSUME History, NEW p, p = Current, NEW q \in CampaignStates, SameCourse(p, q),
           ControlLawful(p, q), BudgetLawful(p, q), HoldoutLawful(p, q),
           q.inFlight # None => q.status \in {"running", "stop-requested"},
           p.recoveryAuth # None => q.recoveryAuth # None,
           \A f \in OneUseFields : q[f] = None \/ q[f] = p[f] \/ ~Consumed(f, q[f]),
           \/ q.availability = p.availability
           \/ q.availability = <<"replenish", p.generation + 1>> /\ q.generation = p.generation + 1,
           q.ledger = p.ledger \/ q.ledger = <<"checkpoint", Len(states)>>
    PROVE  Continues(q)
  <1>1. Sane(p) /\ Bounds(p, p) /\ Typed(p) /\ Typed(q)
    BY HeadTyped, FieldsTyped
  <1>2. Sane(q)  BY <1>1 DEF Sane, SameCourse, BudgetLawful, Typed
  <1>3. p.generation <= q.generation
    <2>1. p.generation \in Nat /\ q.generation \in Nat  BY <1>1 DEF Typed
    <2> QED  BY <2>1 DEF HoldoutLawful
  <1>4. LawfulTransition(p, q)
    <2>1. NumberingLawful(p, q)
      <3>1. p.next \in Nat /\ p.interrupted \in Nat  BY <1>1 DEF Typed
      <3>2. q.status = "stopped" => q.inFlight = None  OBVIOUS
      <3> QED  BY <3>1, <3>2 DEF NumberingLawful, SameCourse
    <2>2. ChampionLawful(p, q)  BY <1>1 DEF ChampionLawful, SameCourse, Typed
    <2>3. ReconstructionLawful(p, q)  BY <1>1 DEF ReconstructionLawful, SameCourse, Typed
    <2> QED  BY <2>1, <2>2, <2>3 DEF LawfulTransition
  <1>7. /\ p.generation \in Nat /\ q.generation \in Nat
        /\ q.sealed \in Nat /\ q.interrupted \in Nat
    BY <1>1 DEF Typed
  <1>5. Bounds(q, q)
    <2>1. q.availability \in {<<"genesis", 0>>} \cup ({"replenish"} \X (1 .. q.generation))
                               \cup ({"seal"} \X (1 .. q.sealed))
      <3>1. CASE q.availability = p.availability
        <4>1. 1 .. p.generation \subseteq 1 .. q.generation  BY <1>7, <1>3
        <4> QED  BY <1>1, <3>1, <4>1 DEF Bounds, SameCourse
      <3>2. CASE /\ q.availability = <<"replenish", p.generation + 1>>
                 /\ q.generation = p.generation + 1
        <4>1. q.generation \in 1 .. q.generation  BY <1>7, <3>2
        <4> QED  BY <3>2, <4>1
      <3> QED  BY <3>1, <3>2
    <2>2. q.exposure \in {<<"genesis", 0>>} \cup ({"seal"} \X (1 .. q.sealed))
                            \cup ({"exposure"} \X (1 .. q.interrupted))
      BY <1>1 DEF Bounds, SameCourse
    <2> QED  BY <1>7, <2>1, <2>2 DEF Bounds
  <1>6. /\ p.sealed <= q.sealed /\ p.interrupted <= q.interrupted
        /\ \A n \in 1 .. q.next - 1 :
              \/ n \in {q.inFlight, q.sealed, q.interrupted}
              \/ n < p.next /\ n # p.inFlight
    BY <1>1, SMTT(30) DEF SameCourse, Typed
  <1> QED  BY <1>2, <1>3, <1>4, <1>5, <1>6, ZenonT(30) DEF Continues

(* What no state of the history carries, the head does not carry; and the   *)
(* next generation and the next checkpoint are new.                         *)
LEMMA HeadNotConsumed ==
    ASSUME History, NEW f, NEW v, ~Consumed(f, v)
    PROVE  v # Current[f]
  BY HeadTyped DEF Consumed, Current

(* The token of the next replenishment is in no state of the history.       *)
LEMMA NextGenerationNew ==
    ASSUME History
    PROVE  /\ ~Consumed("availability", <<"replenish", Current.generation + 1>>)
           /\ <<"replenish", Current.generation + 1>> # Current.availability
  <1>1. Current.generation \in Nat  BY HeadTyped DEF Typed
  <1>2. ASSUME NEW i \in DOMAIN states
        PROVE  states[i].availability # <<"replenish", Current.generation + 1>>
    <2>1. Bounds(states[i], Current)  BY DEF History
    <2> QED  BY <1>1, <2>1 DEF Bounds
  <1> QED  BY <1>2, HeadNotConsumed DEF Consumed

(* The token of a checkpoint taken now is in no state of the history.       *)
LEMMA NextCheckpointNew ==
    ASSUME History
    PROVE  ~Consumed("ledger", <<"checkpoint", Len(states)>>)
  <1>1. Len(states) \in Nat  BY HeadTyped
  <1>2. ASSUME NEW i \in DOMAIN states
        PROVE  states[i].ledger # <<"checkpoint", Len(states)>>
    <2>1. Pointed(i)  BY DEF History
    <2> QED  BY <1>1, <2>1 DEF Pointed
  <1> QED  BY <1>2 DEF Consumed

(* Usage is recorded with a pointer that is new.                            *)
LEMMA UsageContinues ==
    ASSUME History, NEW usage, NEW i \in Nat, NEW token, token = <<"acct", i>>,
           MayRecordUsage(usage, token), usage # Current.used,
           NEW late \in BOOLEAN, NEW q, q = [UsageRecorded(usage, token) EXCEPT !.late = late]
    PROVE  Continues(q) /\ SameCourse(Current, q) /\ q.used = usage
  <1> PICK p : p = Current  OBVIOUS
  <1>1. p \in CampaignStates /\ Sane(p) /\ Bounds(p, p) /\ Typed(p) /\ DOMAIN p = Fields
    BY HeadTyped
  <1>2. q = [p EXCEPT !.used = usage, !.acct = token, !.late = late]
    BY <1>1 DEF UsageRecorded, Fields
  <1>3. /\ usage \in Nat /\ usage >= p.used /\ usage # p.used /\ usage <= p.limit
        /\ token \in Tokens({"acct"})
        /\ ~Consumed("acct", token) /\ token # p.acct
    BY <1>1, HeadNotConsumed DEF MayRecordUsage, Typed, Tokens
  <1>4. q \in CampaignStates
    <2>1. /\ p \in CampaignStates /\ late \in BOOLEAN
          /\ usage \in Nat /\ token \in Tokens({"acct"})
      BY <1>1, <1>3
    <2> QED  BY <1>2, <2>1, ZenonT(60) DEF CampaignStates
  <1>5. /\ q.used = usage /\ q.acct = token
        /\ \A f \in Fields \ {"used", "acct", "late"} : q[f] = p[f]
    BY <1>1, <1>2 DEF Fields
  <1>6. /\ q.status = p.status /\ q.epoch = p.epoch /\ q.reason = p.reason
        /\ q.pause = p.pause /\ q.resumeAuth = p.resumeAuth /\ q.next = p.next
        /\ q.inFlight = p.inFlight /\ q.interrupted = p.interrupted
        /\ q.champion = p.champion /\ q.sealed = p.sealed /\ q.disposition = p.disposition
        /\ q.limit = p.limit /\ q.limitAuth = p.limitAuth /\ q.fresh = p.fresh
        /\ q.generation = p.generation /\ q.availability = p.availability
        /\ q.replenishAuth = p.replenishAuth /\ q.exposure = p.exposure
        /\ q.ledger = p.ledger /\ q.recoveryAuth = p.recoveryAuth
    BY <1>5 DEF Fields
  <1>7. SameCourse(p, q)  BY <1>6 DEF SameCourse
  <1>8. ControlLawful(p, q)  BY <1>1, <1>6, ControlKept, ZenonT(30)
  <1>9. BudgetLawful(p, q)
    <2>1. p.used \in Nat /\ p.limit \in Nat  BY <1>1 DEF Typed
    <2> QED  BY <1>3, <1>5, <1>6, <2>1 DEF BudgetLawful
  <1>10. HoldoutLawful(p, q)  BY <1>1, <1>6, HoldoutKept, ZenonT(30)
  <1>11. \A f \in OneUseFields : q[f] = None \/ q[f] = p[f] \/ ~Consumed(f, q[f])
    BY <1>3, <1>5, <1>6 DEF OneUseFields
  <1>12. q.inFlight # None => q.status \in {"running", "stop-requested"}
    BY <1>1, <1>3, <1>5, <1>6 DEF Sane
  <1>13. /\ p.recoveryAuth # None => q.recoveryAuth # None
         /\ \/ q.availability = p.availability
            \/ /\ q.availability = <<"replenish", p.generation + 1>>
               /\ q.generation = p.generation + 1
         /\ q.ledger = p.ledger \/ q.ledger = <<"checkpoint", Len(states)>>
    BY <1>3, <1>5, <1>6, StoreAssumption
  <1>14. Continues(q)
    BY <1>4, <1>7, <1>8, <1>9, <1>10, <1>11, <1>12, <1>13, CourseKept
  <1> QED  BY <1>5, <1>7, <1>14

(* A limit is raised under a new authorization.                             *)
LEMMA ExtendContinues ==
    ASSUME History, NEW limit \in Nat, NEW auth \in Auths, MayExtend(limit, auth),
           NEW late \in BOOLEAN, NEW q, q = [Extended(limit, auth) EXCEPT !.late = late]
    PROVE  Continues(q) /\ SameCourse(Current, q) /\ q.used = Current.used
  <1> PICK p : p = Current  OBVIOUS
  <1>1. p \in CampaignStates /\ Sane(p) /\ Bounds(p, p) /\ Typed(p) /\ DOMAIN p = Fields
    BY HeadTyped
  <1> PICK a : a = <<"limit", auth>>  OBVIOUS
  <1>2. q = [p EXCEPT !.limit = limit, !.limitAuth = a, !.late = late]
    BY <1>1 DEF Extended, Fields
  <1>3. /\ limit > p.limit /\ a \in {"limit"} \X ({None} \cup Auths)
        /\ ~Consumed("limitAuth", a) /\ a # p.limitAuth
    BY HeadNotConsumed DEF MayExtend
  <1>4. q \in CampaignStates
    <2>1. /\ p \in CampaignStates /\ late \in BOOLEAN
          /\ limit \in Nat /\ a \in {"limit"} \X ({None} \cup Auths)
      BY <1>1, <1>3
    <2> QED  BY <1>2, <2>1, ZenonT(60) DEF CampaignStates
  <1>5. /\ q.limit = limit /\ q.limitAuth = a
        /\ \A f \in Fields \ {"limit", "limitAuth", "late"} : q[f] = p[f]
    BY <1>1, <1>2 DEF Fields
  <1>6. /\ q.status = p.status /\ q.epoch = p.epoch /\ q.reason = p.reason
        /\ q.pause = p.pause /\ q.resumeAuth = p.resumeAuth /\ q.next = p.next
        /\ q.inFlight = p.inFlight /\ q.interrupted = p.interrupted
        /\ q.champion = p.champion /\ q.sealed = p.sealed /\ q.disposition = p.disposition
        /\ q.used = p.used /\ q.acct = p.acct /\ q.fresh = p.fresh
        /\ q.generation = p.generation /\ q.availability = p.availability
        /\ q.replenishAuth = p.replenishAuth /\ q.exposure = p.exposure
        /\ q.ledger = p.ledger /\ q.recoveryAuth = p.recoveryAuth
    BY <1>5 DEF Fields
  <1>7. SameCourse(p, q)  BY <1>6 DEF SameCourse
  <1>8. ControlLawful(p, q)  BY <1>1, <1>6, ControlKept, ZenonT(30)
  <1>9. BudgetLawful(p, q)  BY <1>1, <1>3, <1>5, <1>6 DEF BudgetLawful, Typed, Sane
  <1>10. HoldoutLawful(p, q)  BY <1>1, <1>6, HoldoutKept, ZenonT(30)
  <1>11. \A f \in OneUseFields : q[f] = None \/ q[f] = p[f] \/ ~Consumed(f, q[f])
    BY <1>3, <1>5, <1>6 DEF OneUseFields
  <1>12. q.inFlight # None => q.status \in {"running", "stop-requested"}
    BY <1>1, <1>3, <1>5, <1>6 DEF Sane
  <1>13. /\ p.recoveryAuth # None => q.recoveryAuth # None
         /\ \/ q.availability = p.availability
            \/ /\ q.availability = <<"replenish", p.generation + 1>>
               /\ q.generation = p.generation + 1
         /\ q.ledger = p.ledger \/ q.ledger = <<"checkpoint", Len(states)>>
    BY <1>3, <1>5, <1>6, StoreAssumption
  <1>14. Continues(q)
    BY <1>4, <1>7, <1>8, <1>9, <1>10, <1>11, <1>12, <1>13, CourseKept
  <1> QED  BY <1>6, <1>7, <1>14

(* New panels come under a new authorization and a new generation.          *)
LEMMA ReplenishContinues ==
    ASSUME History, NEW auth \in Auths, MayReplenish(auth),
           NEW late \in BOOLEAN, NEW q, q = [Replenished(auth) EXCEPT !.late = late]
    PROVE  Continues(q) /\ SameCourse(Current, q) /\ q.used = Current.used
  <1> PICK p : p = Current  OBVIOUS
  <1>1. p \in CampaignStates /\ Sane(p) /\ Bounds(p, p) /\ Typed(p) /\ DOMAIN p = Fields
    BY HeadTyped
  <1> PICK f1 : f1 = p.fresh + 1  OBVIOUS
  <1> PICK g : g = p.generation + 1  OBVIOUS
  <1> PICK a : a = <<"replenish", p.generation + 1>>  OBVIOUS
  <1>2. q = [p EXCEPT !.fresh = f1, !.generation = g, !.availability = a,
                      !.replenishAuth = auth, !.late = late]
    BY <1>1 DEF Replenished, Fields
  <1>3. /\ f1 \in Nat /\ g \in Nat /\ f1 = p.fresh + 1 /\ g = p.generation + 1
        /\ a = <<"replenish", p.generation + 1>> /\ a \in Tokens({"genesis", "replenish", "seal"})
        /\ ~Consumed("replenishAuth", auth) /\ auth # p.replenishAuth
        /\ ~Consumed("availability", a) /\ a # p.availability
    BY <1>1, HeadNotConsumed, NextGenerationNew DEF MayReplenish, Typed, Tokens
  <1>4. q \in CampaignStates
    <2>1. /\ p \in CampaignStates /\ late \in BOOLEAN
          /\ f1 \in Nat /\ g \in Nat /\ a \in Tokens({"genesis", "replenish", "seal"})
          /\ auth \in {None} \cup Auths
      BY <1>1, <1>3
    <2> QED  BY <1>2, <2>1, ZenonT(60) DEF CampaignStates
  <1>5. /\ q.fresh = f1 /\ q.generation = g /\ q.availability = a /\ q.replenishAuth = auth
        /\ \A f \in Fields \ {"fresh", "generation", "availability", "replenishAuth",
                              "late"} : q[f] = p[f]
    BY <1>1, <1>2 DEF Fields
  <1>6. /\ q.status = p.status /\ q.epoch = p.epoch /\ q.reason = p.reason
        /\ q.pause = p.pause /\ q.resumeAuth = p.resumeAuth /\ q.next = p.next
        /\ q.inFlight = p.inFlight /\ q.interrupted = p.interrupted
        /\ q.champion = p.champion /\ q.sealed = p.sealed /\ q.disposition = p.disposition
        /\ q.used = p.used /\ q.acct = p.acct /\ q.limit = p.limit
        /\ q.limitAuth = p.limitAuth /\ q.exposure = p.exposure /\ q.ledger = p.ledger
        /\ q.recoveryAuth = p.recoveryAuth
    BY <1>5 DEF Fields
  <1>7. SameCourse(p, q)  BY <1>6 DEF SameCourse
  <1>8. ControlLawful(p, q)  BY <1>1, <1>6, ControlKept, ZenonT(30)
  <1>9. BudgetLawful(p, q)  BY <1>1, <1>6, BudgetKept, ZenonT(30)
  <1>10. HoldoutLawful(p, q)  BY <1>1, <1>3, <1>5, <1>6 DEF HoldoutLawful, Typed
  <1>11. \A f \in OneUseFields : q[f] = None \/ q[f] = p[f] \/ ~Consumed(f, q[f])
    BY <1>3, <1>5, <1>6 DEF OneUseFields
  <1>12. q.inFlight # None => q.status \in {"running", "stop-requested"}
    BY <1>1, <1>3, <1>5, <1>6 DEF Sane
  <1>13. /\ p.recoveryAuth # None => q.recoveryAuth # None
         /\ \/ q.availability = p.availability
            \/ /\ q.availability = <<"replenish", p.generation + 1>>
               /\ q.generation = p.generation + 1
         /\ q.ledger = p.ledger \/ q.ledger = <<"checkpoint", Len(states)>>
    BY <1>3, <1>5, <1>6, StoreAssumption
  <1>14. Continues(q)
    BY <1>4, <1>7, <1>8, <1>9, <1>10, <1>11, <1>12, <1>13, CourseKept
  <1> QED  BY <1>6, <1>7, <1>14

(* A checkpoint is numbered by the length of the history.                   *)
LEMMA CheckpointContinues ==
    ASSUME History,
           NEW late \in BOOLEAN, NEW q,
           q = [Checkpointed(<<"checkpoint", Len(states)>>) EXCEPT !.late = late]
    PROVE  Continues(q) /\ SameCourse(Current, q) /\ q.used = Current.used
  <1> PICK p : p = Current  OBVIOUS
  <1>1. p \in CampaignStates /\ Sane(p) /\ Bounds(p, p) /\ Typed(p) /\ DOMAIN p = Fields
    BY HeadTyped
  <1> PICK a : a = <<"checkpoint", Len(states)>>  OBVIOUS
  <1>2. q = [p EXCEPT !.ledger = a, !.late = late]
    BY <1>1 DEF Checkpointed, Fields
  <1>3. /\ a \in Tokens({"genesis", "seal", "checkpoint"}) /\ a = <<"checkpoint", Len(states)>>
        /\ ~Consumed("ledger", a)
    BY HeadTyped, NextCheckpointNew DEF Tokens
  <1>4. q \in CampaignStates
    <2>1. /\ p \in CampaignStates /\ late \in BOOLEAN
          /\ a \in Tokens({"genesis", "seal", "checkpoint"})
      BY <1>1, <1>3
    <2> QED  BY <1>2, <2>1, ZenonT(60) DEF CampaignStates
  <1>5. /\ q.ledger = a
        /\ \A f \in Fields \ {"ledger", "late"} : q[f] = p[f]
    BY <1>1, <1>2 DEF Fields
  <1>6. /\ q.status = p.status /\ q.epoch = p.epoch /\ q.reason = p.reason
        /\ q.pause = p.pause /\ q.resumeAuth = p.resumeAuth /\ q.next = p.next
        /\ q.inFlight = p.inFlight /\ q.interrupted = p.interrupted
        /\ q.champion = p.champion /\ q.sealed = p.sealed /\ q.disposition = p.disposition
        /\ q.used = p.used /\ q.acct = p.acct /\ q.limit = p.limit
        /\ q.limitAuth = p.limitAuth /\ q.fresh = p.fresh /\ q.generation = p.generation
        /\ q.availability = p.availability /\ q.replenishAuth = p.replenishAuth
        /\ q.exposure = p.exposure /\ q.recoveryAuth = p.recoveryAuth
    BY <1>5 DEF Fields
  <1>7. SameCourse(p, q)  BY <1>6 DEF SameCourse
  <1>8. ControlLawful(p, q)  BY <1>1, <1>6, ControlKept, ZenonT(30)
  <1>9. BudgetLawful(p, q)  BY <1>1, <1>6, BudgetKept, ZenonT(30)
  <1>10. HoldoutLawful(p, q)  BY <1>1, <1>6, HoldoutKept, ZenonT(30)
  <1>11. \A f \in OneUseFields : q[f] = None \/ q[f] = p[f] \/ ~Consumed(f, q[f])
    BY <1>3, <1>5, <1>6 DEF OneUseFields
  <1>12. q.inFlight # None => q.status \in {"running", "stop-requested"}
    BY <1>1, <1>3, <1>5, <1>6 DEF Sane
  <1>13. /\ p.recoveryAuth # None => q.recoveryAuth # None
         /\ \/ q.availability = p.availability
            \/ /\ q.availability = <<"replenish", p.generation + 1>>
               /\ q.generation = p.generation + 1
         /\ q.ledger = p.ledger \/ q.ledger = <<"checkpoint", Len(states)>>
    BY <1>3, <1>5, <1>6, StoreAssumption
  <1>14. Continues(q)
    BY <1>4, <1>7, <1>8, <1>9, <1>10, <1>11, <1>12, <1>13, CourseKept
  <1> QED  BY <1>6, <1>7, <1>14

(* A stop is requested of a running or paused campaign.                     *)
LEMMA StopContinues ==
    ASSUME History, MayRequestStop,
           NEW late \in BOOLEAN, NEW q, q = [StopRequested("operator") EXCEPT !.late = late]
    PROVE  Continues(q) /\ SameCourse(Current, q) /\ q.used = Current.used
  <1> PICK p : p = Current  OBVIOUS
  <1>1. p \in CampaignStates /\ Sane(p) /\ Bounds(p, p) /\ Typed(p) /\ DOMAIN p = Fields
    BY HeadTyped
  <1>2. q = [p EXCEPT !.status = "stop-requested", !.reason = "operator", !.pause = None,
                      !.late = late]
    BY <1>1 DEF StopRequested, Fields
  <1>3. p.status \in {"running", "paused"} /\ "stop-requested" \in Statuses
    BY <1>1 DEF MayRequestStop, Typed, Statuses
  <1>4. q \in CampaignStates
    <2>1. /\ p \in CampaignStates /\ late \in BOOLEAN
          /\ "stop-requested" \in Statuses /\ "operator" \in {None, "operator"}
          /\ None \in {None} \cup Tokens({"pause"})
      BY <1>1, <1>3
    <2> QED  BY <1>2, <2>1, ZenonT(60) DEF CampaignStates
  <1>5. /\ q.status = "stop-requested" /\ q.reason = "operator" /\ q.pause = None
        /\ \A f \in Fields \ {"status", "reason", "pause", "late"} : q[f] = p[f]
    BY <1>1, <1>2 DEF Fields
  <1>6. /\ q.epoch = p.epoch /\ q.resumeAuth = p.resumeAuth /\ q.next = p.next
        /\ q.inFlight = p.inFlight /\ q.interrupted = p.interrupted
        /\ q.champion = p.champion /\ q.sealed = p.sealed /\ q.disposition = p.disposition
        /\ q.used = p.used /\ q.acct = p.acct /\ q.limit = p.limit
        /\ q.limitAuth = p.limitAuth /\ q.fresh = p.fresh /\ q.generation = p.generation
        /\ q.availability = p.availability /\ q.replenishAuth = p.replenishAuth
        /\ q.exposure = p.exposure /\ q.ledger = p.ledger /\ q.recoveryAuth = p.recoveryAuth
    BY <1>5 DEF Fields
  <1>7. SameCourse(p, q)  BY <1>6 DEF SameCourse
  <1>8. ControlLawful(p, q)
    BY <1>1, <1>3, <1>5, <1>6, StoreAssumption DEF ControlLawful, Statuses, Typed
  <1>9. BudgetLawful(p, q)  BY <1>1, <1>6, BudgetKept, ZenonT(30)
  <1>10. HoldoutLawful(p, q)  BY <1>1, <1>6, HoldoutKept, ZenonT(30)
  <1>11. \A f \in OneUseFields : q[f] = None \/ q[f] = p[f] \/ ~Consumed(f, q[f])
    BY <1>3, <1>5, <1>6 DEF OneUseFields
  <1>12. q.inFlight # None => q.status \in {"running", "stop-requested"}
    BY <1>1, <1>3, <1>5, <1>6 DEF Sane
  <1>13. /\ p.recoveryAuth # None => q.recoveryAuth # None
         /\ \/ q.availability = p.availability
            \/ /\ q.availability = <<"replenish", p.generation + 1>>
               /\ q.generation = p.generation + 1
         /\ q.ledger = p.ledger \/ q.ledger = <<"checkpoint", Len(states)>>
    BY <1>3, <1>5, <1>6, StoreAssumption
  <1>14. Continues(q)
    BY <1>4, <1>7, <1>8, <1>9, <1>10, <1>11, <1>12, <1>13, CourseKept
  <1> QED  BY <1>6, <1>7, <1>14

(* A stop is acknowledged when nothing is in flight.                        *)
LEMMA AcknowledgeContinues ==
    ASSUME History, MayAcknowledge,
           NEW late \in BOOLEAN, NEW q, q = [Acknowledged EXCEPT !.late = late]
    PROVE  Continues(q) /\ SameCourse(Current, q) /\ q.used = Current.used
  <1> PICK p : p = Current  OBVIOUS
  <1>1. p \in CampaignStates /\ Sane(p) /\ Bounds(p, p) /\ Typed(p) /\ DOMAIN p = Fields
    BY HeadTyped
  <1>2. q = [p EXCEPT !.status = "stopped", !.late = late]
    BY <1>1 DEF Acknowledged, Fields
  <1>3. p.status = "stop-requested" /\ p.inFlight = None /\ "stopped" \in Statuses
    BY DEF MayAcknowledge, Statuses
  <1>4. q \in CampaignStates
    <2>1. /\ p \in CampaignStates /\ late \in BOOLEAN
          /\ "stopped" \in Statuses
      BY <1>1, <1>3
    <2> QED  BY <1>2, <2>1, ZenonT(60) DEF CampaignStates
  <1>5. /\ q.status = "stopped"
        /\ \A f \in Fields \ {"status", "late"} : q[f] = p[f]
    BY <1>1, <1>2 DEF Fields
  <1>6. /\ q.epoch = p.epoch /\ q.reason = p.reason /\ q.pause = p.pause
        /\ q.resumeAuth = p.resumeAuth /\ q.next = p.next /\ q.inFlight = p.inFlight
        /\ q.interrupted = p.interrupted /\ q.champion = p.champion /\ q.sealed = p.sealed
        /\ q.disposition = p.disposition /\ q.used = p.used /\ q.acct = p.acct
        /\ q.limit = p.limit /\ q.limitAuth = p.limitAuth /\ q.fresh = p.fresh
        /\ q.generation = p.generation /\ q.availability = p.availability
        /\ q.replenishAuth = p.replenishAuth /\ q.exposure = p.exposure
        /\ q.ledger = p.ledger /\ q.recoveryAuth = p.recoveryAuth
    BY <1>5 DEF Fields
  <1>7. SameCourse(p, q)  BY <1>6 DEF SameCourse
  <1>8. ControlLawful(p, q)
    BY <1>1, <1>3, <1>5, <1>6, StoreAssumption DEF ControlLawful, Statuses, Typed
  <1>9. BudgetLawful(p, q)  BY <1>1, <1>6, BudgetKept, ZenonT(30)
  <1>10. HoldoutLawful(p, q)  BY <1>1, <1>6, HoldoutKept, ZenonT(30)
  <1>11. \A f \in OneUseFields : q[f] = None \/ q[f] = p[f] \/ ~Consumed(f, q[f])
    BY <1>3, <1>5, <1>6 DEF OneUseFields
  <1>12. q.inFlight # None => q.status \in {"running", "stop-requested"}
    BY <1>1, <1>3, <1>5, <1>6 DEF Sane
  <1>13. /\ p.recoveryAuth # None => q.recoveryAuth # None
         /\ \/ q.availability = p.availability
            \/ /\ q.availability = <<"replenish", p.generation + 1>>
               /\ q.generation = p.generation + 1
         /\ q.ledger = p.ledger \/ q.ledger = <<"checkpoint", Len(states)>>
    BY <1>3, <1>5, <1>6, StoreAssumption
  <1>14. Continues(q)
    BY <1>4, <1>7, <1>8, <1>9, <1>10, <1>11, <1>12, <1>13, CourseKept
  <1> QED  BY <1>6, <1>7, <1>14

(* A pause carries an attestation that is new.                              *)
LEMMA PauseContinues ==
    ASSUME History, NEW n \in Nat, NEW token, token = <<"pause", n>>, MayPause(token),
           NEW late \in BOOLEAN, NEW q, q = [Paused(token) EXCEPT !.late = late]
    PROVE  Continues(q) /\ SameCourse(Current, q) /\ q.used = Current.used
  <1> PICK p : p = Current  OBVIOUS
  <1>1. p \in CampaignStates /\ Sane(p) /\ Bounds(p, p) /\ Typed(p) /\ DOMAIN p = Fields
    BY HeadTyped
  <1>2. q = [p EXCEPT !.status = "paused", !.pause = token, !.late = late]
    BY <1>1 DEF Paused, Fields
  <1>3. /\ p.status = "running" /\ p.inFlight = None /\ token \in Tokens({"pause"})
        /\ ~Consumed("pause", token) /\ "paused" \in Statuses
    BY DEF MayPause, Tokens, Statuses
  <1>4. q \in CampaignStates
    <2>1. /\ p \in CampaignStates /\ late \in BOOLEAN
          /\ "paused" \in Statuses /\ token \in {None} \cup Tokens({"pause"})
      BY <1>1, <1>3
    <2> QED  BY <1>2, <2>1, ZenonT(60) DEF CampaignStates
  <1>5. /\ q.status = "paused" /\ q.pause = token
        /\ \A f \in Fields \ {"status", "pause", "late"} : q[f] = p[f]
    BY <1>1, <1>2 DEF Fields
  <1>6. /\ q.epoch = p.epoch /\ q.reason = p.reason /\ q.resumeAuth = p.resumeAuth
        /\ q.next = p.next /\ q.inFlight = p.inFlight /\ q.interrupted = p.interrupted
        /\ q.champion = p.champion /\ q.sealed = p.sealed /\ q.disposition = p.disposition
        /\ q.used = p.used /\ q.acct = p.acct /\ q.limit = p.limit
        /\ q.limitAuth = p.limitAuth /\ q.fresh = p.fresh /\ q.generation = p.generation
        /\ q.availability = p.availability /\ q.replenishAuth = p.replenishAuth
        /\ q.exposure = p.exposure /\ q.ledger = p.ledger /\ q.recoveryAuth = p.recoveryAuth
    BY <1>5 DEF Fields
  <1>7. SameCourse(p, q)  BY <1>6 DEF SameCourse
  <1>8. ControlLawful(p, q)
    BY <1>1, <1>3, <1>5, <1>6, StoreAssumption DEF ControlLawful, Statuses, Typed
  <1>9. BudgetLawful(p, q)  BY <1>1, <1>6, BudgetKept, ZenonT(30)
  <1>10. HoldoutLawful(p, q)  BY <1>1, <1>6, HoldoutKept, ZenonT(30)
  <1>11. \A f \in OneUseFields : q[f] = None \/ q[f] = p[f] \/ ~Consumed(f, q[f])
    BY <1>3, <1>5, <1>6 DEF OneUseFields
  <1>12. q.inFlight # None => q.status \in {"running", "stop-requested"}
    BY <1>1, <1>3, <1>5, <1>6 DEF Sane
  <1>13. /\ p.recoveryAuth # None => q.recoveryAuth # None
         /\ \/ q.availability = p.availability
            \/ /\ q.availability = <<"replenish", p.generation + 1>>
               /\ q.generation = p.generation + 1
         /\ q.ledger = p.ledger \/ q.ledger = <<"checkpoint", Len(states)>>
    BY <1>3, <1>5, <1>6, StoreAssumption
  <1>14. Continues(q)
    BY <1>4, <1>7, <1>8, <1>9, <1>10, <1>11, <1>12, <1>13, CourseKept
  <1> QED  BY <1>6, <1>7, <1>14

(* A campaign is resumed under a new authorization.                         *)
LEMMA ResumeContinues ==
    ASSUME History, NEW auth \in Auths, MayResume(auth),
           NEW late \in BOOLEAN, NEW q, q = [Resumed(auth) EXCEPT !.late = late]
    PROVE  Continues(q) /\ SameCourse(Current, q) /\ q.used = Current.used
  <1> PICK p : p = Current  OBVIOUS
  <1>1. p \in CampaignStates /\ Sane(p) /\ Bounds(p, p) /\ Typed(p) /\ DOMAIN p = Fields
    BY HeadTyped
  <1> PICK e : e = p.epoch + 1  OBVIOUS
  <1>2. q = [p EXCEPT !.status = "running", !.epoch = e, !.reason = None, !.pause = None,
                      !.resumeAuth = auth, !.late = late]
    BY <1>1 DEF Resumed, Fields
  <1>3. /\ e \in Nat /\ e = p.epoch + 1
        /\ p.status \in {"stopped", "paused"} /\ p.inFlight = None
        /\ ~Consumed("resumeAuth", auth) /\ auth # p.resumeAuth /\ "running" \in Statuses
    BY <1>1, HeadNotConsumed DEF MayResume, Typed, Statuses
  <1>4. q \in CampaignStates
    <2>1. /\ p \in CampaignStates /\ late \in BOOLEAN
          /\ "running" \in Statuses /\ e \in Nat /\ None \in {None, "operator"}
          /\ None \in {None} \cup Tokens({"pause"}) /\ auth \in {None} \cup Auths
      BY <1>1, <1>3
    <2> QED  BY <1>2, <2>1, ZenonT(60) DEF CampaignStates
  <1>5. /\ q.status = "running" /\ q.epoch = e /\ q.reason = None /\ q.pause = None
        /\ q.resumeAuth = auth
        /\ \A f \in Fields \ {"status", "epoch", "reason", "pause", "resumeAuth",
                              "late"} : q[f] = p[f]
    BY <1>1, <1>2 DEF Fields
  <1>6. /\ q.next = p.next /\ q.inFlight = p.inFlight /\ q.interrupted = p.interrupted
        /\ q.champion = p.champion /\ q.sealed = p.sealed /\ q.disposition = p.disposition
        /\ q.used = p.used /\ q.acct = p.acct /\ q.limit = p.limit
        /\ q.limitAuth = p.limitAuth /\ q.fresh = p.fresh /\ q.generation = p.generation
        /\ q.availability = p.availability /\ q.replenishAuth = p.replenishAuth
        /\ q.exposure = p.exposure /\ q.ledger = p.ledger /\ q.recoveryAuth = p.recoveryAuth
    BY <1>5 DEF Fields
  <1>7. SameCourse(p, q)  BY <1>6 DEF SameCourse
  <1>8. ControlLawful(p, q)
    BY <1>1, <1>3, <1>5, <1>6, StoreAssumption DEF ControlLawful, Statuses, Typed
  <1>9. BudgetLawful(p, q)  BY <1>1, <1>6, BudgetKept, ZenonT(30)
  <1>10. HoldoutLawful(p, q)  BY <1>1, <1>6, HoldoutKept, ZenonT(30)
  <1>11. \A f \in OneUseFields : q[f] = None \/ q[f] = p[f] \/ ~Consumed(f, q[f])
    BY <1>3, <1>5, <1>6 DEF OneUseFields
  <1>12. q.inFlight # None => q.status \in {"running", "stop-requested"}
    BY <1>1, <1>3, <1>5, <1>6 DEF Sane
  <1>13. /\ p.recoveryAuth # None => q.recoveryAuth # None
         /\ \/ q.availability = p.availability
            \/ /\ q.availability = <<"replenish", p.generation + 1>>
               /\ q.generation = p.generation + 1
         /\ q.ledger = p.ledger \/ q.ledger = <<"checkpoint", Len(states)>>
    BY <1>3, <1>5, <1>6, StoreAssumption
  <1>14. Continues(q)
    BY <1>4, <1>7, <1>8, <1>9, <1>10, <1>11, <1>12, <1>13, CourseKept
  <1> QED  BY <1>6, <1>7, <1>14

(* A lock is recovered under a new authorization.                           *)
LEMMA RecoverContinues ==
    ASSUME History, NEW auth \in Auths, MayRecover(auth),
           NEW late \in BOOLEAN, NEW q, q = [Recovered(auth) EXCEPT !.late = late]
    PROVE  Continues(q) /\ SameCourse(Current, q) /\ q.used = Current.used
  <1> PICK p : p = Current  OBVIOUS
  <1>1. p \in CampaignStates /\ Sane(p) /\ Bounds(p, p) /\ Typed(p) /\ DOMAIN p = Fields
    BY HeadTyped
  <1>2. q = [p EXCEPT !.recoveryAuth = auth, !.late = late]
    BY <1>1 DEF Recovered, Fields
  <1>3. ~Consumed("recoveryAuth", auth)
    BY DEF MayRecover
  <1>4. q \in CampaignStates
    <2>1. /\ p \in CampaignStates /\ late \in BOOLEAN
          /\ auth \in {None} \cup Auths
      BY <1>1, <1>3
    <2> QED  BY <1>2, <2>1, ZenonT(60) DEF CampaignStates
  <1>5. /\ q.recoveryAuth = auth
        /\ \A f \in Fields \ {"recoveryAuth", "late"} : q[f] = p[f]
    BY <1>1, <1>2 DEF Fields
  <1>6. /\ q.status = p.status /\ q.epoch = p.epoch /\ q.reason = p.reason
        /\ q.pause = p.pause /\ q.resumeAuth = p.resumeAuth /\ q.next = p.next
        /\ q.inFlight = p.inFlight /\ q.interrupted = p.interrupted
        /\ q.champion = p.champion /\ q.sealed = p.sealed /\ q.disposition = p.disposition
        /\ q.used = p.used /\ q.acct = p.acct /\ q.limit = p.limit
        /\ q.limitAuth = p.limitAuth /\ q.fresh = p.fresh /\ q.generation = p.generation
        /\ q.availability = p.availability /\ q.replenishAuth = p.replenishAuth
        /\ q.exposure = p.exposure /\ q.ledger = p.ledger
    BY <1>5 DEF Fields
  <1>7. SameCourse(p, q)  BY <1>6 DEF SameCourse
  <1>8. ControlLawful(p, q)  BY <1>1, <1>6, ControlKept, ZenonT(30)
  <1>9. BudgetLawful(p, q)  BY <1>1, <1>6, BudgetKept, ZenonT(30)
  <1>10. HoldoutLawful(p, q)  BY <1>1, <1>6, HoldoutKept, ZenonT(30)
  <1>11. \A f \in OneUseFields : q[f] = None \/ q[f] = p[f] \/ ~Consumed(f, q[f])
    BY <1>3, <1>5, <1>6 DEF OneUseFields
  <1>12. q.inFlight # None => q.status \in {"running", "stop-requested"}
    BY <1>1, <1>3, <1>5, <1>6 DEF Sane
  <1>13. /\ p.recoveryAuth # None => q.recoveryAuth # None
         /\ \/ q.availability = p.availability
            \/ /\ q.availability = <<"replenish", p.generation + 1>>
               /\ q.generation = p.generation + 1
         /\ q.ledger = p.ledger \/ q.ledger = <<"checkpoint", Len(states)>>
    BY <1>3, <1>5, <1>6, StoreAssumption
  <1>14. Continues(q)
    BY <1>4, <1>7, <1>8, <1>9, <1>10, <1>11, <1>12, <1>13, CourseKept
  <1> QED  BY <1>6, <1>7, <1>14

(* The tokens of an experiment that is neither sealed nor archived are new. *)
LEMMA ConclusionNew ==
    ASSUME History, NEW n \in Nat, n > Current.sealed, n > Current.interrupted
    PROVE  /\ ~Consumed("availability", <<"seal", n>>) /\ ~Consumed("exposure", <<"seal", n>>)
           /\ ~Consumed("ledger", <<"seal", n>>) /\ ~Consumed("exposure", <<"exposure", n>>)
  <1>1. Current.sealed \in Nat /\ Current.interrupted \in Nat /\ Current.generation \in Nat
    BY HeadTyped DEF Typed
  <1>2. n \notin 1 .. Current.sealed /\ n \notin 1 .. Current.interrupted  BY <1>1
  <1>3. ASSUME NEW i \in DOMAIN states
        PROVE  /\ states[i].availability # <<"seal", n>> /\ states[i].exposure # <<"seal", n>>
               /\ states[i].ledger # <<"seal", n>> /\ states[i].exposure # <<"exposure", n>>
    <2>1. Bounds(states[i], Current) /\ Pointed(i)  BY DEF History
    <2>2. states[i].availability # <<"seal", n>>  BY <1>2, <2>1 DEF Bounds
    <2>3. states[i].exposure # <<"seal", n>> /\ states[i].exposure # <<"exposure", n>>
      BY <1>2, <2>1 DEF Bounds
    <2>4. states[i].ledger # <<"seal", n>>  BY <1>2, <2>1 DEF Pointed
    <2> QED  BY <2>2, <2>3, <2>4
  <1> QED  BY <1>3 DEF Consumed

(* The fields a seal writes of the experiment itself keep their types.      *)
LEMMA SealTyped ==
    ASSUME NEW p \in CampaignStates, NEW n \in Nat, NEW d \in Dispositions,
           NEW c \in Nat, NEW q,
           q = [p EXCEPT !.inFlight = None, !.sealed = n, !.disposition = d, !.champion = c]
    PROVE  q \in CampaignStates
  <1>1. None \in {None} \cup Nat /\ d \in {None} \cup Dispositions  OBVIOUS
  <1> QED  BY <1>1, ZenonT(60) DEF CampaignStates

(* A decision of the journal is sealed into the campaign.                   *)
SealsAs(q, n, d) ==
    /\ Continues(q)
    /\ q.inFlight = None /\ q.sealed = n /\ q.disposition = d /\ q.next = Current.next
    /\ d = "promoted" => q.champion = n
    /\ d # "promoted" => q.champion = Current.champion
    /\ q.interrupted = Current.interrupted /\ q.used = Current.used

(* Sealing the experiment in flight appends a lawful state with new tokens  *)
(* and changes nothing else the course is decided by.                       *)
LEMMA SealContinues ==
    ASSUME History, NEW n, n # None, NEW stage \in EvaluationStages, NEW d \in Dispositions,
           d = "promoted" => stage = "validation",
           NEW candidate, d = "promoted" => candidate = n,
           MaySeal(n, stage, d, candidate),
           NEW late \in BOOLEAN, NEW q,
           q = [Sealed(n, stage, d, candidate) EXCEPT !.late = late]
    PROVE  SealsAs(q, n, d)
  <1> PICK p : p = Current  OBVIOUS
  <1>1. p \in CampaignStates /\ Sane(p) /\ Bounds(p, p) /\ Typed(p) /\ DOMAIN p = Fields
    BY HeadTyped
  <1> PICK c : c = IF d = "promoted" THEN n ELSE p.champion  OBVIOUS
  <1> PICK f1 : f1 = IF stage = "validation" THEN p.fresh - 1 ELSE p.fresh  OBVIOUS
  <1> PICK a : a = IF stage = "validation" THEN <<"seal", n>> ELSE p.availability  OBVIOUS
  <1> PICK t : t = <<"seal", n>>  OBVIOUS
  <1>2. /\ p.inFlight = n /\ ~p.late
        /\ stage = "validation" => p.fresh > 0
    BY DEF MaySeal
  <1>3. /\ n \in Nat /\ n = p.next - 1 /\ n > p.sealed /\ n > p.interrupted
        /\ p.status \in {"running", "stop-requested"}
    BY <1>1, <1>2, StoreAssumption DEF Sane, Typed
  <1>4. /\ p.sealed \in Nat /\ p.champion \in Nat /\ p.fresh \in Nat /\ p.generation \in Nat
        /\ p.interrupted \in Nat /\ p.next \in Nat
        /\ p.champion <= p.sealed
    BY <1>1 DEF Sane, Typed
  <1>5. c \in Nat /\ f1 \in Nat /\ t \in Tokens({"genesis", "seal", "exposure"})
        /\ t \in Tokens({"genesis", "seal", "checkpoint"})
    BY <1>2, <1>3, <1>4 DEF Tokens
  <1>6. a \in Tokens({"genesis", "replenish", "seal"})
    <2>1. p.availability \in Tokens({"genesis", "replenish", "seal"})  BY <1>1 DEF CampaignStates
    <2> QED  BY <1>3, <2>1 DEF Tokens
  <1>7. q = [p EXCEPT !.inFlight = None, !.sealed = n, !.disposition = d, !.champion = c,
                      !.fresh = f1, !.availability = a, !.exposure = t, !.ledger = t,
                      !.late = late]
    <2>1. Sealed(n, stage, d, candidate) =
            [p EXCEPT !.inFlight = None, !.sealed = n, !.disposition = d, !.champion = c,
                      !.fresh = f1, !.availability = a, !.exposure = t, !.ledger = t,
                      !.late = FALSE]
      BY <1>1 DEF Sealed, Fields
    <2> QED  BY <1>1, <2>1 DEF Fields
  <1>8. /\ q.inFlight = None /\ q.sealed = n /\ q.disposition = d /\ q.champion = c
        /\ q.fresh = f1 /\ q.availability = a /\ q.exposure = t /\ q.ledger = t
        /\ q.late = late /\ DOMAIN q = Fields
        /\ \A f \in Fields \ {"inFlight", "sealed", "disposition", "champion", "fresh",
                              "availability", "exposure", "ledger", "late"} : q[f] = p[f]
    BY <1>1, <1>7, ZenonT(30) DEF Fields
  <1>9. /\ q.status = p.status /\ q.epoch = p.epoch /\ q.reason = p.reason
        /\ q.pause = p.pause /\ q.resumeAuth = p.resumeAuth /\ q.next = p.next
        /\ q.interrupted = p.interrupted /\ q.used = p.used /\ q.acct = p.acct
        /\ q.limit = p.limit /\ q.limitAuth = p.limitAuth /\ q.generation = p.generation
        /\ q.replenishAuth = p.replenishAuth /\ q.recoveryAuth = p.recoveryAuth
    BY <1>8 DEF Fields
  <1>10. q \in CampaignStates
    <2>r. PICK r : r = [p EXCEPT !.inFlight = None, !.sealed = n, !.disposition = d,
                                !.champion = c]
      OBVIOUS
    <2>2. r \in CampaignStates  BY <1>1, <1>3, <1>5, <2>r, SealTyped
    <2>3. q = [r EXCEPT !.fresh = f1, !.availability = a, !.exposure = t, !.ledger = t,
                        !.late = late]
      BY <1>7, <2>r
    <2>4. /\ f1 \in Nat /\ a \in Tokens({"genesis", "replenish", "seal"})
          /\ t \in Tokens({"genesis", "seal", "exposure"})
          /\ t \in Tokens({"genesis", "seal", "checkpoint"})
      BY <1>5, <1>6
    <2> QED  BY <2>2, <2>3, <2>4, ZenonT(60) DEF CampaignStates
  <1>11. Sane(q)  BY <1>1, <1>3, <1>4, <1>8, <1>9 DEF Sane
  <1>12. /\ ~Consumed("availability", t) /\ ~Consumed("exposure", t) /\ ~Consumed("ledger", t)
         /\ t # p.availability
    BY <1>3, ConclusionNew, HeadNotConsumed
  <1>13. \A f \in OneUseFields : q[f] = None \/ q[f] = p[f] \/ ~Consumed(f, q[f])
    <2>1. \A f \in {"resumeAuth", "pause", "limitAuth", "acct", "replenishAuth",
                    "recoveryAuth"} : q[f] = p[f]
      BY <1>9
    <2>2. \A f \in {"exposure", "ledger"} : ~Consumed(f, q[f])
      BY <1>8, <1>12
    <2>3. q["availability"] = p["availability"] \/ ~Consumed("availability", q["availability"])
      BY <1>8, <1>12
    <2> QED  BY <2>1, <2>2, <2>3 DEF OneUseFields
  <1>14. LawfulTransition(p, q)
    <2>1. ControlLawful(p, q)  BY <1>1, <1>9, ControlKept
    <2>2. NumberingLawful(p, q)
      BY <1>2, <1>3, <1>4, <1>8, <1>9, StoreAssumption DEF NumberingLawful
    <2>3. ChampionLawful(p, q)
      BY <1>3, <1>4, <1>8 DEF ChampionLawful
    <2>4. BudgetLawful(p, q)  BY <1>1, <1>9, BudgetKept
    <2>5. HoldoutLawful(p, q)
      <3>1. CASE stage = "validation"
        BY <1>2, <1>4, <1>8, <1>9, <1>12, <3>1 DEF HoldoutLawful
      <3>2. CASE stage # "validation"
        <4>1. q.fresh = p.fresh /\ q.availability = p.availability  BY <1>8, <3>2
        <4> QED  BY <1>1, <1>9, <4>1, HoldoutKept
      <3> QED  BY <3>1, <3>2
    <2>6. ReconstructionLawful(p, q)
      BY <1>2, <1>3, <1>4, <1>8, <1>9 DEF ReconstructionLawful
    <2> QED  BY <2>1, <2>2, <2>3, <2>4, <2>5, <2>6 DEF LawfulTransition
  <1>15. Bounds(q, q)
    <2>1. 1 .. p.sealed \subseteq 1 .. n /\ n \in 1 .. n  BY <1>3, <1>4
    <2>2. q.availability \in {<<"genesis", 0>>} \cup ({"replenish"} \X (1 .. q.generation))
                               \cup ({"seal"} \X (1 .. q.sealed))
      <3>1. CASE stage = "validation"  BY <1>8, <2>1, <3>1
      <3>2. CASE stage # "validation"  BY <1>1, <1>8, <1>9, <2>1, <3>2 DEF Bounds
      <3> QED  BY <3>1, <3>2
    <2>3. q.exposure \in {"seal"} \X (1 .. q.sealed)  BY <1>8, <2>1
    <2> QED  BY <1>3, <1>4, <1>8, <1>9, <2>2, <2>3 DEF Bounds
  <1>16. /\ q.ledger \in {"seal"} \X (1 .. q.sealed)
         /\ p.sealed <= q.sealed /\ p.interrupted <= q.interrupted
         /\ p.generation <= q.generation
         /\ \A m \in 1 .. q.next - 1 :
               \/ m \in {q.inFlight, q.sealed, q.interrupted}
               \/ m < p.next /\ m # p.inFlight
    <2>1. n \in 1 .. n  BY <1>3, <1>4
    <2> QED  BY <1>2, <1>3, <1>4, <1>8, <1>9, <2>1
  <1> QED  BY <1>8, <1>9, <1>10, <1>11, <1>13, <1>14, <1>15, <1>16 DEF Continues, SealsAs

(* An interrupted experiment is archived.                                   *)
ArchivesAs(q, n) ==
    /\ Continues(q)
    /\ q.inFlight = None /\ q.interrupted = n /\ q.exposure = <<"exposure", n>>
    /\ q.next = Current.next /\ q.champion = Current.champion
    /\ q.sealed = Current.sealed /\ q.disposition = Current.disposition
    /\ q.used = Current.used

(* Archiving the experiment in flight appends a lawful state with a new     *)
(* exposure token.                                                          *)
LEMMA ArchiveContinues ==
    ASSUME History, NEW n, n # None, MayArchive(n, <<"exposure", n>>),
           NEW late \in BOOLEAN, NEW q,
           q = [Archived(n, <<"exposure", n>>) EXCEPT !.late = late]
    PROVE  ArchivesAs(q, n)
  <1> PICK p : p = Current  OBVIOUS
  <1>1. p \in CampaignStates /\ Sane(p) /\ Bounds(p, p) /\ Typed(p) /\ DOMAIN p = Fields
    BY HeadTyped
  <1> PICK t : t = <<"exposure", n>>  OBVIOUS
  <1>2. p.inFlight = n /\ p.exposure # t  BY DEF MayArchive
  <1>3. /\ n \in Nat /\ n = p.next - 1 /\ n > p.sealed /\ n > p.interrupted
        /\ p.status \in {"running", "stop-requested"}
    BY <1>1, <1>2, StoreAssumption DEF Sane, Typed
  <1>4. /\ p.sealed \in Nat /\ p.champion \in Nat /\ p.fresh \in Nat /\ p.generation \in Nat
        /\ p.interrupted \in Nat /\ p.next \in Nat /\ p.champion <= p.sealed
        /\ t \in Tokens({"genesis", "seal", "exposure"})
    BY <1>1, <1>3 DEF Sane, Typed, Tokens
  <1>5. q = [p EXCEPT !.inFlight = None, !.interrupted = n, !.exposure = t, !.late = late]
    BY <1>1 DEF Archived, Fields
  <1>6. /\ q.inFlight = None /\ q.interrupted = n /\ q.exposure = t
        /\ \A f \in Fields \ {"inFlight", "interrupted", "exposure", "late"} : q[f] = p[f]
    BY <1>1, <1>5 DEF Fields
  <1>7. /\ q.status = p.status /\ q.epoch = p.epoch /\ q.reason = p.reason
        /\ q.pause = p.pause /\ q.resumeAuth = p.resumeAuth /\ q.next = p.next
        /\ q.champion = p.champion /\ q.sealed = p.sealed /\ q.disposition = p.disposition
        /\ q.used = p.used /\ q.acct = p.acct /\ q.limit = p.limit /\ q.limitAuth = p.limitAuth
        /\ q.fresh = p.fresh /\ q.generation = p.generation /\ q.availability = p.availability
        /\ q.replenishAuth = p.replenishAuth /\ q.ledger = p.ledger
        /\ q.recoveryAuth = p.recoveryAuth
    BY <1>6 DEF Fields
  <1>8. q \in CampaignStates
    <2>1. /\ p \in CampaignStates /\ late \in BOOLEAN
          /\ None \in {None} \cup Nat /\ n \in Nat
          /\ t \in Tokens({"genesis", "seal", "exposure"})
      BY <1>1, <1>3, <1>4
    <2> QED  BY <1>5, <2>1, ZenonT(60) DEF CampaignStates
  <1>9. Sane(q)  BY <1>1, <1>3, <1>4, <1>6, <1>7 DEF Sane
  <1>10. ~Consumed("exposure", t)  BY <1>3, ConclusionNew
  <1>11. \A f \in OneUseFields : q[f] = None \/ q[f] = p[f] \/ ~Consumed(f, q[f])
    BY <1>6, <1>7, <1>10 DEF OneUseFields
  <1>12. LawfulTransition(p, q)
    <2>1. ControlLawful(p, q)  BY <1>1, <1>7, ControlKept
    <2>2. NumberingLawful(p, q)
      BY <1>2, <1>3, <1>4, <1>6, <1>7, StoreAssumption DEF NumberingLawful
    <2>3. ChampionLawful(p, q)  BY <1>4, <1>7 DEF ChampionLawful
    <2>4. BudgetLawful(p, q)  BY <1>1, <1>7, BudgetKept
    <2>5. HoldoutLawful(p, q)  BY <1>1, <1>7, HoldoutKept
    <2>6. ReconstructionLawful(p, q)
      BY <1>2, <1>3, <1>4, <1>6, <1>7 DEF ReconstructionLawful
    <2> QED  BY <2>1, <2>2, <2>3, <2>4, <2>5, <2>6 DEF LawfulTransition
  <1>13. Bounds(q, q)
    <2>1. n \in 1 .. n  BY <1>3, <1>4
    <2>2. q.exposure \in {"exposure"} \X (1 .. q.interrupted)  BY <1>6, <2>1
    <2>3. q.availability \in {<<"genesis", 0>>} \cup ({"replenish"} \X (1 .. q.generation))
                               \cup ({"seal"} \X (1 .. q.sealed))
      BY <1>1, <1>7 DEF Bounds
    <2> QED  BY <1>3, <1>4, <1>6, <1>7, <2>2, <2>3 DEF Bounds
  <1>14. /\ p.sealed <= q.sealed /\ p.interrupted <= q.interrupted
         /\ p.generation <= q.generation
         /\ \A m \in 1 .. q.next - 1 :
               \/ m \in {q.inFlight, q.sealed, q.interrupted}
               \/ m < p.next /\ m # p.inFlight
    BY <1>2, <1>3, <1>4, <1>6, <1>7
  <1> QED  BY <1>6, <1>7, <1>8, <1>9, <1>11, <1>12, <1>13, <1>14 DEF Continues, ArchivesAs

----------------------------------------------------------------------------
(* Campaign and journal together.                                           *)

(* An experiment in flight that the journal knows is its last record.       *)
LEMMA LastRecord ==
    ASSUME Core
    PROVE  /\ records \in Seq(JournalRecords) /\ Len(records) \in Nat
           /\ DOMAIN records = 1 .. Len(records)
           /\ \A n \in DOMAIN records : records[n] \in JournalRecords /\ records[n].spent \in Nat
           /\ Current.inFlight # None =>
                 /\ Current.inFlight \in Nat \ {0} /\ Current.inFlight \in Numbers
                 /\ Opened(Current.inFlight) => Current.inFlight = Len(records)
                 /\ Current.inFlight > Current.sealed /\ Current.inFlight > Current.interrupted
  <1>1. records \in Seq(JournalRecords) /\ Len(records) < Current.next  BY DEF Core, Journal
  <1>2. /\ Len(records) \in Nat /\ DOMAIN records = 1 .. Len(records)
        /\ \A n \in DOMAIN records : records[n] \in JournalRecords
    BY <1>1, LenProperties, ElementOfSeq
  <1>3. \A n \in DOMAIN records : records[n].spent \in Nat  BY <1>2 DEF JournalRecords
  <1>4. Current.next \in Nat /\ Sane(Current)  BY HeadTyped DEF Core, Typed
  <1>5. ASSUME Current.inFlight # None
        PROVE  /\ Current.inFlight \in Nat \ {0} /\ Current.inFlight \in Numbers
               /\ Opened(Current.inFlight) => Current.inFlight = Len(records)
               /\ Current.inFlight > Current.sealed /\ Current.inFlight > Current.interrupted
    <2>1. Current.inFlight \in Numbers /\ Current.inFlight = Current.next - 1
      BY <1>4, <1>5 DEF Sane
    <2>2. Current.inFlight \in Nat \ {0}  BY <2>1, PortsAssumption DEF Numbers
    <2> QED  BY <1>1, <1>2, <1>4, <1>5, <2>1, <2>2 DEF Opened, Sane
  <1> QED  BY <1>1, <1>2, <1>3, <1>5

(* A step that writes neither the campaign nor the journal keeps both.      *)
LEMMA CoreQuiet ==
    ASSUME Core, UNCHANGED <<states, records>>
    PROVE  Core'
  BY DEF Core, History, Pointed, Ended, AllocatedAt, Current, Journal, Recorded,
         RecordsAgree, IsSealed, Opened, ChampionNow, SpendNotLost

(* What an appended state q leaves to be shown.                             *)
LEMMA CoreGrows ==
    ASSUME Core, NEW q, Continues(q), states' = Append(states, q), records' = records,
           q.sealed > 0 => /\ IsSealed(q.sealed)
                           /\ records[q.sealed].disposition = q.disposition,
           q.interrupted > 0 => ~IsSealed(q.interrupted),
           IF q.inFlight # None /\ Opened(q.inFlight)
              /\ records[q.inFlight].disposition = "promoted"
           THEN q.champion = records[q.inFlight].before
           ELSE q.champion = ChampionNow,
           \A n \in DOMAIN records : q.inFlight # n => q.used >= records[n].spent
    PROVE  Core' /\ Current' = q
  <1>1. History'  BY HistoryGrows DEF Core
  <1>2. q \in CampaignStates  BY DEF Continues
  <1>3. /\ DOMAIN states' = 1 .. Len(states) + 1 /\ DOMAIN states = 1 .. Len(states)
        /\ \A i \in DOMAIN states : states'[i] = states[i]
        /\ states'[Len(states) + 1] = q /\ Current' = q /\ Len(states) \in Nat
    BY <1>2, Grown DEF Core, History, Current
  <1>4. Journal'
    <2>1. Current.next \in Nat /\ q.next \in Nat
      BY <1>2, HeadTyped, FieldsTyped DEF Core, Typed
    <2>2. q.next >= Current.next  BY <2>1 DEF Continues, LawfulTransition, NumberingLawful
    <2>3. Len(records) < q.next  BY <2>1, <2>2, LastRecord DEF Core, Journal
    <2> QED  BY <1>3, <2>3 DEF Core, Journal, Recorded
  <1>5. ASSUME NEW i \in DOMAIN states'
        PROVE  /\ states'[i].sealed > 0 =>
                     /\ IsSealed(states'[i].sealed)
                     /\ records[states'[i].sealed].disposition = states'[i].disposition
               /\ states'[i].interrupted > 0 => ~IsSealed(states'[i].interrupted)
    <2>1. CASE i \in DOMAIN states
      BY <1>3, <2>1 DEF Core, RecordsAgree
    <2>2. CASE i = Len(states) + 1
      BY <1>3, <2>2
    <2> QED  BY <1>3, <2>1, <2>2
  <1>6. RecordsAgree'
    BY <1>3, <1>5 DEF RecordsAgree, IsSealed, Opened, ChampionNow
  <1>7. SpendNotLost'
    BY <1>3 DEF SpendNotLost
  <1> QED  BY <1>1, <1>3, <1>4, <1>6, <1>7 DEF Core

(* The experiments go on as they are, usage may grow.                       *)
LEMMA CoreKept ==
    ASSUME Core, NEW q, Continues(q), states' = Append(states, q), records' = records,
           SameCourse(Current, q)
    PROVE  Core' /\ Current' = q
  <1>1. Len(states) \in DOMAIN states /\ Current.used \in Nat
    BY HeadTyped DEF Core, Typed
  <1>2. q.used \in Nat /\ q.used >= Current.used
    BY FieldsTyped DEF Continues, LawfulTransition, BudgetLawful, Typed
  <1>3. /\ Current.sealed > 0 => /\ IsSealed(Current.sealed)
                                 /\ records[Current.sealed].disposition = Current.disposition
        /\ Current.interrupted > 0 => ~IsSealed(Current.interrupted)
    BY <1>1 DEF Core, RecordsAgree, Current
  <1>4. IF Current.inFlight # None /\ Opened(Current.inFlight)
           /\ records[Current.inFlight].disposition = "promoted"
        THEN Current.champion = records[Current.inFlight].before
        ELSE Current.champion = ChampionNow
    BY DEF Core, RecordsAgree
  <1>5. ASSUME NEW n \in DOMAIN records, q.inFlight # n
        PROVE  q.used >= records[n].spent
    <2>1. records[n].spent \in Nat  BY LastRecord
    <2> QED  BY <1>1, <1>2, <1>5, <2>1 DEF Core, SpendNotLost, SameCourse
  <1> QED  BY <1>3, <1>4, <1>5, CoreGrows DEF SameCourse

(* Allocating an experiment keeps campaign and journal in agreement: the    *)
(* journal does not know it yet.                                            *)
LEMMA CoreAllocated ==
    ASSUME Core, NEW q, Continues(q), states' = Append(states, q), records' = records,
           Current.inFlight = None, q.inFlight = Current.next,
           q.interrupted = Current.interrupted, q.champion = Current.champion,
           q.sealed = Current.sealed, q.disposition = Current.disposition,
           q.used = Current.used
    PROVE  Core' /\ Current' = q
  <1>1. Len(states) \in DOMAIN states /\ Current.next \in Nat
    BY HeadTyped DEF Core, Typed
  <1>2. /\ Current.sealed > 0 => /\ IsSealed(Current.sealed)
                                 /\ records[Current.sealed].disposition = Current.disposition
        /\ Current.interrupted > 0 => ~IsSealed(Current.interrupted)
    BY <1>1 DEF Core, RecordsAgree, Current
  <1>3. Current.champion = ChampionNow  BY DEF Core, RecordsAgree
  <1>4. ~Opened(Current.next)  BY <1>1, LastRecord DEF Core, Journal, Opened
  <1>5. \A n \in DOMAIN records : n \in Nat /\ Current.used >= records[n].spent
    BY LastRecord, StoreAssumption DEF Core, SpendNotLost
  <1> QED  BY <1>2, <1>3, <1>4, <1>5, CoreGrows

(* Sealing in the campaign what the journal sealed, with its spend charged, *)
(* keeps the two in agreement.                                              *)
LEMMA CoreSealed ==
    ASSUME Core, NEW q, Continues(q), states' = Append(states, q), records' = records,
           NEW n, n # None, Current.inFlight = n, IsSealed(n),
           records[n].spent = Current.used,
           q.inFlight = None, q.interrupted = Current.interrupted, q.used = Current.used,
           q.sealed = n, q.disposition = records[n].disposition,
           records[n].disposition = "promoted" => q.champion = n,
           records[n].disposition # "promoted" => q.champion = Current.champion
    PROVE  Core' /\ Current' = q
  <1>1. /\ n = Len(records) /\ n \in Nat \ {0} /\ records # <<>> /\ n \in DOMAIN records
        /\ Recorded(n)
    <2>1. n = Len(records) /\ n \in Nat \ {0} /\ n \in DOMAIN records
      BY LastRecord DEF IsSealed, Opened
    <2> QED  BY <2>1 DEF Core, Journal
  <1>2. Current.interrupted > 0 => ~IsSealed(Current.interrupted)
    BY HeadTyped DEF Core, RecordsAgree, Current
  <1>3. q.champion = ChampionNow
    <2>1. ChampionNow = records[n].after  BY <1>1 DEF ChampionNow
    <2>2. CASE records[n].disposition = "promoted"
      BY <1>1, <2>1, <2>2 DEF Recorded
    <2>3. CASE records[n].disposition # "promoted"
      BY <2>3 DEF Core, RecordsAgree
    <2> QED  BY <2>2, <2>3
  <1>4. ASSUME NEW m \in DOMAIN records
        PROVE  q.used >= records[m].spent
    <2>1. Current.used \in Nat  BY HeadTyped DEF Core, Typed
    <2> QED  BY <2>1 DEF Core, SpendNotLost
  <1> QED  BY <1>1, <1>2, <1>3, <1>4, CoreGrows

(* Archiving an experiment the journal opened and did not seal, with its    *)
(* spend charged, keeps the two in agreement.                               *)
LEMMA CoreArchived ==
    ASSUME Core, NEW q, Continues(q), states' = Append(states, q), records' = records,
           NEW n, n # None, Current.inFlight = n, InterruptionAccountable(n),
           records[n].spent <= Current.used,
           q.inFlight = None, q.interrupted = n, q.used = Current.used,
           q.sealed = Current.sealed, q.disposition = Current.disposition,
           q.champion = Current.champion
    PROVE  Core' /\ Current' = q
  <1>1. ~IsSealed(n) /\ n \in DOMAIN records /\ Recorded(n)
    BY DEF InterruptionAccountable, Opened, Core, Journal
  <1>2. Current.sealed > 0 => /\ IsSealed(Current.sealed)
                              /\ records[Current.sealed].disposition = Current.disposition
    BY HeadTyped DEF Core, RecordsAgree, Current
  <1>3. Current.champion = ChampionNow
    BY <1>1 DEF Core, RecordsAgree, Recorded, IsSealed, Opened
  <1>4. ASSUME NEW m \in DOMAIN records
        PROVE  q.used >= records[m].spent
    <2>1. Current.used \in Nat /\ records[m].spent \in Nat
      BY HeadTyped, LastRecord DEF Core, Typed
    <2> QED  BY <2>1 DEF Core, SpendNotLost
  <1> QED  BY <1>1, <1>2, <1>3, <1>4, CoreGrows

(* The runner works on the experiment in flight: every other record, and    *)
(* with it all that is sealed or archived, stays.                           *)
LEMMA CoreCreated ==
    ASSUME Core, states' = states, NEW n, n # None, Current.inFlight = n,
           NEW used \in Nat, CreateRecord(n, Current.champion, used)
    PROVE  Core'
  <1>c. PICK c : c = Current.champion  OBVIOUS
  <1>r. PICK r : r = [ status |-> "active", before |-> c, after |-> c, spent |-> used,
                     stage |-> "none", disposition |-> "none" ]
    OBVIOUS
  <1>1. /\ n = Len(records) + 1 /\ c = ChampionNow /\ records' = Append(records, r)
        /\ c \in Nat
    BY <1>c, <1>r, HeadTyped DEF CreateRecord, MayCreate, Core, Typed
  <1>2. /\ r \in JournalRecords /\ r.status = "active" /\ r.before = c /\ r.after = c
        /\ r.spent = used /\ r.stage = "none" /\ r.disposition = "none"
    BY <1>r, <1>1 DEF JournalRecords
  <1>3. /\ records \in Seq(JournalRecords) /\ Len(records) \in Nat
        /\ DOMAIN records = 1 .. Len(records)
        /\ n \in Nat \ {0} /\ n > Current.sealed /\ n > Current.interrupted
    BY LastRecord
  <1>4. /\ records' \in Seq(JournalRecords) /\ Len(records') = n
        /\ DOMAIN records' = 1 .. n /\ records'[n] = r /\ records' # <<>>
        /\ \A m \in DOMAIN records : records'[m] = records[m] /\ m \in DOMAIN records'
    <2>1. /\ records' \in Seq(JournalRecords) /\ Len(records') = Len(records) + 1
          /\ records'[Len(records) + 1] = r
          /\ \A m \in 1 .. Len(records) : records'[m] = records[m]
      BY <1>1, <1>2, <1>3, AppendProperties
    <2>2. DOMAIN records' = 1 .. n  BY <1>1, <2>1, LenProperties
    <2>3. records' # <<>>  BY <1>3, <2>2
    <2>4. 1 .. Len(records) \subseteq 1 .. n  BY <1>1, <1>3
    <2> QED  BY <1>1, <1>3, <2>1, <2>2, <2>3, <2>4
  <1>5. ASSUME NEW m, m # n
        PROVE  Opened(m)' = Opened(m) /\ IsSealed(m)' = IsSealed(m)
    BY <1>1, <1>3, <1>4, <1>5 DEF Opened, IsSealed
  <1>6. /\ Current' = Current /\ DOMAIN states' = DOMAIN states /\ History'
        /\ Current.next \in Nat /\ n = Current.next - 1
    BY HeadTyped, <1>3, StoreAssumption
       DEF Core, History, Pointed, Ended, AllocatedAt, Current, Typed, Sane
  <1>7. Journal'
    <2>1. ASSUME NEW m \in DOMAIN records'
          PROVE  Recorded(m)'
      <3>1. CASE m = n  BY <1>2, <1>4, <3>1 DEF Recorded
      <3>2. CASE m # n
        <4>1. m \in DOMAIN records  BY <1>1, <1>3, <1>4, <3>2
        <4> QED  BY <1>4, <4>1 DEF Recorded, Core, Journal
      <3> QED  BY <3>1, <3>2
    <2> QED  BY <1>4, <1>6, <2>1 DEF Journal
  <1>8. RecordsAgree'
    <2>1. ASSUME NEW i \in DOMAIN states
          PROVE  LET s == states[i] IN
                 /\ s.sealed > 0 => /\ IsSealed(s.sealed)'
                                    /\ records'[s.sealed].disposition = s.disposition
                 /\ s.interrupted > 0 => ~IsSealed(s.interrupted)'
      <3> PICK s : s = states[i]  OBVIOUS
      <3>1. /\ s.sealed > 0 => IsSealed(s.sealed) /\ records[s.sealed].disposition = s.disposition
            /\ s.interrupted > 0 => ~IsSealed(s.interrupted)
        BY DEF Core, RecordsAgree
      <3>2. s.sealed # n /\ s.interrupted # n
        <4>1. s.sealed <= Current.sealed /\ s.interrupted <= Current.interrupted
          BY DEF Core, History, Bounds
        <4>2. /\ s.sealed \in Nat /\ s.interrupted \in Nat
              /\ Current.sealed \in Nat /\ Current.interrupted \in Nat
          BY HeadTyped, CountersTyped DEF Core
        <4> QED  BY <1>3, <4>1, <4>2
      <3>3. s.sealed > 0 => records'[s.sealed] = records[s.sealed]
        BY <1>4, <3>1 DEF IsSealed, Opened
      <3> QED  BY <1>5, <3>1, <3>2, <3>3
    <2>2. Current'.champion = records'[n].before /\ ChampionNow' = Current'.champion
      BY <1>c, <1>2, <1>4, <1>6 DEF ChampionNow
    <2> QED  BY <1>2, <1>4, <1>6, <2>1, <2>2 DEF RecordsAgree
  <1>9. SpendNotLost'
    <2>1. ASSUME NEW m \in DOMAIN records', Current'.inFlight # m
          PROVE  Current'.used >= records'[m].spent
      <3>1. m \in DOMAIN records  BY <1>1, <1>3, <1>4, <1>6, <2>1
      <3> QED  BY <1>4, <1>6, <2>1, <3>1 DEF Core, SpendNotLost
    <2> QED  BY <2>1 DEF SpendNotLost
  <1> QED  BY <1>6, <1>7, <1>8, <1>9 DEF Core

(* An open record is followed by r.                                         *)
LEMMA CoreRecorded ==
    ASSUME Core, states' = states, NEW n, n # None, Current.inFlight = n, IsOpen(n),
           NEW r \in JournalRecords, records' = [records EXCEPT ![n] = r],
           r.before = records[n].before,
           r.status = "sealed" => r.stage # "none" /\ r.disposition # "none",
           r.status # "sealed" => r.disposition = "none",
           r.disposition = "promoted" => r.stage = "validation",
           r.after = IF r.disposition = "promoted" THEN n ELSE r.before
    PROVE  Core'
  <1>1. /\ records \in Seq(JournalRecords) /\ Len(records) \in Nat
        /\ DOMAIN records = 1 .. Len(records) /\ n = Len(records) /\ n \in DOMAIN records
        /\ n \in Nat \ {0} /\ n > Current.sealed /\ n > Current.interrupted
    BY LastRecord DEF IsOpen, Opened
  <1>2. /\ records' \in Seq(JournalRecords) /\ Len(records') = Len(records)
        /\ DOMAIN records' = DOMAIN records /\ records'[n] = r /\ records' # <<>>
        /\ records # <<>>
        /\ \A m \in DOMAIN records : m # n => records'[m] = records[m]
    BY <1>1, ExceptSeq
  <1>3. ASSUME NEW m
        PROVE  Opened(m)' = Opened(m) /\ (m # n => IsSealed(m)' = IsSealed(m))
    BY <1>2 DEF Opened, IsSealed
  <1>4. Current' = Current /\ DOMAIN states' = DOMAIN states /\ History'
    BY HeadTyped DEF Core, History, Pointed, Ended, AllocatedAt, Current
  <1>5. Journal'
    <2>1. ASSUME NEW m \in DOMAIN records'
          PROVE  Recorded(m)'
      <3>1. CASE m = n  BY <1>2, <3>1 DEF Recorded
      <3>2. CASE m # n  BY <1>2, <3>2 DEF Recorded, Core, Journal
      <3> QED  BY <3>1, <3>2
    <2> QED  BY <1>2, <1>4, <2>1 DEF Core, Journal
  <1>6. RecordsAgree'
    <2>1. ASSUME NEW i \in DOMAIN states
          PROVE  LET s == states[i] IN
                 /\ s.sealed > 0 => /\ IsSealed(s.sealed)'
                                    /\ records'[s.sealed].disposition = s.disposition
                 /\ s.interrupted > 0 => ~IsSealed(s.interrupted)'
      <3> PICK s : s = states[i]  OBVIOUS
      <3>1. /\ s.sealed > 0 => IsSealed(s.sealed) /\ records[s.sealed].disposition = s.disposition
            /\ s.interrupted > 0 => ~IsSealed(s.interrupted)
        BY DEF Core, RecordsAgree
      <3>2. s.sealed # n /\ s.interrupted # n
        <4>1. s.sealed <= Current.sealed /\ s.interrupted <= Current.interrupted
          BY DEF Core, History, Bounds
        <4>2. /\ s.sealed \in Nat /\ s.interrupted \in Nat
              /\ Current.sealed \in Nat /\ Current.interrupted \in Nat
          BY HeadTyped, CountersTyped DEF Core
        <4> QED  BY <1>1, <4>1, <4>2
      <3>3. s.sealed > 0 => records'[s.sealed] = records[s.sealed]
        BY <1>2, <3>1, <3>2 DEF IsSealed, Opened
      <3> QED  BY <1>3, <3>1, <3>2, <3>3
    <2>2. records[n].disposition = "none" /\ records[n].after = records[n].before
      BY <1>1 DEF IsOpen, Core, Journal, Recorded
    <2>3. Current.champion = records[n].before
      <3>1. ChampionNow = records[n].after  BY <1>1, <1>2 DEF ChampionNow
      <3> QED  BY <2>2, <3>1 DEF Core, RecordsAgree
    <2>4. ChampionNow' = r.after  BY <1>1, <1>2 DEF ChampionNow
    <2>5. IF Current'.inFlight # None /\ Opened(Current.inFlight)'
             /\ records'[Current'.inFlight].disposition = "promoted"
          THEN Current'.champion = records'[Current'.inFlight].before
          ELSE Current'.champion = ChampionNow'
      <3>1. Current'.inFlight = n /\ Current'.champion = Current.champion /\ Opened(n)'
        BY <1>1, <1>2, <1>4 DEF Opened
      <3>2. CASE r.disposition = "promoted"  BY <1>2, <2>3, <3>1, <3>2
      <3>3. CASE r.disposition # "promoted"  BY <1>2, <2>3, <2>4, <3>1, <3>3
      <3> QED  BY <3>2, <3>3
    <2> QED  BY <1>4, <2>1, <2>5 DEF RecordsAgree, Opened, IsSealed, ChampionNow
  <1>7. SpendNotLost'
    BY <1>2, <1>4 DEF Core, SpendNotLost
  <1> QED  BY <1>4, <1>5, <1>6, <1>7 DEF Core

----------------------------------------------------------------------------
(* The process.                                                             *)

(* The state the process holds is a state of the history and agrees with    *)
(* the head on the course of the experiments.                               *)
LEMMA HeldHead ==
    ASSUME Core, Held
    PROVE  /\ cur \in DOMAIN states /\ cur \in Nat \ {0} /\ cur <= Len(states)
           /\ Len(states) \in Nat
           /\ State \in CampaignStates /\ Typed(State) /\ AsHeld(State, Current)
  <1>1. DOMAIN states = 1 .. Len(states) /\ Len(states) \in Nat
        /\ \A i \in DOMAIN states : states[i] \in CampaignStates
    BY HeadTyped DEF Core
  <1>2. cur \in 1 .. Len(states) /\ cur \in cur .. Len(states)  BY <1>1 DEF Held
  <1> QED  BY <1>1, <1>2, FieldsTyped DEF Held, State

(* The interruption that waits, if one does.                                *)
LEMMA Pending ==
    ASSUME Ports
    PROVE  /\ ActiveInterruptions = {} <=> FindPending = None
           /\ ActiveInterruptions # {} =>
                 /\ FindPending \in ActiveInterruptions /\ ActiveInterruptions = {FindPending}
                 /\ FindPending \in Numbers /\ interruptions[FindPending] # None
                 /\ interruptions[FindPending] \in Interruptions
                 /\ interruptions[FindPending].final = None
  <1>1. ActiveInterruptions # {} => FindPending \in ActiveInterruptions
    BY DEF FindPending
  <1>2. \A n \in ActiveInterruptions : n \in Numbers /\ n # None
    BY StoreAssumption DEF ActiveInterruptions, Numbers
  <1>3. \A m, n \in ActiveInterruptions : m = n  BY DEF Ports
  <1>4. ActiveInterruptions = {} => FindPending = None  BY DEF FindPending
  <1>5. \A n \in ActiveInterruptions : /\ interruptions[n] # None
                                       /\ interruptions[n] \in Interruptions
                                       /\ interruptions[n].final = None
    BY DEF ActiveInterruptions, Ports
  <1> QED  BY <1>1, <1>2, <1>3, <1>4, <1>5

(* Reading the head, or nothing, keeps what is held true of the head.       *)
LEMMA HeldStays ==
    ASSUME Core, Held, states' = states, cur' = cur \/ cur' = Len(states)
    PROVE  Held'
  <1>1. Len(states) \in Nat \ {0}  BY HeadTyped DEF Core
  <1>2. cur' \in 1 .. Len(states)  BY <1>1, HeldHead DEF Held
  <1>3. ASSUME NEW i \in cur' .. Len(states)
        PROVE  AsHeld(states[i], Current)
    <2>1. CASE cur' = cur  BY <1>3, <2>1 DEF Held
    <2>2. CASE cur' = Len(states)
      <3>1. i = Len(states)  BY <1>1, <1>3, <2>2
      <3> QED  BY <3>1 DEF AsHeld, Current
    <2> QED  BY <2>1, <2>2
  <1>4. Current' = Current  BY DEF Current
  <1> QED  BY <1>2, <1>3, <1>4 DEF Held, AsHeld

(* So does appending a state, by the process or with the course kept.       *)
LEMMA HeldGrows ==
    ASSUME Core, Held, NEW q \in CampaignStates, states' = Append(states, q),
           \/ cur' = Len(states) + 1
           \/ cur' = cur /\ AsHeld(Current, q)
    PROVE  Held' /\ cur \in DOMAIN states'
  <1>1. /\ Len(states') = Len(states) + 1 /\ Len(states) \in Nat \ {0}
        /\ DOMAIN states = 1 .. Len(states) /\ DOMAIN states' = 1 .. Len(states) + 1
        /\ \A i \in DOMAIN states : states'[i] = states[i]
        /\ states'[Len(states) + 1] = q /\ Current' = q
    BY Grown DEF Core, History, Current
  <1>2. cur \in 1 .. Len(states)  BY DEF Held
  <1>3. ASSUME NEW i \in cur' .. Len(states')
        PROVE  AsHeld(states'[i], q)
    <2>1. CASE i = Len(states) + 1  BY <1>1, <2>1 DEF AsHeld
    <2>2. CASE i # Len(states) + 1
      <3>1. cur' = cur /\ i \in cur .. Len(states) /\ i \in DOMAIN states
        BY <1>1, <1>2, <1>3, <2>2
      <3>2. AsHeld(states[i], Current) /\ AsHeld(Current, q)
        BY <1>1, <1>2, <2>2, <3>1 DEF Held
      <3> QED  BY <1>1, <3>1, <3>2 DEF AsHeld
    <2> QED  BY <2>1, <2>2
  <1>4. cur' \in 1 .. Len(states')  BY <1>1, <1>2
  <1> QED  BY <1>1, <1>2, <1>3, <1>4 DEF Held

(* The ports depend on the interruptions and on the length of the history   *)
(* only.                                                                    *)
LEMMA PortsStay ==
    ASSUME Ports, interruptions' = interruptions, DOMAIN states \subseteq DOMAIN states'
    PROVE  Ports' /\ ActiveInterruptions' = ActiveInterruptions /\ FindPending' = FindPending
  <1>1. ActiveInterruptions' = ActiveInterruptions  BY DEF ActiveInterruptions
  <1> QED  BY <1>1 DEF Ports, FindPending

(* What holds at a place still holds when others have written.              *)
LEMMA StaysAt ==
    ASSUME Core, Held, Ports, NEW label, At(label),
           cur' = cur, interruptions' = interruptions, records' = records,
           \A i \in DOMAIN states : states'[i] = states[i] /\ i \in DOMAIN states'
    PROVE  At(label)'
  <1>1. cur \in DOMAIN states /\ 2 .. cur \subseteq DOMAIN states
        /\ \A i \in 2 .. cur : i - 1 \in DOMAIN states
    <2>1. cur \in Nat \ {0} /\ cur <= Len(states) /\ Len(states) \in Nat
          /\ DOMAIN states = 1 .. Len(states) /\ cur \in DOMAIN states
      BY HeldHead, HeadTyped DEF Core
    <2> QED  BY <2>1
  <1>2. State' = State  BY <1>1 DEF State
  <1>3. ActiveInterruptions' = ActiveInterruptions /\ FindPending' = FindPending
    BY PortsStay
  <1>4. \A i \in 2 .. cur : ArchivedIn(i, FindPending)' <=> ArchivedIn(i, FindPending)
    BY <1>1, <1>3 DEF ArchivedIn
  <1> QED
    BY <1>2, <1>3, <1>4 DEF At, IsSealed, Opened, InterruptionAccountable

(* A step that writes neither campaign nor journal.                         *)
LEMMA QuietStep ==
    ASSUME Inductive, UNCHANGED <<states, records>>, cur' = cur \/ cur' = Len(states),
           Ports', At(pc)', lock' \in {"free", "abandoned"},
           faults' \in 0 .. MaxFaults, ops' \in 0 .. MaxOps
    PROVE  Inductive'
  BY CoreQuiet, HeldStays DEF Inductive, Place

(* The records of the interruptions.                                        *)
LEMMA Begun ==
    ASSUME Ports, ActiveInterruptions = {}, NEW n \in Numbers, NEW class \in FailureClasses,
           MayBegin(n, class), Begin(n, class), states' = states
    PROVE  Ports' /\ ActiveInterruptions' # {}
  <1>r. PICK r : r = [class |-> class, control |-> None, archive |-> None, final |-> None]
    OBVIOUS
  <1>1. r \in Interruptions /\ r.final = None /\ r.archive = None /\ r # None
    BY <1>r, PortsAssumption DEF Interruptions
  <1>2. interruptions' = [interruptions EXCEPT ![n] = r]
    BY <1>r DEF MayBegin, Begin
  <1>3. /\ interruptions' \in [Numbers -> {None} \cup Interruptions]
        /\ interruptions'[n] = r
        /\ \A m \in Numbers : m # n => interruptions'[m] = interruptions[m]
    BY <1>1, <1>2 DEF Ports
  <1>4. ActiveInterruptions' = {n}
    BY <1>1, <1>3 DEF ActiveInterruptions
  <1> QED  BY <1>1, <1>3, <1>4 DEF Ports

(* Preparing a control keeps the ports and what waits.                      *)
LEMMA Prepared ==
    ASSUME Ports, NEW n \in ActiveInterruptions, NEW archive \in DOMAIN states,
           archive \in Nat, Prepare(n, archive), states' = states
    PROVE  Ports' /\ ActiveInterruptions' = ActiveInterruptions
  <1>e. PICK e : e = interruptions[n]  OBVIOUS
  <1>1. e \in Interruptions /\ e.final = None /\ n \in Numbers
    BY <1>e DEF ActiveInterruptions, Ports
  <1>c. PICK c : c = ControlOf(interruptions[n].class)  OBVIOUS
  <1>r. PICK r : r = [e EXCEPT !.control = c, !.archive = archive]  OBVIOUS
  <1>2. c \in {None, "stop", "pause"}  BY <1>c DEF ControlOf
  <1>3. /\ r \in Interruptions /\ r.final = None /\ r.archive = archive /\ r # None
    BY <1>1, <1>2, <1>r, PortsAssumption DEF Interruptions
  <1>4. interruptions' = [interruptions EXCEPT ![n] = r]
    BY <1>1, <1>e, <1>c, <1>r DEF Prepare, Ports
  <1>5. /\ interruptions' \in [Numbers -> {None} \cup Interruptions]
        /\ interruptions'[n] = r
        /\ \A m \in Numbers : m # n => interruptions'[m] = interruptions[m]
    BY <1>1, <1>3, <1>4 DEF Ports
  <1>6. ActiveInterruptions' = ActiveInterruptions
    BY <1>1, <1>3, <1>5 DEF ActiveInterruptions
  <1> QED  BY <1>3, <1>5, <1>6 DEF Ports

(* Marking an interruption as applied keeps the ports.                      *)
LEMMA Marked ==
    ASSUME Ports, NEW n \in ActiveInterruptions, NEW final \in DOMAIN states,
           final \in Nat, Mark(n, final), states' = states
    PROVE  Ports'
  <1>e. PICK e : e = interruptions[n]  OBVIOUS
  <1>1. e \in Interruptions /\ n \in Numbers /\ e # None
        /\ e.archive \in {None} \cup DOMAIN states
    BY <1>e DEF ActiveInterruptions, Ports
  <1>r. PICK r : r = [e EXCEPT !.final = final]  OBVIOUS
  <1>2. r \in Interruptions /\ r.final = final /\ r.archive = e.archive
    BY <1>1, <1>r DEF Interruptions
  <1>3. interruptions' = [interruptions EXCEPT ![n] = r]
    BY <1>1, <1>e, <1>r DEF Mark, Ports
  <1>4. /\ interruptions' \in [Numbers -> {None} \cup Interruptions]
        /\ interruptions'[n] = r
        /\ \A m \in Numbers : m # n => interruptions'[m] = interruptions[m]
    BY <1>1, <1>2, <1>3 DEF Ports
  <1>5. ActiveInterruptions' \subseteq ActiveInterruptions
    BY <1>2, <1>4, StoreAssumption DEF ActiveInterruptions
  <1> QED  BY <1>1, <1>2, <1>4, <1>5 DEF Ports

(* The actions that write neither campaign nor journal.                     *)
LEMMA LoadInductive ==
    ASSUME Inductive, Load
    PROVE  Inductive'
  <1>1. /\ pc' = Recovery(Current) /\ cur' = Len(states)
        /\ UNCHANGED <<states, lock, interruptions, records, faults, ops>>
    BY DEF Load, Goto
  <1>2. Ports' /\ ActiveInterruptions' = ActiveInterruptions
    BY <1>1, PortsStay DEF Inductive
  <1>3. State' = Current /\ Sane(Current) /\ Typed(Current)
    BY <1>1, HeadTyped DEF State, Current, Inductive, Core
  <1>4. At(pc)'
    <2>1. CASE ActiveInterruptions # {}
      <3>1. pc' = "apply"  BY <1>1, <2>1, Pending DEF Recovery, Inductive
      <3> QED  BY <1>2, <2>1, <3>1 DEF At, Undisturbed, Applying, InFlight
    <2>2. CASE ActiveInterruptions = {}
      <3>1. pc' = IF Current.status # "stop-requested" THEN LoopOn(Current)
                  ELSE IF Current.inFlight = None THEN "idleAck" ELSE "begin"
        BY <1>1, <2>2, Pending DEF Recovery, Inductive
      <3>2. CASE pc' = "claim"
        <4>1. Current.inFlight # None \/ Current.next \in Numbers
          BY <1>3, <3>1, <3>2, PortsAssumption DEF LoopOn, Numbers, Sane, Typed
        <4> QED  BY <1>2, <1>3, <2>2, <3>2, <4>1 DEF At, Undisturbed, Applying, InFlight
      <3>3. CASE pc' = "begin"
        <4>1. Current.inFlight # None  BY <3>1, <3>3 DEF LoopOn
        <4> QED  BY <1>2, <1>3, <2>2, <3>3, <4>1 DEF At, Undisturbed, Applying, InFlight
      <3>4. CASE pc' \in {"down", "idleAck"}
        BY <1>2, <1>3, <2>2, <3>4 DEF At, Undisturbed, Applying, InFlight
      <3> QED  BY <3>1, <3>2, <3>3, <3>4 DEF LoopOn
    <2> QED  BY <2>1, <2>2
  <1> QED  BY <1>1, <1>2, <1>4, QuietStep DEF Inductive, Place

(* Beginning the interruption of an operator's stop keeps the invariant:    *)
(* none waits at this place.                                                *)
LEMMA BeginOperatorStopInductive ==
    ASSUME Inductive, BeginOperatorStop
    PROVE  Inductive'
  <1>1. /\ UNCHANGED <<states, lock, records, cur, faults, ops>> /\ pc = "begin"
        /\ \/ /\ MayBegin(State.inFlight, "operator-stop")
              /\ Begin(State.inFlight, "operator-stop") /\ pc' = "apply"
           \/ interruptions' = interruptions /\ pc' = "down"
    BY DEF BeginOperatorStop, Goto
  <1>2. ActiveInterruptions = {} /\ State.inFlight # None
    BY <1>1 DEF Inductive, Place, At, Undisturbed, InFlight
  <1>3. State.inFlight \in Numbers
    BY <1>2, HeldHead, LastRecord DEF Inductive, AsHeld
  <1>4. CASE pc' = "apply"
    <2>1. Ports' /\ ActiveInterruptions' # {}
      BY <1>1, <1>2, <1>3, <1>4, Begun DEF FailureClasses, Inductive
    <2>2. At(pc)'  BY <1>4, <2>1 DEF At, Undisturbed, Applying, InFlight
    <2> QED  BY <1>1, <2>1, <2>2, QuietStep DEF Inductive, Place
  <1>5. CASE interruptions' = interruptions /\ pc' = "down"
    <2>1. Ports'  BY <1>1, <1>5, PortsStay DEF Inductive
    <2>2. At(pc)'  BY <1>5 DEF At, Undisturbed, Applying, InFlight
    <2> QED  BY <1>1, <2>1, <2>2, QuietStep DEF Inductive, Place
  <1> QED  BY <1>1, <1>4, <1>5

(* Checking the path of the claimed experiment keeps the invariant.         *)
LEMMA ResolveInductive ==
    ASSUME Inductive, Resolve
    PROVE  Inductive'
  <1>1. /\ pc = "resolve" /\ pc' \in {"run", "down"}
        /\ UNCHANGED <<states, lock, interruptions, records, cur, faults, ops>>
    BY DEF Resolve, Goto
  <1>2. Ports' /\ ActiveInterruptions' = ActiveInterruptions /\ State' = State
    BY <1>1, PortsStay DEF Inductive, State
  <1>3. At(pc)'
    BY <1>1, <1>2 DEF Inductive, Place, At, Undisturbed, Applying, InFlight
  <1> QED  BY <1>1, <1>2, <1>3, QuietStep DEF Inductive, Place

(* The runner stops: with an experiment sealed before, with a failure.      *)
LEMMA RunStopsInductive ==
    ASSUME Inductive, RunReplay \/ RunReplayRefused \/ RunInterrupted \/ RunThrows
    PROVE  Inductive'
  <1>1. /\ pc = "run" /\ pc' \in {"complete", "interrupt"}
        /\ UNCHANGED <<states, lock, interruptions, records, cur, ops>>
        /\ faults' \in 0 .. MaxFaults
    BY LoopAssumption
       DEF RunReplay, RunReplayRefused, RunInterrupted, RunThrows, Goto, Inductive, Place
  <1>2. Ports' /\ ActiveInterruptions' = ActiveInterruptions
    BY <1>1, PortsStay DEF Inductive
  <1>3. At(pc)'
    BY <1>1, <1>2 DEF Inductive, Place, At, Undisturbed, Applying, InFlight
  <1> QED  BY <1>1, <1>2, <1>3, QuietStep DEF Inductive, Place

(* The death of the process at any place keeps the invariant.               *)
LEMMA CrashInductive ==
    ASSUME Inductive, Crash
    PROVE  Inductive'
  <1>1. /\ pc' = "down" /\ UNCHANGED <<states, interruptions, records, cur, ops>>
        /\ faults' \in 0 .. MaxFaults /\ lock' \in {"free", "abandoned"}
    BY LoopAssumption DEF Crash, Inductive, Place
  <1>2. Ports'  BY <1>1, PortsStay DEF Inductive
  <1>3. At(pc)'  BY <1>1 DEF At, Undisturbed, Applying, InFlight
  <1> QED  BY <1>1, <1>2, <1>3, QuietStep DEF Inductive, Place

(* Reading the decision of the journal before it is charged keeps the       *)
(* invariant.                                                               *)
LEMMA CompleteInductive ==
    ASSUME Inductive, Complete
    PROVE  Inductive'
  <1>n. PICK n : n = Current.inFlight  OBVIOUS
  <1>1. /\ pc = "complete" /\ UNCHANGED <<states, lock, interruptions, records, faults, ops>>
        /\ \/ pc' = "interrupt" /\ (cur' = cur \/ cur' = Len(states))
           \/ /\ n # None /\ IsSealed(n) /\ cur' = Len(states)
              /\ pc' = IF records[n].spent # Current.used THEN "usage" ELSE "seal"
    BY <1>n DEF Complete, Goto, Current
  <1>2. Ports' /\ ActiveInterruptions' = ActiveInterruptions /\ ActiveInterruptions = {}
    BY <1>1, PortsStay DEF Inductive, Place, At, Undisturbed
  <1>3. At(pc)'
    <2>1. CASE pc' = "interrupt"
      BY <1>2, <2>1 DEF At, Undisturbed, Applying, InFlight
    <2>2. CASE /\ n # None /\ IsSealed(n) /\ cur' = Len(states)
               /\ pc' = IF records[n].spent # Current.used THEN "usage" ELSE "seal"
      <3>1. State' = Current /\ State'.inFlight = n  BY <1>n, <1>1, <2>2 DEF State, Current
      <3>2. IsSealed(State.inFlight)' /\ records' = records
        BY <1>1, <2>2, <3>1 DEF IsSealed, Opened
      <3> QED  BY <1>2, <2>2, <3>1, <3>2 DEF At, Undisturbed, Applying, InFlight
    <2> QED  BY <1>1, <2>1, <2>2
  <1> QED  BY <1>1, <1>2, <1>3, QuietStep DEF Inductive, Place

(* Beginning the interruption of a failure keeps the invariant.             *)
LEMMA InterruptInductive ==
    ASSUME Inductive, Interrupt
    PROVE  Inductive'
  <1>n. PICK n : n = Current.inFlight  OBVIOUS
  <1>1. /\ pc = "interrupt" /\ UNCHANGED <<states, lock, records, faults, ops>>
        /\ cur' = cur \/ cur' = Len(states)
        /\ \/ pc' = "down" /\ interruptions' = interruptions
           \/ /\ n # None /\ MayBegin(n, "failure") /\ Begin(n, "failure") /\ pc' = "apply"
    BY <1>n DEF Interrupt, Goto, Current
  <1>2. ActiveInterruptions = {}
    BY <1>1 DEF Inductive, Place, At, Undisturbed
  <1>3. CASE pc' = "down" /\ interruptions' = interruptions
    <2>1. Ports'  BY <1>1, <1>3, PortsStay DEF Inductive
    <2>2. At(pc)'  BY <1>3 DEF At, Undisturbed, Applying, InFlight
    <2> QED  BY <1>1, <2>1, <2>2, QuietStep DEF Inductive, Place
  <1>4. CASE n # None /\ MayBegin(n, "failure") /\ Begin(n, "failure") /\ pc' = "apply"
    <2>1. n \in Numbers  BY <1>n, <1>4, LastRecord DEF Inductive
    <2>2. Ports' /\ ActiveInterruptions' # {}
      BY <1>1, <1>2, <1>4, <2>1, Begun DEF FailureClasses, Inductive
    <2>3. At(pc)'  BY <1>4, <2>2 DEF At, Undisturbed, Applying, InFlight
    <2> QED  BY <1>1, <2>2, <2>3, QuietStep DEF Inductive, Place
  <1> QED  BY <1>1, <1>3, <1>4

(* The choice of the first step of an interruption keeps the invariant: an  *)
(* experiment that is charged is accountable, one that is controlled is     *)
(* archived.                                                                *)
LEMMA ApplyInductive ==
    ASSUME Inductive, Apply
    PROVE  Inductive'
  <1>n. PICK n : n = FindPending  OBVIOUS
  <1>1. /\ pc = "apply" /\ UNCHANGED <<states, lock, interruptions, records, cur, faults, ops>>
        /\ \/ pc' = "down"
           \/ pc' = "charge" /\ State.inFlight = n /\ InterruptionAccountable(n)
           \/ pc' = "control" /\ Archive(n) # None
    BY <1>n DEF Apply, Goto
  <1>2. /\ Ports' /\ ActiveInterruptions' = ActiveInterruptions /\ FindPending' = n
        /\ ActiveInterruptions # {} /\ State' = State
    BY <1>n, <1>1, PortsStay DEF Inductive, Place, At, Undisturbed, Applying, State
  <1>3. CASE pc' = "down"
    <2>1. At(pc)'  BY <1>3 DEF At, Undisturbed, Applying, InFlight
    <2> QED  BY <1>1, <1>2, <2>1, QuietStep DEF Inductive, Place
  <1>4. CASE pc' = "charge" /\ State.inFlight = n /\ InterruptionAccountable(n)
    <2>1. n # None  BY <1>n, <1>2, Pending DEF Inductive
    <2>2. InterruptionAccountable(State.inFlight)'
      BY <1>1, <1>2, <1>4 DEF InterruptionAccountable, IsSealed, Opened
    <2>3. At(pc)'
      BY <1>2, <1>4, <2>1, <2>2 DEF At, Undisturbed, Applying, InFlight
    <2> QED  BY <1>1, <1>2, <2>3, QuietStep DEF Inductive, Place
  <1>5. CASE pc' = "control" /\ Archive(n) # None
    <2>1. \E i \in 2 .. cur : ArchivedIn(i, n)
      BY <1>5 DEF Archive, ArchivedIn
    <2>2. \E i \in 2 .. cur' : ArchivedIn(i, FindPending)'
      BY <1>1, <1>2, <2>1 DEF ArchivedIn
    <2>3. At(pc)'
      BY <1>2, <1>5, <2>2 DEF At, Undisturbed, Applying, InFlight
    <2> QED  BY <1>1, <1>2, <2>3, QuietStep DEF Inductive, Place
  <1> QED  BY <1>1, <1>3, <1>4, <1>5

(* Preparing the control of the archived state keeps the invariant.         *)
LEMMA PrepareControlInductive ==
    ASSUME Inductive, PrepareControl
    PROVE  Inductive'
  <1>n. PICK n : n = FindPending  OBVIOUS
  <1>1. /\ pc = "control" /\ UNCHANGED <<states, lock, records, cur, faults, ops>>
        /\ \/ Prepare(n, Archive(n)) /\ pc' = "settle"
           \/ interruptions' = interruptions /\ pc' = "down"
    BY <1>n DEF PrepareControl, Goto
  <1>2. ActiveInterruptions # {} /\ \E i \in 2 .. cur : ArchivedIn(i, n)
    BY <1>n, <1>1 DEF Inductive, Place, At, Undisturbed, Applying
  <1>3. n \in ActiveInterruptions  BY <1>n, <1>2, Pending DEF Inductive
  <1>4. Archive(n) \in 2 .. cur
    BY <1>2 DEF Archive, ArchivedIn
  <1>5. Archive(n) \in DOMAIN states /\ Archive(n) \in Nat
    BY <1>4, HeldHead, HeadTyped DEF Inductive, Core
  <1>6. CASE Prepare(n, Archive(n)) /\ pc' = "settle"
    <2>1. Ports' /\ ActiveInterruptions' = ActiveInterruptions
      BY <1>1, <1>3, <1>5, <1>6, Prepared DEF Inductive
    <2>2. At(pc)'  BY <1>2, <1>6, <2>1 DEF At, Undisturbed, Applying, InFlight
    <2> QED  BY <1>1, <2>1, <2>2, QuietStep DEF Inductive, Place
  <1>7. CASE interruptions' = interruptions /\ pc' = "down"
    <2>1. Ports'  BY <1>1, <1>7, PortsStay DEF Inductive
    <2>2. At(pc)'  BY <1>7 DEF At, Undisturbed, Applying, InFlight
    <2> QED  BY <1>1, <2>1, <2>2, QuietStep DEF Inductive, Place
  <1> QED  BY <1>1, <1>6, <1>7

(* Marking the interruption as applied keeps the invariant.                 *)
LEMMA MarkAppliedInductive ==
    ASSUME Inductive, MarkApplied
    PROVE  Inductive'
  <1>n. PICK n : n = FindPending  OBVIOUS
  <1>1. /\ pc = "mark" /\ UNCHANGED <<states, lock, records, cur, faults, ops>>
        /\ Mark(n, cur) \/ interruptions' = interruptions
        /\ pc' = "down"
    BY <1>n DEF MarkApplied, Goto
  <1>2. ActiveInterruptions # {}
    BY <1>1 DEF Inductive, Place, At, Undisturbed, Applying
  <1>3. n \in ActiveInterruptions /\ cur \in DOMAIN states /\ cur \in Nat
    BY <1>n, <1>2, Pending, HeldHead DEF Inductive
  <1>4. Ports'
    <2>1. CASE Mark(n, cur)  BY <1>1, <1>3, <2>1, Marked DEF Inductive
    <2>2. CASE interruptions' = interruptions  BY <1>1, <2>2, PortsStay DEF Inductive
    <2> QED  BY <1>1, <2>1, <2>2
  <1>5. At(pc)'  BY <1>1 DEF At, Undisturbed, Applying, InFlight
  <1> QED  BY <1>1, <1>4, <1>5, QuietStep DEF Inductive, Place

----------------------------------------------------------------------------
(* The actions that write the campaign.                                     *)

(* A compare and swap that is refused.                                      *)
LEMMA Thrown ==
    ASSUME Inductive,
           UNCHANGED <<states, lock, interruptions, records, cur, faults, ops>>,
           pc' = "down" \/ (pc' = "interrupt" /\ pc \in Undisturbed)
    PROVE  Inductive'
  <1>1. Ports' /\ ActiveInterruptions' = ActiveInterruptions
    BY PortsStay DEF Inductive
  <1>2. At(pc)'
    BY <1>1 DEF Inductive, Place, At, Undisturbed, Applying, InFlight
  <1> QED  BY <1>1, <1>2, QuietStep DEF Inductive, Place

(* What an appended state leaves as it was.                                 *)
LEMMA Appended ==
    ASSUME Inductive, NEW q \in CampaignStates, states' = Append(states, q),
           interruptions' = interruptions
    PROVE  /\ \A i \in DOMAIN states : states'[i] = states[i] /\ i \in DOMAIN states'
           /\ Len(states') = Len(states) + 1 /\ states'[Len(states) + 1] = q
           /\ Len(states) \in Nat \ {0} /\ Len(states) \in DOMAIN states
           /\ Ports' /\ ActiveInterruptions' = ActiveInterruptions /\ FindPending' = FindPending
           /\ Current' = q
  <1>1. /\ \A i \in DOMAIN states : states'[i] = states[i] /\ i \in DOMAIN states'
        /\ Len(states') = Len(states) + 1 /\ states'[Len(states) + 1] = q
        /\ Len(states) \in Nat \ {0} /\ Len(states) \in DOMAIN states
        /\ Current' = q
    BY Grown DEF Inductive, Core, History, Current
  <1>2. DOMAIN states \subseteq DOMAIN states'  BY <1>1
  <1> QED  BY <1>1, <1>2, PortsStay DEF Inductive

(* The operator writes behind the back of the process.                      *)
LEMMA OperateStep ==
    ASSUME Inductive, NEW q, Continues(q), SameCourse(Current, q), q.used = Current.used,
           states' = Append(states, q),
           UNCHANGED <<interruptions, records, pc, cur, faults>>,
           ops < MaxOps, ops' = ops + 1, lock' \in {"free", "abandoned"}
    PROVE  Inductive'
  <1>1. q \in CampaignStates  BY DEF Continues
  <1>2. Core'  BY CoreKept DEF Inductive
  <1>3. Held'  BY <1>1, HeldGrows DEF Inductive, AsHeld, SameCourse
  <1>4. /\ Ports'
        /\ \A i \in DOMAIN states : states'[i] = states[i] /\ i \in DOMAIN states'
    BY <1>1, Appended
  <1>5. At(pc)'  BY <1>4, StaysAt DEF Inductive, Place
  <1>6. ops' \in 0 .. MaxOps  BY LoopAssumption DEF Inductive, Place
  <1> QED  BY <1>2, <1>3, <1>4, <1>5, <1>6 DEF Inductive, Place

(* The flag of a state written after a decision is a Boolean.               *)
LEMMA LateIsBoolean ==
    ASSUME NEW s, NEW late \in LateChoice(s)
    PROVE  late \in BOOLEAN
  BY DEF LateChoice

(* Whatever the operator writes between two steps of the process, the       *)
(* invariant is kept.                                                       *)
LEMMA OperatorInductive ==
    ASSUME Inductive,
           \/ OperatorStop \/ OperatorResume \/ OperatorExtend \/ OperatorReplenish
           \/ OperatorCheckpoint \/ OperatorRecoverLock
    PROVE  Inductive'
  <1>h. History /\ lock \in {"free", "abandoned"} /\ Current.limit + 1 \in Nat
    BY HeadTyped DEF Inductive, Core, Place, Typed
  <1>1. CASE OperatorStop
    <2>1. PICK late \in LateChoice(StopRequested("operator")) :
             /\ states' = Append(states, [StopRequested("operator") EXCEPT !.late = late])
             /\ MayRequestStop /\ ops < MaxOps /\ ops' = ops + 1
             /\ UNCHANGED <<interruptions, records, pc, cur, faults, lock>>
      BY <1>1 DEF OperatorStop, Operate, Commit, Append1
    <2>q. PICK q : q = [StopRequested("operator") EXCEPT !.late = late]  OBVIOUS
    <2>2. Continues(q) /\ SameCourse(Current, q) /\ q.used = Current.used
      BY <1>h, <2>1, <2>q, LateIsBoolean, StopContinues
    <2> QED  BY <1>h, <2>1, <2>q, <2>2, OperateStep
  <1>2. CASE OperatorResume
    <2>a. PICK auth \in Auths :
             Operate(MayResume(auth), Resumed(auth)) /\ UNCHANGED lock
      BY <1>2 DEF OperatorResume
    <2>1. PICK late \in LateChoice(Resumed(auth)) :
             /\ states' = Append(states, [Resumed(auth) EXCEPT !.late = late])
             /\ MayResume(auth) /\ ops < MaxOps /\ ops' = ops + 1
             /\ UNCHANGED <<interruptions, records, pc, cur, faults, lock>>
      BY <2>a DEF Operate, Commit, Append1
    <2>q. PICK q : q = [Resumed(auth) EXCEPT !.late = late]  OBVIOUS
    <2>2. Continues(q) /\ SameCourse(Current, q) /\ q.used = Current.used
      BY <1>h, <2>1, <2>q, LateIsBoolean, ResumeContinues
    <2> QED  BY <1>h, <2>1, <2>q, <2>2, OperateStep
  <1>3. CASE OperatorExtend
    <2>l. PICK limit : limit = Current.limit + 1  OBVIOUS
    <2>a. PICK auth \in Auths :
             Operate(MayExtend(limit, auth), Extended(limit, auth)) /\ UNCHANGED lock
      BY <1>3, <2>l DEF OperatorExtend
    <2>1. PICK late \in LateChoice(Extended(limit, auth)) :
             /\ states' = Append(states, [Extended(limit, auth) EXCEPT !.late = late])
             /\ MayExtend(limit, auth) /\ ops < MaxOps /\ ops' = ops + 1
             /\ UNCHANGED <<interruptions, records, pc, cur, faults, lock>>
      BY <2>a DEF Operate, Commit, Append1
    <2>q. PICK q : q = [Extended(limit, auth) EXCEPT !.late = late]  OBVIOUS
    <2>2. Continues(q) /\ SameCourse(Current, q) /\ q.used = Current.used
      BY <1>h, <2>l, <2>1, <2>q, LateIsBoolean, ExtendContinues
    <2> QED  BY <1>h, <2>1, <2>q, <2>2, OperateStep
  <1>4. CASE OperatorReplenish
    <2>a. PICK auth \in Auths :
             Operate(MayReplenish(auth), Replenished(auth)) /\ UNCHANGED lock
      BY <1>4 DEF OperatorReplenish
    <2>1. PICK late \in LateChoice(Replenished(auth)) :
             /\ states' = Append(states, [Replenished(auth) EXCEPT !.late = late])
             /\ MayReplenish(auth) /\ ops < MaxOps /\ ops' = ops + 1
             /\ UNCHANGED <<interruptions, records, pc, cur, faults, lock>>
      BY <2>a DEF Operate, Commit, Append1
    <2>q. PICK q : q = [Replenished(auth) EXCEPT !.late = late]  OBVIOUS
    <2>2. Continues(q) /\ SameCourse(Current, q) /\ q.used = Current.used
      BY <1>h, <2>1, <2>q, LateIsBoolean, ReplenishContinues
    <2> QED  BY <1>h, <2>1, <2>q, <2>2, OperateStep
  <1>5. CASE OperatorCheckpoint
    <2>t. PICK token : token = <<"checkpoint", Len(states)>>  OBVIOUS
    <2>1. PICK late \in LateChoice(Checkpointed(token)) :
             /\ states' = Append(states, [Checkpointed(token) EXCEPT !.late = late])
             /\ ops < MaxOps /\ ops' = ops + 1
             /\ UNCHANGED <<interruptions, records, pc, cur, faults, lock>>
      BY <1>5, <2>t DEF OperatorCheckpoint, Operate, Commit, Append1
    <2>q. PICK q : q = [Checkpointed(token) EXCEPT !.late = late]  OBVIOUS
    <2>2. Continues(q) /\ SameCourse(Current, q) /\ q.used = Current.used
      BY <1>h, <2>t, <2>1, <2>q, LateIsBoolean, CheckpointContinues
    <2> QED  BY <1>h, <2>1, <2>q, <2>2, OperateStep
  <1>6. CASE OperatorRecoverLock
    <2>a. PICK auth \in Auths :
             Operate(MayRecover(auth), Recovered(auth)) /\ lock' = "free"
      BY <1>6 DEF OperatorRecoverLock
    <2>1. PICK late \in LateChoice(Recovered(auth)) :
             /\ states' = Append(states, [Recovered(auth) EXCEPT !.late = late])
             /\ MayRecover(auth) /\ ops < MaxOps /\ ops' = ops + 1
             /\ UNCHANGED <<interruptions, records, pc, cur, faults>>
      BY <2>a DEF Operate, Commit, Append1
    <2>q. PICK q : q = [Recovered(auth) EXCEPT !.late = late]  OBVIOUS
    <2>2. Continues(q) /\ SameCourse(Current, q) /\ q.used = Current.used
      BY <1>h, <2>1, <2>q, LateIsBoolean, RecoverContinues
    <2> QED  BY <2>a, <2>1, <2>q, <2>2, OperateStep
  <1> QED  BY <1>1, <1>2, <1>3, <1>4, <1>5, <1>6

(* The process appends to the state it holds, which is the head.            *)
LEMMA WroteStep ==
    ASSUME Inductive, NEW q \in CampaignStates, states' = Append(states, q),
           cur = Len(states), cur' = cur + 1,
           UNCHANGED <<lock, interruptions, faults, ops>>,
           Core', At(pc)'
    PROVE  Inductive'
  BY HeldGrows, Appended DEF Inductive, Place

(* A process that wrote holds the head, and the same interruption waits.    *)
LEMMA HeldIsHead ==
    ASSUME Inductive, NEW q \in CampaignStates, states' = Append(states, q),
           cur = Len(states), cur' = cur + 1, interruptions' = interruptions
    PROVE  /\ State = Current /\ State' = q
           /\ ActiveInterruptions' = ActiveInterruptions /\ FindPending' = FindPending
  BY Appended DEF State, Current

(* A stop is acknowledged, by the loop or by an interruption.               *)
LEMMA AcknowledgeInductive ==
    ASSUME Inductive, IdleAck \/ SealAck \/ AckStop
    PROVE  Inductive'
  <1>1. /\ UNCHANGED <<interruptions, records, lock, faults, ops>>
        /\ pc \in Undisturbed \/ pc = "ackStop"
        /\ \/ UNCHANGED <<states, cur>> /\ (pc' = "down" \/ (pc' = "interrupt" /\ pc \in Undisturbed))
           \/ /\ cur = Len(states) /\ MayAcknowledge /\ cur' = cur + 1
              /\ \E late \in LateChoice(Acknowledged) :
                    states' = Append(states, [Acknowledged EXCEPT !.late = late])
              /\ pc' = IF pc = "ackStop" THEN "mark" ELSE "down"
    <2>1. CASE IdleAck
      BY <2>1 DEF IdleAck, Swap, CanSwap, Commit, Append1, UnchangedButStates, Goto, Undisturbed
    <2>2. CASE SealAck
      BY <2>2 DEF SealAck, Swap, CanSwap, Commit, Append1, UnchangedButStates, Goto, Undisturbed
    <2>3. CASE AckStop
      BY <2>3 DEF AckStop, Swap, CanSwap, Commit, Append1, UnchangedButStates, Goto, Undisturbed
    <2> QED  BY <2>1, <2>2, <2>3
  <1>2. CASE UNCHANGED <<states, cur>> /\ (pc' = "down" \/ (pc' = "interrupt" /\ pc \in Undisturbed))
    BY <1>1, <1>2, Thrown
  <1>3. CASE /\ cur = Len(states) /\ MayAcknowledge /\ cur' = cur + 1
             /\ \E late \in LateChoice(Acknowledged) :
                   states' = Append(states, [Acknowledged EXCEPT !.late = late])
             /\ pc' = IF pc = "ackStop" THEN "mark" ELSE "down"
    <2>1. PICK late \in LateChoice(Acknowledged) :
             states' = Append(states, [Acknowledged EXCEPT !.late = late])
      BY <1>3
    <2>q. PICK q : q = [Acknowledged EXCEPT !.late = late]  OBVIOUS
    <2>2. Continues(q) /\ SameCourse(Current, q)
      BY <1>3, <2>q, LateIsBoolean, AcknowledgeContinues DEF Inductive, Core
    <2>3. q \in CampaignStates /\ states' = Append(states, q)  BY <2>1, <2>2, <2>q DEF Continues
    <2>4. Core'  BY <1>1, <2>2, <2>3, CoreKept DEF Inductive
    <2>5. ActiveInterruptions' = ActiveInterruptions /\ FindPending' = FindPending
      BY <1>1, <1>3, <2>3, HeldIsHead
    <2>6. At(pc)'
      BY <1>3, <2>5 DEF Inductive, Place, At, Undisturbed, Applying, InFlight
    <2> QED  BY <1>1, <1>3, <2>3, <2>4, <2>6, WroteStep
  <1> QED  BY <1>1, <1>2, <1>3

(* Allocating an experiment, or finding the claimed one, keeps the          *)
(* invariant.                                                               *)
LEMMA ClaimInductive ==
    ASSUME Inductive, Claim
    PROVE  Inductive'
  <1>1. /\ UNCHANGED <<interruptions, records, lock, faults, ops>> /\ pc = "claim"
        /\ \/ UNCHANGED <<states, cur>> /\ pc' = "down"
           \/ UNCHANGED <<states, cur>> /\ pc' = "resolve" /\ State.inFlight # None
           \/ /\ cur = Len(states) /\ MayAllocate /\ cur' = cur + 1 /\ State.inFlight = None
              /\ \E late \in LateChoice(Allocated) :
                    states' = Append(states, [Allocated EXCEPT !.late = late])
              /\ pc' = "resolve"
    BY DEF Claim, Swap, CanSwap, Commit, Append1, UnchangedButStates, Goto
  <1>2. ActiveInterruptions = {} /\ (State.inFlight # None \/ State.next \in Numbers)
    BY <1>1 DEF Inductive, Place, At, Undisturbed
  <1>3. CASE UNCHANGED <<states, cur>> /\ pc' = "down"
    <2>1. UNCHANGED <<states, lock, interruptions, records, cur, faults, ops>>  BY <1>1, <1>3
    <2> QED  BY <1>3, <2>1, Thrown DEF Undisturbed
  <1>4. CASE UNCHANGED <<states, cur>> /\ pc' = "resolve" /\ State.inFlight # None
    <2>1. Ports' /\ ActiveInterruptions' = {} /\ State' = State
      BY <1>1, <1>2, <1>4, PortsStay DEF Inductive, State
    <2>2. At(pc)'  BY <1>4, <2>1 DEF At, Undisturbed, Applying, InFlight
    <2> QED  BY <1>1, <1>4, <2>1, <2>2, QuietStep DEF Inductive, Place
  <1>5. CASE /\ cur = Len(states) /\ MayAllocate /\ cur' = cur + 1 /\ State.inFlight = None
             /\ \E late \in LateChoice(Allocated) :
                   states' = Append(states, [Allocated EXCEPT !.late = late])
             /\ pc' = "resolve"
    <2>1. PICK late \in LateChoice(Allocated) :
             states' = Append(states, [Allocated EXCEPT !.late = late])
      BY <1>5
    <2>q. PICK q : q = [Allocated EXCEPT !.late = late]  OBVIOUS
    <2>2. State = Current  BY <1>5 DEF State, Current
    <2>3. Current.next \in Numbers  BY <1>2, <1>5, <2>2
    <2>4. /\ Continues(q)
          /\ q.inFlight = Current.next /\ q.next = Current.next + 1
          /\ q.interrupted = Current.interrupted /\ q.champion = Current.champion
          /\ q.sealed = Current.sealed /\ q.disposition = Current.disposition
          /\ q.used = Current.used
      BY <1>5, <2>3, <2>q, LateIsBoolean, AllocatedContinues DEF Inductive, Core
    <2>5. q \in CampaignStates /\ states' = Append(states, q)  BY <2>1, <2>4, <2>q DEF Continues
    <2>6. Core'
      BY <1>1, <1>5, <2>4, <2>5, CoreAllocated DEF Inductive, MayAllocate
    <2>7. ActiveInterruptions' = {} /\ State' = q
      BY <1>1, <1>2, <1>5, <2>5, HeldIsHead
    <2>8. q.inFlight # None  BY <2>3, <2>4, StoreAssumption DEF Numbers
    <2>9. At(pc)'
      BY <1>5, <2>7, <2>8 DEF At, Undisturbed, Applying, InFlight
    <2> QED  BY <1>1, <1>5, <2>5, <2>6, <2>9, WroteStep
  <1> QED  BY <1>1, <1>3, <1>4, <1>5

(* Charging what the journal saw spent keeps the invariant.                 *)
LEMMA UsageInductive ==
    ASSUME Inductive, Usage
    PROVE  Inductive'
  <1>n. PICK n : n = State.inFlight  OBVIOUS
  <1>t. PICK token : token = <<"acct", cur>>  OBVIOUS
  <1>u. PICK usage : usage = records[n].spent  OBVIOUS
  <1>1. /\ UNCHANGED <<interruptions, records, lock, faults, ops>> /\ pc = "usage"
        /\ \/ UNCHANGED <<states, cur>> /\ pc' = "interrupt"
           \/ /\ cur = Len(states) /\ MayRecordUsage(usage, token) /\ cur' = cur + 1
              /\ \E late \in LateChoice(UsageRecorded(usage, token)) :
                    states' = Append(states, [UsageRecorded(usage, token) EXCEPT !.late = late])
              /\ pc' = "seal"
    BY <1>n, <1>t, <1>u
       DEF Usage, Swap, CanSwap, Commit, Append1, UnchangedButStates, Goto
  <1>2. ActiveInterruptions = {} /\ n # None /\ IsSealed(n) /\ usage # State.used
    BY <1>n, <1>u, <1>1 DEF Inductive, Place, At, Undisturbed, InFlight
  <1>3. CASE UNCHANGED <<states, cur>> /\ pc' = "interrupt"
    BY <1>1, <1>3, Thrown DEF Undisturbed
  <1>4. CASE /\ cur = Len(states) /\ MayRecordUsage(usage, token) /\ cur' = cur + 1
             /\ \E late \in LateChoice(UsageRecorded(usage, token)) :
                   states' = Append(states, [UsageRecorded(usage, token) EXCEPT !.late = late])
             /\ pc' = "seal"
    <2>1. PICK late \in LateChoice(UsageRecorded(usage, token)) :
             states' = Append(states, [UsageRecorded(usage, token) EXCEPT !.late = late])
      BY <1>4
    <2>q. PICK q : q = [UsageRecorded(usage, token) EXCEPT !.late = late]  OBVIOUS
    <2>2. State = Current /\ cur \in Nat
      BY <1>4, HeldHead DEF State, Current, Inductive
    <2>3. Continues(q) /\ SameCourse(Current, q) /\ q.used = usage
      BY <1>t, <1>2, <1>4, <2>2, <2>q, LateIsBoolean, UsageContinues, ZenonT(30)
         DEF Inductive, Core
    <2>4. q \in CampaignStates /\ states' = Append(states, q)  BY <2>1, <2>3, <2>q DEF Continues
    <2>5. Core'  BY <1>1, <2>3, <2>4, CoreKept DEF Inductive
    <2>6. ActiveInterruptions' = {} /\ State' = q /\ q.inFlight = n
      BY <1>n, <1>1, <1>2, <1>4, <2>2, <2>3, <2>4, HeldIsHead DEF SameCourse
    <2>7. IsSealed(n)'  BY <1>1, <1>2 DEF IsSealed, Opened
    <2>8. At(pc)'
      BY <1>u, <1>1, <1>2, <1>4, <2>3, <2>6, <2>7 DEF At, Undisturbed, Applying, InFlight
    <2> QED  BY <1>1, <1>4, <2>4, <2>5, <2>8, WroteStep
  <1> QED  BY <1>1, <1>3, <1>4

(* Sealing the journal's decision into the campaign keeps the invariant.    *)
LEMMA SealInductive ==
    ASSUME Inductive, Seal
    PROVE  Inductive'
  <1>n. PICK n : n = State.inFlight  OBVIOUS
  <1>r. PICK r : r = records[n]  OBVIOUS
  <1>g. PICK g : g = r.stage  OBVIOUS
  <1>d. PICK d : d = r.disposition  OBVIOUS
  <1>c. PICK c : c = IF d = "promoted" THEN n ELSE None  OBVIOUS
  <1>s. PICK s : s = Sealed(n, g, d, c)  OBVIOUS
  <1>1. /\ UNCHANGED <<interruptions, records, lock, faults, ops>> /\ pc = "seal"
        /\ \/ UNCHANGED <<states, cur>> /\ pc' = "interrupt"
           \/ /\ cur = Len(states) /\ MaySeal(n, g, d, c) /\ cur' = cur + 1
              /\ \E late \in LateChoice(s) : states' = Append(states, [s EXCEPT !.late = late])
              /\ pc' = IF s.status = "stop-requested" THEN "sealAck" ELSE LoopOn(s)
    BY <1>n, <1>r, <1>g, <1>d, <1>c, <1>s
       DEF Seal, Swap, CanSwap, Commit, Append1, UnchangedButStates, Goto
  <1>2. ActiveInterruptions = {} /\ n # None /\ IsSealed(n) /\ r.spent = State.used
    BY <1>n, <1>r, <1>1 DEF Inductive, Place, At, Undisturbed, InFlight
  <1>3. CASE UNCHANGED <<states, cur>> /\ pc' = "interrupt"
    BY <1>1, <1>3, Thrown DEF Undisturbed
  <1>4. CASE /\ cur = Len(states) /\ MaySeal(n, g, d, c) /\ cur' = cur + 1
             /\ \E late \in LateChoice(s) : states' = Append(states, [s EXCEPT !.late = late])
             /\ pc' = IF s.status = "stop-requested" THEN "sealAck" ELSE LoopOn(s)
    <2>1. PICK late \in LateChoice(s) : states' = Append(states, [s EXCEPT !.late = late])
      BY <1>4
    <2>q. PICK q : q = [s EXCEPT !.late = late]  OBVIOUS
    <2>2. State = Current  BY <1>4 DEF State, Current
    <2>3. /\ g \in EvaluationStages /\ d \in Dispositions
          /\ d = "promoted" => g = "validation"
      <3>1. r \in JournalRecords /\ Recorded(n) /\ r.status = "sealed"
        BY <1>r, <1>2, LastRecord DEF IsSealed, Opened, Inductive, Core, Journal
      <3> QED  BY <1>r, <1>g, <1>d, <3>1 DEF Recorded, JournalRecords
    <2>4. /\ Continues(q)
          /\ q.inFlight = None /\ q.sealed = n /\ q.disposition = d
          /\ q.next = Current.next
          /\ d = "promoted" => q.champion = n
          /\ d # "promoted" => q.champion = Current.champion
          /\ q.interrupted = Current.interrupted /\ q.used = Current.used
      <3>1. History /\ late \in BOOLEAN  BY LateIsBoolean DEF Inductive, Core
      <3>2. q = [Sealed(n, g, d, c) EXCEPT !.late = late]  BY <1>s, <2>q
      <3>3. MaySeal(n, g, d, c) /\ n # None  BY <1>2, <1>4
      <3>4. d = "promoted" => c = n  BY <1>c
      <3>5. SealsAs(q, n, d)  BY <2>3, <3>1, <3>2, <3>3, <3>4, SealContinues
      <3> QED  BY <3>5 DEF SealsAs
    <2>5. q \in CampaignStates /\ states' = Append(states, q)  BY <2>1, <2>4, <2>q DEF Continues
    <2>6. Core'
      BY <1>n, <1>r, <1>d, <1>1, <1>2, <2>2, <2>4, <2>5, CoreSealed DEF Inductive
    <2>7. ActiveInterruptions' = {} /\ State' = q
      BY <1>1, <1>2, <1>4, <2>5, HeldIsHead
    <2>8. At(pc)'
      <3>1. CASE pc' = "claim"
        <4>1. s.inFlight = None /\ s.next = Current.next
          BY <1>s, HeadTyped DEF Sealed, Fields, Inductive, Core
        <4>2. s.next <= MaxExperiments /\ Current.next \in Nat \ {0}
          BY <1>4, <3>1, <4>1, HeadTyped, PortsAssumption
             DEF LoopOn, Inductive, Core, Typed, Sane
        <4>3. q.next \in Numbers  BY <2>4, <4>1, <4>2, PortsAssumption DEF Numbers
        <4> QED  BY <2>7, <3>1, <4>3 DEF At, Undisturbed, Applying, InFlight
      <3>2. CASE pc' \in {"down", "sealAck"}
        BY <2>7, <3>2 DEF At, Undisturbed, Applying, InFlight
      <3> QED  BY <1>4, <3>1, <3>2 DEF LoopOn
    <2> QED  BY <1>1, <1>4, <2>5, <2>6, <2>8, WroteStep
  <1> QED  BY <1>1, <1>3, <1>4

(* An interruption that is being applied writes what changes no course.     *)
LEMMA AppliedStep ==
    ASSUME Inductive, pc \in Applying, NEW q, Continues(q), SameCourse(Current, q),
           states' = Append(states, q), cur = Len(states), cur' = cur + 1,
           UNCHANGED <<interruptions, records, lock, faults, ops>>,
           pc' \in {"ackStop", "mark"}
    PROVE  Inductive'
  <1>1. q \in CampaignStates  BY DEF Continues
  <1>2. Core'  BY CoreKept DEF Inductive
  <1>3. ActiveInterruptions' = ActiveInterruptions  BY <1>1, HeldIsHead
  <1>4. At(pc)'
    BY <1>3 DEF Inductive, Place, At, Undisturbed, Applying, InFlight
  <1> QED  BY <1>1, <1>2, <1>4, WroteStep

(* Charging an interrupted experiment keeps the invariant: the charge is    *)
(* never less than what the journal knows.                                  *)
LEMMA ChargeInterruptedInductive ==
    ASSUME Inductive, ChargeInterrupted
    PROVE  Inductive'
  <1>n. PICK n : n = FindPending  OBVIOUS
  <1>t. PICK token : token = <<"acct", cur>>  OBVIOUS
  <1>1. pc = "charge" /\ UNCHANGED <<interruptions, records>>
    BY DEF ChargeInterrupted, UnchangedButStates
  <1>2. PICK usage \in Charge(n) :
           IF usage = State.used
           THEN Goto("archive") /\ UNCHANGED <<states, lock, cur>>
           ELSE Swap(MayRecordUsage(usage, token), UsageRecorded(usage, token),
                     "archive", "down")
    BY <1>n, <1>t DEF ChargeInterrupted
  <1>3. /\ ActiveInterruptions # {} /\ State.inFlight = n /\ n # None
        /\ InterruptionAccountable(n)
    BY <1>n, <1>1 DEF Inductive, Place, At, Applying, InFlight
  <1>4. usage \in Nat /\ records[n].spent \in Nat /\ records[n].spent <= usage
    <2>1. State.used \in Nat  BY HeldHead DEF Inductive, Typed
    <2>2. records[n].spent \in Nat
      BY <1>3, LastRecord DEF InterruptionAccountable, Opened, Inductive
    <2> QED  BY <2>1, <2>2 DEF Charge
  <1>5. CASE usage = State.used
    <2>1. UNCHANGED <<states, lock, interruptions, records, cur, faults, ops>>
          /\ pc' = "archive"
      BY <1>1, <1>2, <1>5 DEF Goto
    <2>2. /\ Ports' /\ ActiveInterruptions' = ActiveInterruptions /\ FindPending' = n
          /\ State' = State
      BY <1>n, <2>1, PortsStay DEF Inductive, State
    <2>3. InterruptionAccountable(n)'
      BY <1>3, <2>1 DEF InterruptionAccountable, IsSealed, Opened
    <2>4. At(pc)'
      BY <1>3, <1>4, <1>5, <2>1, <2>2, <2>3 DEF At, Undisturbed, Applying, InFlight
    <2> QED  BY <2>1, <2>2, <2>4, QuietStep DEF Inductive, Place
  <1>6. CASE usage # State.used
    <2>1. /\ UNCHANGED <<lock, faults, ops>>
          /\ \/ UNCHANGED <<states, cur>> /\ pc' = "down"
             \/ /\ cur = Len(states) /\ MayRecordUsage(usage, token) /\ cur' = cur + 1
                /\ \E late \in LateChoice(UsageRecorded(usage, token)) :
                      states' = Append(states, [UsageRecorded(usage, token) EXCEPT !.late = late])
                /\ pc' = "archive"
      BY <1>2, <1>6 DEF Swap, CanSwap, Commit, Append1, Goto
    <2>2. CASE UNCHANGED <<states, cur>> /\ pc' = "down"
      BY <1>1, <2>1, <2>2, Thrown
    <2>3. CASE /\ cur = Len(states) /\ MayRecordUsage(usage, token) /\ cur' = cur + 1
               /\ \E late \in LateChoice(UsageRecorded(usage, token)) :
                     states' = Append(states, [UsageRecorded(usage, token) EXCEPT !.late = late])
               /\ pc' = "archive"
      <3>1. PICK late \in LateChoice(UsageRecorded(usage, token)) :
               states' = Append(states, [UsageRecorded(usage, token) EXCEPT !.late = late])
        BY <2>3
      <3>q. PICK q : q = [UsageRecorded(usage, token) EXCEPT !.late = late]  OBVIOUS
      <3>2. State = Current /\ cur \in Nat
        BY <2>3, HeldHead DEF State, Current, Inductive
      <3>3. Continues(q) /\ SameCourse(Current, q) /\ q.used = usage
        BY <1>t, <1>6, <2>3, <3>2, <3>q, LateIsBoolean, UsageContinues, ZenonT(30)
         DEF Inductive, Core
      <3>4. q \in CampaignStates /\ states' = Append(states, q)
        BY <3>1, <3>3, <3>q DEF Continues
      <3>5. Core'  BY <1>1, <3>3, <3>4, CoreKept DEF Inductive
      <3>6. /\ ActiveInterruptions' = ActiveInterruptions /\ FindPending' = n
            /\ State' = q /\ q.inFlight = n
        BY <1>n, <1>1, <1>3, <2>3, <3>2, <3>3, <3>4, HeldIsHead DEF SameCourse
      <3>7. InterruptionAccountable(n)'
        BY <1>1, <1>3 DEF InterruptionAccountable, IsSealed, Opened
      <3>8. At(pc)'
        BY <1>1, <1>3, <1>4, <2>3, <3>3, <3>6, <3>7 DEF At, Undisturbed, Applying, InFlight
      <3> QED  BY <1>1, <2>1, <2>3, <3>4, <3>5, <3>8, WroteStep
    <2> QED  BY <2>1, <2>2, <2>3
  <1> QED  BY <1>5, <1>6

(* Archiving an interrupted experiment keeps the invariant.                 *)
LEMMA ArchiveInterruptedInductive ==
    ASSUME Inductive, ArchiveInterrupted
    PROVE  Inductive'
  <1>n. PICK n : n = FindPending  OBVIOUS
  <1>s. PICK s : s = Archived(n, <<"exposure", n>>)  OBVIOUS
  <1>1. /\ UNCHANGED <<interruptions, records, lock, faults, ops>> /\ pc = "archive"
        /\ \/ UNCHANGED <<states, cur>> /\ pc' = "down"
           \/ /\ cur = Len(states) /\ MayArchive(n, <<"exposure", n>>) /\ cur' = cur + 1
              /\ \E late \in LateChoice(s) : states' = Append(states, [s EXCEPT !.late = late])
              /\ pc' = "control"
    BY <1>n, <1>s
       DEF ArchiveInterrupted, Swap, CanSwap, Commit, Append1, UnchangedButStates, Goto
  <1>2. /\ ActiveInterruptions # {} /\ State.inFlight = n /\ n # None
        /\ InterruptionAccountable(n) /\ records[n].spent <= State.used
    BY <1>n, <1>1 DEF Inductive, Place, At, Applying, InFlight
  <1>3. CASE UNCHANGED <<states, cur>> /\ pc' = "down"
    BY <1>1, <1>3, Thrown
  <1>4. CASE /\ cur = Len(states) /\ MayArchive(n, <<"exposure", n>>) /\ cur' = cur + 1
             /\ \E late \in LateChoice(s) : states' = Append(states, [s EXCEPT !.late = late])
             /\ pc' = "control"
    <2>1. PICK late \in LateChoice(s) : states' = Append(states, [s EXCEPT !.late = late])
      BY <1>4
    <2>q. PICK q : q = [s EXCEPT !.late = late]  OBVIOUS
    <2>2. State = Current  BY <1>4 DEF State, Current
    <2>3. /\ Continues(q)
          /\ q.inFlight = None /\ q.interrupted = n /\ q.exposure = <<"exposure", n>>
          /\ q.next = Current.next /\ q.champion = Current.champion
          /\ q.sealed = Current.sealed /\ q.disposition = Current.disposition
          /\ q.used = Current.used
      <3>1. History /\ late \in BOOLEAN  BY LateIsBoolean DEF Inductive, Core
      <3>2. q = [Archived(n, <<"exposure", n>>) EXCEPT !.late = late]  BY <1>s, <2>q
      <3>3. ArchivesAs(q, n)  BY <1>2, <1>4, <3>1, <3>2, ArchiveContinues
      <3> QED  BY <3>3 DEF ArchivesAs
    <2>4. q \in CampaignStates /\ states' = Append(states, q)  BY <2>1, <2>3, <2>q DEF Continues
    <2>5. Core'
      BY <1>1, <1>2, <2>2, <2>3, <2>4, CoreArchived DEF Inductive
    <2>6. ActiveInterruptions' = ActiveInterruptions /\ FindPending' = n /\ State' = q
      BY <1>n, <1>1, <1>4, <2>4, HeldIsHead
    <2>7. /\ Len(states) \in Nat \ {0}
          /\ states'[Len(states)] = Current /\ states'[Len(states) + 1] = q
      BY <1>1, <2>4, Appended DEF Current
    <2>8. cur' \in 2 .. cur' /\ cur' - 1 = Len(states) /\ cur' = Len(states) + 1
      BY <1>4, <2>7
    <2>9. ArchivedIn(cur, n)' 
      BY <1>2, <2>2, <2>3, <2>7, <2>8 DEF ArchivedIn
    <2>10. At(pc)'
      BY <1>2, <1>4, <2>6, <2>8, <2>9 DEF At, Undisturbed, Applying, InFlight
    <2> QED  BY <1>1, <1>4, <2>4, <2>5, <2>10, WroteStep
  <1> QED  BY <1>1, <1>3, <1>4

(* Settling the control of an applied interruption keeps the invariant.     *)
LEMMA SettleInductive ==
    ASSUME Inductive, Settle
    PROVE  Inductive'
  <1>n. PICK n : n = FindPending  OBVIOUS
  <1>1. pc = "settle" /\ UNCHANGED <<interruptions, records>> /\ pc \in Applying
    BY DEF Settle, UnchangedButStates, Applying
  <1>2. ActiveInterruptions # {} /\ n \in Nat
    <2>1. ActiveInterruptions # {}
      BY <1>1 DEF Inductive, Place, At
    <2> QED  BY <1>n, <2>1, Pending, PortsAssumption DEF Inductive, Numbers
  <1>3. \/ Swap(MayRequestStop, StopRequested("operator"), "ackStop", "down")
        \/ Swap(MayPause(<<"pause", n>>), Paused(<<"pause", n>>), "mark", "down")
        \/ UNCHANGED <<states, lock, cur, faults, ops>> /\ pc' \in {"mark", "ackStop", "down"}
    <2>1. CASE State.status = "running" /\ interruptions[n].control = "stop"
      BY <1>n, <2>1 DEF Settle
    <2>2. CASE State.status = "running" /\ interruptions[n].control # "stop"
      BY <1>n, <2>2 DEF Settle
    <2>3. CASE State.status = "paused"
      BY <1>n, <2>3 DEF Settle, Goto
    <2>4. CASE State.status \notin {"running", "paused"}
      BY <1>n, <2>4 DEF Settle, Goto
    <2> QED  BY <2>1, <2>2, <2>3, <2>4
  <1>4. CASE Swap(MayRequestStop, StopRequested("operator"), "ackStop", "down")
    <2>s. PICK s : s = StopRequested("operator")  OBVIOUS
    <2>1. /\ UNCHANGED <<lock, faults, ops>>
          /\ \/ UNCHANGED <<states, cur>> /\ pc' = "down"
             \/ /\ cur = Len(states) /\ MayRequestStop /\ cur' = cur + 1
                /\ \E late \in LateChoice(s) : states' = Append(states, [s EXCEPT !.late = late])
                /\ pc' = "ackStop"
      BY <1>4, <2>s DEF Swap, CanSwap, Commit, Append1, Goto
    <2>2. CASE UNCHANGED <<states, cur>> /\ pc' = "down"
      BY <1>1, <2>1, <2>2, Thrown
    <2>3. CASE /\ cur = Len(states) /\ MayRequestStop /\ cur' = cur + 1
               /\ \E late \in LateChoice(s) : states' = Append(states, [s EXCEPT !.late = late])
               /\ pc' = "ackStop"
      <3>1. PICK late \in LateChoice(s) : states' = Append(states, [s EXCEPT !.late = late])
        BY <2>3
      <3>q. PICK q : q = [s EXCEPT !.late = late]  OBVIOUS
      <3>2. Continues(q) /\ SameCourse(Current, q)
        BY <2>s, <2>3, <3>q, LateIsBoolean, StopContinues DEF Inductive, Core
      <3> QED  BY <1>1, <2>1, <2>3, <3>1, <3>q, <3>2, AppliedStep
    <2> QED  BY <2>1, <2>2, <2>3
  <1>5. CASE Swap(MayPause(<<"pause", n>>), Paused(<<"pause", n>>), "mark", "down")
    <2>t. PICK token : token = <<"pause", n>>  OBVIOUS
    <2>s. PICK s : s = Paused(token)  OBVIOUS
    <2>1. /\ UNCHANGED <<lock, faults, ops>>
          /\ \/ UNCHANGED <<states, cur>> /\ pc' = "down"
             \/ /\ cur = Len(states) /\ MayPause(token) /\ cur' = cur + 1
                /\ \E late \in LateChoice(s) : states' = Append(states, [s EXCEPT !.late = late])
                /\ pc' = "mark"
      BY <1>5, <2>t, <2>s DEF Swap, CanSwap, Commit, Append1, Goto
    <2>2. CASE UNCHANGED <<states, cur>> /\ pc' = "down"
      BY <1>1, <2>1, <2>2, Thrown
    <2>3. CASE /\ cur = Len(states) /\ MayPause(token) /\ cur' = cur + 1
               /\ \E late \in LateChoice(s) : states' = Append(states, [s EXCEPT !.late = late])
               /\ pc' = "mark"
      <3>1. PICK late \in LateChoice(s) : states' = Append(states, [s EXCEPT !.late = late])
        BY <2>3
      <3>q. PICK q : q = [s EXCEPT !.late = late]  OBVIOUS
      <3>2. Continues(q) /\ SameCourse(Current, q)
        BY <1>2, <2>t, <2>s, <2>3, <3>q, LateIsBoolean, PauseContinues DEF Inductive, Core
      <3> QED  BY <1>1, <2>1, <2>3, <3>1, <3>q, <3>2, AppliedStep
    <2> QED  BY <2>1, <2>2, <2>3
  <1>6. CASE UNCHANGED <<states, lock, cur, faults, ops>> /\ pc' \in {"mark", "ackStop", "down"}
    <2>1. Ports' /\ ActiveInterruptions' # {}
      BY <1>1, <1>2, <1>6, PortsStay DEF Inductive
    <2>2. At(pc)'  BY <1>6, <2>1 DEF At, Undisturbed, Applying, InFlight
    <2> QED  BY <1>1, <1>6, <2>1, <2>2, QuietStep DEF Inductive, Place
  <1> QED  BY <1>3, <1>4, <1>5, <1>6

----------------------------------------------------------------------------
(* The actions of the runner, which write the journal.                      *)

(* A step of the runner keeps the invariant if it keeps campaign and        *)
(* journal in agreement.                                                    *)
LEMMA JournalStep ==
    ASSUME Inductive, pc = "run", pc' \in {"run", "complete", "interrupt"},
           UNCHANGED <<states, lock, interruptions, cur, faults, ops>>, Core'
    PROVE  Inductive'
  <1>1. Ports' /\ ActiveInterruptions' = ActiveInterruptions /\ State' = State
    BY PortsStay DEF Inductive, State
  <1>2. At(pc)'
    BY <1>1 DEF Inductive, Place, At, Undisturbed, Applying, InFlight
  <1>3. Held'  BY HeldStays DEF Inductive
  <1> QED  BY <1>1, <1>2, <1>3 DEF Inductive, Place

(* What the runner knows of the experiment it runs.                         *)
LEMMA Running ==
    ASSUME Inductive, pc = "run"
    PROVE  /\ State.inFlight # None /\ State.inFlight = Current.inFlight
           /\ State.champion = Current.champion
           /\ Allocation(cur, State.inFlight).used \in Nat
  <1>n. PICK n : n = State.inFlight  OBVIOUS
  <1>1. n # None  BY <1>n DEF Inductive, Place, At, InFlight
  <1>2. n = Current.inFlight /\ State.champion = Current.champion
    BY <1>n, HeldHead DEF Inductive, AsHeld
  <1>3. /\ Len(states) \in Nat \ {0} /\ DOMAIN states = 1 .. Len(states)
        /\ \A i \in DOMAIN states : states[i].used \in Nat
        /\ cur \in 1 .. Len(states)
    BY HeadTyped, FieldsTyped DEF Inductive, Core, Held, Typed
  <1>4. PICK i \in 2 .. Len(states) : AllocatedAt(i) /\ states[i].inFlight = n
    BY <1>1, <1>2 DEF Inductive, Core, History
  <1>5. i <= cur
    <2>1. SUFFICES ASSUME i > cur PROVE FALSE  BY <1>3
    <2>2. i \in cur .. Len(states) /\ i - 1 \in cur .. Len(states)  BY <1>3, <2>1
    <2>3. AsHeld(states[i], Current) /\ AsHeld(states[i - 1], Current)
      BY <2>2 DEF Inductive, Held
    <2> QED  BY <1>4, <2>3 DEF AsHeld, AllocatedAt
  <1>6. i \in Path(cur, n) /\ i - 1 \notin Path(cur, n)
    BY <1>3, <1>4, <1>5 DEF Path, AllocatedAt
  <1>j. PICK j : j = CHOOSE k \in Path(cur, n) : k - 1 \notin Path(cur, n)  OBVIOUS
  <1>7. j \in Path(cur, n)  BY <1>6, <1>j
  <1>8. j \in DOMAIN states  BY <1>3, <1>7 DEF Path
  <1>9. Allocation(cur, n).used \in Nat  BY <1>3, <1>j, <1>8 DEF Allocation
  <1> QED  BY <1>n, <1>1, <1>2, <1>9

(* Opening the experiment's record keeps the invariant.                     *)
LEMMA RunCreateInductive ==
    ASSUME Inductive, RunCreate
    PROVE  Inductive'
  <1>n. PICK n : n = State.inFlight  OBVIOUS
  <1>u. PICK used : used = Allocation(cur, n).used  OBVIOUS
  <1>1. /\ pc = "run" /\ UNCHANGED <<states, lock, interruptions, cur, faults, ops>>
        /\ \/ CreateRecord(n, State.champion, used) /\ pc' = "run"
           \/ records' = records /\ pc' = "interrupt"
    BY <1>n, <1>u DEF RunCreate, Goto
  <1>2. n # None /\ n = Current.inFlight /\ State.champion = Current.champion /\ used \in Nat
    BY <1>n, <1>u, <1>1, Running
  <1>3. Core'
    <2>1. CASE CreateRecord(n, State.champion, used)
      BY <1>1, <1>2, <2>1, CoreCreated DEF Inductive
    <2>2. CASE records' = records  BY <1>1, <2>2, CoreQuiet DEF Inductive
    <2> QED  BY <1>1, <2>1, <2>2
  <1> QED  BY <1>1, <1>3, JournalStep

(* The record of an open experiment.                                        *)
LEMMA OpenRecord ==
    ASSUME Core, NEW n, IsOpen(n)
    PROVE  /\ records[n] \in JournalRecords /\ n \in DOMAIN records
           /\ records[n].disposition = "none" /\ records[n].after = records[n].before
           /\ records[n].spent \in Nat /\ records[n].status = "active"
  <1>1. n \in DOMAIN records /\ records[n] \in JournalRecords /\ records[n].status = "active"
    BY LastRecord DEF IsOpen, Opened
  <1>2. Recorded(n) /\ records[n].spent \in Nat  BY <1>1, LastRecord DEF Core, Journal
  <1> QED  BY <1>1, <1>2 DEF Recorded

(* Spending keeps the invariant: the experiment is still in flight.         *)
LEMMA RunSpendInductive ==
    ASSUME Inductive, RunSpend
    PROVE  Inductive'
  <1>n. PICK n : n = State.inFlight  OBVIOUS
  <1>e. PICK e : e = records[n]  OBVIOUS
  <1>m. PICK m : m = e.spent + 1  OBVIOUS
  <1>r. PICK r : r = [e EXCEPT !.spent = m]  OBVIOUS
  <1>1. /\ pc = "run" /\ pc' = "run" /\ IsOpen(n)
        /\ UNCHANGED <<states, lock, interruptions, cur, faults, ops>>
        /\ SpendRecord(n, 1)
    BY <1>n DEF RunSpend, Goto
  <1>2. n # None /\ n = Current.inFlight  BY <1>n, <1>1, Running
  <1>3. /\ e \in JournalRecords /\ n \in DOMAIN records /\ e.disposition = "none"
        /\ e.after = e.before /\ e.spent \in Nat /\ e.status = "active"
    BY <1>e, <1>1, OpenRecord DEF Inductive
  <1>4. m \in Nat  BY <1>m, <1>3
  <1>5. /\ r \in JournalRecords /\ r.before = e.before /\ r.after = e.after
        /\ r.status = "active" /\ r.disposition = "none"
    BY <1>r, <1>3, <1>4 DEF JournalRecords
  <1>6. records' = [records EXCEPT ![n] = r]
    BY <1>e, <1>m, <1>r, <1>1, <1>3 DEF SpendRecord
  <1>7. Core'
    BY <1>e, <1>1, <1>2, <1>3, <1>5, <1>6, CoreRecorded DEF Inductive
  <1> QED  BY <1>1, <1>7, JournalStep

(* Sealing in the journal keeps the invariant, whatever is decided.         *)
LEMMA RunSealInductive ==
    ASSUME Inductive, RunSeal
    PROVE  Inductive'
  <1>n. PICK n : n = State.inFlight  OBVIOUS
  <1>e. PICK e : e = records[n]  OBVIOUS
  <1>1. /\ pc = "run" /\ pc' = "complete" /\ IsOpen(n)
        /\ UNCHANGED <<states, lock, interruptions, cur, faults, ops>>
    BY <1>n DEF RunSeal, Goto
  <1>2. PICK stage \in EvaluationStages, d \in Dispositions : SealRecord(n, stage, d)
    BY <1>n DEF RunSeal
  <1>a. PICK a : a = IF d = "promoted" THEN n ELSE e.after  OBVIOUS
  <1>r. PICK r : r = [e EXCEPT !.status = "sealed", !.stage = stage, !.disposition = d,
                              !.after = a]
    OBVIOUS
  <1>3. n # None /\ n = Current.inFlight /\ n \in Nat
    BY <1>n, <1>1, Running, LastRecord DEF Inductive
  <1>4. /\ e \in JournalRecords /\ n \in DOMAIN records /\ e.after = e.before
        /\ e.status = "active"
    BY <1>e, <1>1, OpenRecord DEF Inductive
  <1>5. a \in Nat /\ stage # "none" /\ d # "none" /\ (d = "promoted" => stage = "validation")
    BY <1>a, <1>2, <1>3, <1>4 DEF JournalRecords, EvaluationStages, Dispositions, SealRecord
  <1>6. /\ r \in JournalRecords /\ r.before = e.before /\ r.after = a
        /\ r.status = "sealed" /\ r.disposition = d /\ r.stage = stage
    BY <1>r, <1>4, <1>5 DEF JournalRecords
  <1>7. records' = [records EXCEPT ![n] = r]
    BY <1>e, <1>a, <1>r, <1>2, <1>4 DEF SealRecord
  <1>8. r.after = IF r.disposition = "promoted" THEN n ELSE r.before
    BY <1>a, <1>4, <1>6
  <1>9. Core'
    BY <1>e, <1>1, <1>3, <1>5, <1>6, <1>7, <1>8, CoreRecorded DEF Inductive
  <1> QED  BY <1>1, <1>9, JournalStep

(* Interrupting in the journal keeps the invariant.                         *)
LEMMA RunFailureInductive ==
    ASSUME Inductive, RunFailure
    PROVE  Inductive'
  <1>n. PICK n : n = State.inFlight  OBVIOUS
  <1>e. PICK e : e = records[n]  OBVIOUS
  <1>r. PICK r : r = [e EXCEPT !.status = "interrupted"]  OBVIOUS
  <1>1. /\ pc = "run" /\ pc' = "interrupt" /\ IsOpen(n)
        /\ UNCHANGED <<states, lock, interruptions, cur, faults, ops>>
        /\ InterruptRecord(n)
    BY <1>n DEF RunFailure, Goto
  <1>2. n # None /\ n = Current.inFlight  BY <1>n, <1>1, Running
  <1>3. /\ e \in JournalRecords /\ n \in DOMAIN records /\ e.disposition = "none"
        /\ e.after = e.before /\ e.status = "active"
    BY <1>e, <1>1, OpenRecord DEF Inductive
  <1>4. /\ r \in JournalRecords /\ r.before = e.before /\ r.after = e.after
        /\ r.status = "interrupted" /\ r.disposition = "none"
    BY <1>r, <1>3 DEF JournalRecords
  <1>5. records' = [records EXCEPT ![n] = r]
    BY <1>e, <1>r, <1>1, <1>3 DEF InterruptRecord
  <1>6. Core'
    BY <1>e, <1>1, <1>2, <1>3, <1>4, <1>5, CoreRecorded DEF Inductive
  <1> QED  BY <1>1, <1>6, JournalStep

----------------------------------------------------------------------------
(* The induction.                                                           *)

(* The state that opens a campaign is a well-formed one.                    *)
LEMMA InitialTyped ==
    /\ InitialState \in CampaignStates /\ Sane(InitialState)
    /\ Bounds(InitialState, InitialState)
  <1>1. /\ "running" \in Statuses /\ None \in {None, "operator"}
        /\ None \in {None} \cup Tokens({"pause"}) /\ None \in {None} \cup Auths
        /\ None \in {None} \cup Nat /\ None \in {None} \cup Dispositions
        /\ <<"acct", 0>> \in Tokens({"acct"})
        /\ <<"limit", None>> \in {"limit"} \X ({None} \cup Auths)
        /\ <<"genesis", 0>> \in Tokens({"genesis", "replenish", "seal"})
        /\ <<"genesis", 0>> \in Tokens({"genesis", "seal", "exposure"})
        /\ <<"genesis", 0>> \in Tokens({"genesis", "seal", "checkpoint"})
        /\ InitialLimit \in Nat /\ InitialFresh \in Nat /\ 0 \in Nat /\ 1 \in Nat
        /\ FALSE \in BOOLEAN
    BY StoreAssumption DEF Statuses, Tokens
  <1>2. InitialState \in CampaignStates
    BY <1>1, ZenonT(60) DEF InitialState, CampaignStates
  <1>3. Sane(InitialState)
    BY StoreAssumption DEF Sane, InitialState
  <1>4. Bounds(InitialState, InitialState)
    BY DEF Bounds, InitialState
  <1> QED  BY <1>2, <1>3, <1>4

(* The invariant holds initially.                                           *)
LEMMA InitInductive ==
    ASSUME Init
    PROVE  Inductive
  <1>p. PICK p : p = InitialState  OBVIOUS
  <1>1. /\ states = <<p>> /\ lock = "free" /\ records = <<>>
        /\ interruptions = [n \in Numbers |-> None]
        /\ pc = "down" /\ cur = 1 /\ faults = 0 /\ ops = 0
    BY <1>p DEF Init, StoreInit, PortsInit, OutcomeInit
  <1>2. p \in CampaignStates /\ Sane(p) /\ Bounds(p, p)  BY <1>p, InitialTyped
  <1>3. /\ p.sealed = 0 /\ p.interrupted = 0 /\ p.champion = 0 /\ p.next = 1
        /\ p.inFlight = None /\ p.ledger = <<"genesis", 0>>
    BY <1>p DEF InitialState
  <1>4. /\ Len(states) = 1 /\ DOMAIN states = {1} /\ states[1] = p
        /\ states \in Seq(CampaignStates) /\ states # <<>> /\ Current = p
    BY <1>1, <1>2 DEF Current
  <1>5. History
    <2>1. NoReuse(states)
      BY <1>4 DEF NoReuse, Enters
    <2>2. ValidHistory(states)  BY <1>p, <1>4, <2>1 DEF ValidHistory
    <2>3. \A i \in DOMAIN states : Bounds(states[i], Current) /\ Pointed(i)
      BY <1>2, <1>3, <1>4 DEF Pointed
    <2>4. Current.inFlight = None /\ 1 .. Current.next - 1 = {}  BY <1>3, <1>4
    <2> QED  BY <1>2, <1>4, <2>2, <2>3, <2>4 DEF History
  <1>6. Journal /\ DOMAIN records = {}
    BY <1>1, <1>3, <1>4 DEF Journal
  <1>7. RecordsAgree /\ SpendNotLost
    BY <1>1, <1>3, <1>4, <1>6 DEF RecordsAgree, SpendNotLost, ChampionNow, Opened
  <1>8. Held
    BY <1>1, <1>4 DEF Held, AsHeld
  <1>9. ActiveInterruptions = {}  BY <1>1 DEF ActiveInterruptions
  <1>10. Ports  BY <1>1, <1>9 DEF Ports
  <1>11. Place
    BY <1>1, LoopAssumption DEF Place, At, Undisturbed, Applying, InFlight
  <1> QED  BY <1>5, <1>6, <1>7, <1>8, <1>10, <1>11 DEF Inductive, Core

(* Every step keeps the invariant, a stuttering one included.               *)
LEMMA NextInductive ==
    ASSUME Inductive, [Next]_loopVars
    PROVE  Inductive'
  <1>1. CASE Load  BY <1>1, LoadInductive
  <1>2. CASE IdleAck \/ SealAck \/ AckStop  BY <1>2, AcknowledgeInductive
  <1>3. CASE BeginOperatorStop  BY <1>3, BeginOperatorStopInductive
  <1>4. CASE Claim  BY <1>4, ClaimInductive
  <1>5. CASE Resolve  BY <1>5, ResolveInductive
  <1>6. CASE RunCreate  BY <1>6, RunCreateInductive
  <1>7. CASE RunSpend  BY <1>7, RunSpendInductive
  <1>8. CASE RunSeal  BY <1>8, RunSealInductive
  <1>9. CASE RunFailure  BY <1>9, RunFailureInductive
  <1>10. CASE RunReplay \/ RunReplayRefused \/ RunInterrupted \/ RunThrows
    BY <1>10, RunStopsInductive
  <1>11. CASE Complete  BY <1>11, CompleteInductive
  <1>12. CASE Usage  BY <1>12, UsageInductive
  <1>13. CASE Seal  BY <1>13, SealInductive
  <1>14. CASE Interrupt  BY <1>14, InterruptInductive
  <1>15. CASE Apply  BY <1>15, ApplyInductive
  <1>16. CASE ChargeInterrupted  BY <1>16, ChargeInterruptedInductive
  <1>17. CASE ArchiveInterrupted  BY <1>17, ArchiveInterruptedInductive
  <1>18. CASE PrepareControl  BY <1>18, PrepareControlInductive
  <1>19. CASE Settle  BY <1>19, SettleInductive
  <1>20. CASE MarkApplied  BY <1>20, MarkAppliedInductive
  <1>21. CASE Crash  BY <1>21, CrashInductive
  <1>22. CASE \/ OperatorStop \/ OperatorResume \/ OperatorExtend \/ OperatorReplenish
              \/ OperatorCheckpoint \/ OperatorRecoverLock
    BY <1>22, OperatorInductive
  <1>23. CASE UNCHANGED loopVars
    <2>1. UNCHANGED <<states, lock, interruptions, records, pc, cur, faults, ops>>
      BY <1>23 DEF loopVars
    <2>2. Ports' /\ At(pc)'
      BY <2>1, PortsStay, StaysAt DEF Inductive, Place
    <2> QED  BY <2>1, <2>2, QuietStep DEF Inductive, Place
  <1> QED
    BY <1>1, <1>2, <1>3, <1>4, <1>5, <1>6, <1>7, <1>8, <1>9, <1>10, <1>11, <1>12, <1>13,
       <1>14, <1>15, <1>16, <1>17, <1>18, <1>19, <1>20, <1>21, <1>22, <1>23
       DEF Next, Process, Environment

(* The inductive invariant holds in every reachable state: the history is   *)
(* well numbered, the state the process holds is true of the head, and at   *)
(* every place of the process what it goes on to rely on holds.             *)
THEOREM LoopInductive == Spec => []Inductive
  <1>1. Init => Inductive  BY InitInductive
  <1>2. Inductive /\ [Next]_loopVars => Inductive'  BY NextInductive
  <1> QED  BY <1>1, <1>2, PTL DEF Spec

(* Whatever the store accepted, the chain still passes validateHistory, and *)
(* every port and place has its type.                                       *)
THEOREM LoopHistoryReadable == Spec => []HistoryReadable
  <1>1. ASSUME Inductive  PROVE HistoryReadable
    <2>1. ValidHistory(states) /\ cur \in 1 .. Len(states)
      BY <1>1 DEF Inductive, Core, History, Held
    <2>2. /\ pc \in Labels /\ lock \in {"free", "abandoned"}
          /\ faults \in 0 .. MaxFaults /\ ops \in 0 .. MaxOps
      BY <1>1 DEF Inductive, Place, At, Labels, Undisturbed, Applying
    <2>3. ASSUME NEW n \in Numbers, interruptions[n] # None
          PROVE  /\ interruptions[n].class \in FailureClasses
                 /\ interruptions[n].control \in {None, "stop", "pause"}
                 /\ interruptions[n].archive \in {None} \cup DOMAIN states
                 /\ interruptions[n].final \in {None} \cup DOMAIN states
      <3>1. interruptions[n] \in Interruptions
        BY <1>1, <2>3 DEF Inductive, Ports
      <3> QED  BY <1>1, <2>3, <3>1 DEF Inductive, Ports, Interruptions
    <2> QED  BY <2>1, <2>2, <2>3 DEF HistoryReadable, TypeOK
  <1> QED  BY <1>1, LoopInductive, PTL

(* The campaign and the journal agree on how every experiment ended and on  *)
(* the champion.                                                            *)
THEOREM LoopRecordsAgree == Spec => []RecordsAgree
  <1>1. Inductive => RecordsAgree  BY DEF Inductive, Core
  <1> QED  BY <1>1, LoopInductive, PTL

(* What a concluded experiment spent is charged to the campaign.            *)
THEOREM LoopSpendNotLost == Spec => []SpendNotLost
  <1>1. Inductive => SpendNotLost  BY DEF Inductive, Core
  <1> QED  BY <1>1, LoopInductive, PTL

----------------------------------------------------------------------------
(* What a step writes.                                                      *)

(* A state that is appended becomes the head, with its fields.              *)
LEMMA Written ==
    ASSUME History, NEW s, NEW late, Append1(s, late), DOMAIN s = Fields
    PROVE  /\ states' = Append(states, Current')
           /\ \A f \in Fields \ {"late"} : Current'[f] = s[f]
  <1>q. PICK q : q = [s EXCEPT !.late = late]  OBVIOUS
  <1>S. PICK S : S = CampaignStates \cup {q}  OBVIOUS
  <1>1. states \in Seq(S) /\ q \in S
    <2>1. \A i \in 1 .. Len(states) : states[i] \in S  BY <1>S, HeadTyped
    <2> QED  BY <1>S, <2>1, SeqDef, LenProperties DEF History
  <1>2. states' = Append(states, q)  BY <1>q DEF Append1
  <1>3. Len(states') = Len(states) + 1 /\ states'[Len(states) + 1] = q
    BY <1>1, <1>2, AppendProperties
  <1>4. Current' = q  BY <1>3 DEF Current
  <1>5. \A f \in Fields \ {"late"} : q[f] = s[f]  BY <1>q
  <1> QED  BY <1>2, <1>4, <1>5

(* Nothing is allocated, sealed or archived.                                *)
Kept == /\ Current'.next = Current.next /\ Current'.inFlight = Current.inFlight
        /\ Current'.sealed = Current.sealed
Steady == Current'.status = Current.status

Wrote == /\ states' = Append(states, Current')
         /\ \/ pc = "claim" /\ Current.status = "running" /\ Steady
            \/ pc = "seal" /\ Steady /\ Current'.next = Current.next
            \/ /\ pc = "archive" /\ Steady
               /\ Current'.next = Current.next /\ Current'.sealed = Current.sealed
            \/ Kept

(* A stop, requested or acknowledged, allocates and concludes nothing.      *)
LEMMA KeptWrite ==
    ASSUME Inductive,
           NEW s \in {StopRequested("operator"), Acknowledged},
           NEW late, Append1(s, late)
    PROVE  Wrote
  <1>1. History /\ DOMAIN Current = Fields  BY HeadTyped DEF Inductive, Core
  <1>2. /\ DOMAIN s = Fields
        /\ s.next = Current.next /\ s.inFlight = Current.inFlight
        /\ s.sealed = Current.sealed
    BY <1>1 DEF StopRequested, Acknowledged, Fields
  <1> QED  BY <1>1, <1>2, Written DEF Wrote, Kept, Fields

(* Neither does any other operation of the store that takes a token or an   *)
(* authorization.                                                           *)
LEMMA KeptWriteOf ==
    ASSUME Inductive, NEW a, NEW b, NEW late,
           NEW s \in {Paused(a), Resumed(a), UsageRecorded(a, b), Extended(a, b),
                      Replenished(a), Checkpointed(a), Recovered(a)},
           Append1(s, late)
    PROVE  Wrote
  <1>1. History /\ DOMAIN Current = Fields  BY HeadTyped DEF Inductive, Core
  <1>2. /\ DOMAIN s = Fields
        /\ s.next = Current.next /\ s.inFlight = Current.inFlight
        /\ s.sealed = Current.sealed
    BY <1>1, ZenonT(60)
       DEF Paused, Resumed, UsageRecorded, Extended, Replenished, Checkpointed,
           Recovered, Fields
  <1> QED  BY <1>1, <1>2, Written DEF Wrote, Kept, Fields

(* A claim allocates only in a running campaign and keeps its status.       *)
LEMMA ClaimWrites ==
    ASSUME Inductive, Claim
    PROVE  states' = states \/ Wrote
  <1>1. CASE states' = states  BY <1>1
  <1>2. CASE states' # states
    <2>1. PICK late : Append1(Allocated, late)
      BY <1>2 DEF Claim, Swap, Commit
    <2>2. pc = "claim" /\ Current.status = "running"
      BY <1>2 DEF Claim, Swap, CanSwap, MayAllocate
    <2>3. History /\ DOMAIN Current = Fields  BY HeadTyped DEF Inductive, Core
    <2>4. DOMAIN Allocated = Fields /\ Allocated.status = Current.status
      BY <2>3 DEF Allocated, Fields
    <2> QED  BY <2>1, <2>2, <2>3, <2>4, Written DEF Wrote, Steady, Fields
  <1> QED  BY <1>1, <1>2

(* A seal keeps status and numbering.                                       *)
LEMMA SealWrites ==
    ASSUME Inductive, Seal
    PROVE  states' = states \/ Wrote
  <1>1. CASE states' = states  BY <1>1
  <1>2. CASE states' # states
    <2>n. PICK n : n = State.inFlight  OBVIOUS
    <2>g. PICK g : g = records[n].stage  OBVIOUS
    <2>d. PICK d : d = records[n].disposition  OBVIOUS
    <2>c. PICK c : c = IF d = "promoted" THEN n ELSE None  OBVIOUS
    <2>1. PICK late : Append1(Sealed(n, g, d, c), late)
      BY <1>2, <2>n, <2>g, <2>d, <2>c DEF Seal, Swap, Commit
    <2>2. pc = "seal"  BY DEF Seal
    <2>3. History /\ DOMAIN Current = Fields  BY HeadTyped DEF Inductive, Core
    <2>4. /\ DOMAIN Sealed(n, g, d, c) = Fields
          /\ Sealed(n, g, d, c).status = Current.status
          /\ Sealed(n, g, d, c).next = Current.next
      BY <2>3 DEF Sealed, Fields
    <2> QED  BY <2>1, <2>2, <2>3, <2>4, Written DEF Wrote, Steady, Fields
  <1> QED  BY <1>1, <1>2

(* An archive keeps status, numbering and the sealed pointer.               *)
LEMMA ArchiveWrites ==
    ASSUME Inductive, ArchiveInterrupted
    PROVE  states' = states \/ Wrote
  <1>1. CASE states' = states  BY <1>1
  <1>2. CASE states' # states
    <2>n. PICK n : n = FindPending  OBVIOUS
    <2>t. PICK t : t = <<"exposure", n>>  OBVIOUS
    <2>1. PICK late : Append1(Archived(n, t), late)
      BY <1>2, <2>n, <2>t DEF ArchiveInterrupted, Swap, Commit
    <2>2. pc = "archive"  BY DEF ArchiveInterrupted
    <2>3. History /\ DOMAIN Current = Fields  BY HeadTyped DEF Inductive, Core
    <2>4. /\ DOMAIN Archived(n, t) = Fields
          /\ Archived(n, t).status = Current.status
          /\ Archived(n, t).next = Current.next
          /\ Archived(n, t).sealed = Current.sealed
      BY <2>3 DEF Archived, Fields
    <2> QED  BY <2>1, <2>2, <2>3, <2>4, Written DEF Wrote, Steady, Fields
  <1> QED  BY <1>1, <1>2

(* Every step of the system writes nothing or one of these.                 *)
LEMMA NextWrites ==
    ASSUME Inductive, [Next]_loopVars
    PROVE  states' = states \/ Wrote
  <1>1. CASE states' = states  BY <1>1
  <1>2. CASE states' # states
    <2>1. CASE Claim  BY <2>1, ClaimWrites
    <2>2. CASE Seal  BY <2>2, SealWrites
    <2>3. CASE ArchiveInterrupted  BY <2>3, ArchiveWrites
    <2>4. CASE IdleAck \/ SealAck \/ AckStop
      <3>1. PICK late : Append1(Acknowledged, late)
        BY <1>2, <2>4 DEF IdleAck, SealAck, AckStop, Swap, Commit
      <3> QED  BY <3>1, KeptWrite
    <2>5. CASE Usage
      <3>1. \E a, b, late : Append1(UsageRecorded(a, b), late)
        BY <1>2, <2>5 DEF Usage, Swap, Commit
      <3>2. PICK a, b, late : Append1(UsageRecorded(a, b), late)  BY <3>1
      <3> QED  BY <3>2, KeptWriteOf
    <2>6. CASE ChargeInterrupted
      <3>1. \E a, b, late : Append1(UsageRecorded(a, b), late)
        BY <1>2, <2>6 DEF ChargeInterrupted, Swap, Commit
      <3>2. PICK a, b, late : Append1(UsageRecorded(a, b), late)  BY <3>1
      <3> QED  BY <3>2, KeptWriteOf
    <2>7. CASE Settle
      <3>1. \/ \E late : Append1(StopRequested("operator"), late)
            \/ \E a, late : Append1(Paused(a), late)
        <4>1. CASE State.status = "running" /\ interruptions[FindPending].control = "stop"
          BY <1>2, <2>7, <4>1 DEF Settle, Swap, Commit
        <4>2. CASE State.status = "running" /\ interruptions[FindPending].control # "stop"
          BY <1>2, <2>7, <4>2 DEF Settle, Swap, Commit
        <4>3. CASE State.status = "paused"  BY <1>2, <2>7, <4>3 DEF Settle
        <4>4. CASE State.status \notin {"running", "paused"}  BY <1>2, <2>7, <4>4 DEF Settle
        <4> QED  BY <4>1, <4>2, <4>3, <4>4
      <3>2. CASE \E late : Append1(StopRequested("operator"), late)  BY <3>2, KeptWrite
      <3>3. CASE \E a, late : Append1(Paused(a), late)
        <4>1. PICK a, late : Append1(Paused(a), late)  BY <3>3
        <4> QED  BY <4>1, KeptWriteOf
      <3> QED  BY <3>1, <3>2, <3>3
    <2>8. CASE OperatorStop
      <3>1. PICK late : Append1(StopRequested("operator"), late)
        BY <2>8 DEF OperatorStop, Operate, Commit
      <3> QED  BY <3>1, KeptWrite
    <2>9. CASE OperatorResume
      <3>1. PICK a, late : Append1(Resumed(a), late)
        BY <2>9 DEF OperatorResume, Operate, Commit
      <3> QED  BY <3>1, KeptWriteOf
    <2>10. CASE OperatorExtend
      <3>1. PICK a, b, late : Append1(Extended(a, b), late)
        BY <2>10 DEF OperatorExtend, Operate, Commit
      <3> QED  BY <3>1, KeptWriteOf
    <2>11. CASE OperatorReplenish
      <3>1. PICK a, late : Append1(Replenished(a), late)
        BY <2>11 DEF OperatorReplenish, Operate, Commit
      <3> QED  BY <3>1, KeptWriteOf
    <2>12. CASE OperatorCheckpoint
      <3>1. PICK a, late : Append1(Checkpointed(a), late)
        BY <2>12 DEF OperatorCheckpoint, Operate, Commit
      <3> QED  BY <3>1, KeptWriteOf
    <2>13. CASE OperatorRecoverLock
      <3>1. PICK a, late : Append1(Recovered(a), late)
        BY <2>13 DEF OperatorRecoverLock, Operate, Commit
      <3> QED  BY <3>1, KeptWriteOf
    <2>14. CASE Load \/ BeginOperatorStop \/ Resolve \/ RunCreate \/ RunSpend \/ RunSeal
      BY <1>2, <2>14 DEF Load, BeginOperatorStop, Resolve, RunCreate, RunSpend, RunSeal
    <2>15. CASE \/ RunReplay \/ RunReplayRefused \/ RunFailure \/ RunInterrupted
                \/ RunThrows \/ Crash
      BY <1>2, <2>15 DEF RunReplay, RunReplayRefused, RunFailure, RunInterrupted,
                         RunThrows, Crash
    <2>16. CASE Complete \/ Interrupt \/ Apply \/ PrepareControl \/ MarkApplied
      BY <1>2, <2>16 DEF Complete, Interrupt, Apply, PrepareControl, MarkApplied
    <2> QED
      BY <1>2, <2>1, <2>2, <2>3, <2>4, <2>5, <2>6, <2>7, <2>8, <2>9, <2>10, <2>11,
         <2>12, <2>13, <2>14, <2>15, <2>16 DEF Next, Process, Environment, loopVars
  <1> QED  BY <1>1, <1>2

(* The runner writes the journal, and nobody else.                          *)
LEMMA JournalWrites ==
    ASSUME [Next]_loopVars, pc # "run"
    PROVE  records' = records
  <1>1. CASE \/ Load \/ IdleAck \/ BeginOperatorStop \/ Claim \/ Resolve
             \/ Complete \/ Usage \/ Seal \/ SealAck
    BY <1>1 DEF Load, IdleAck, BeginOperatorStop, Claim, Resolve, Complete, Usage, Seal,
                SealAck, UnchangedButStates
  <1>2. CASE \/ Interrupt \/ Apply \/ ChargeInterrupted \/ ArchiveInterrupted
             \/ PrepareControl \/ Settle \/ AckStop \/ MarkApplied
    BY <1>2 DEF Interrupt, Apply, ChargeInterrupted, ArchiveInterrupted, PrepareControl,
                Settle, AckStop, MarkApplied, UnchangedButStates
  <1>3. CASE \/ OperatorStop \/ OperatorResume \/ OperatorExtend \/ OperatorReplenish
             \/ OperatorCheckpoint \/ OperatorRecoverLock
    BY <1>3 DEF OperatorStop, OperatorResume, OperatorExtend, OperatorReplenish,
                OperatorCheckpoint, OperatorRecoverLock, Operate
  <1>4. CASE RunThrows \/ Crash \/ UNCHANGED loopVars
    BY <1>4 DEF RunThrows, Crash, loopVars
  <1>5. CASE \/ RunCreate \/ RunSpend \/ RunSeal \/ RunReplay \/ RunReplayRefused
             \/ RunFailure \/ RunInterrupted
    BY <1>5 DEF RunCreate, RunSpend, RunSeal, RunReplay, RunReplayRefused, RunFailure,
                RunInterrupted
  <1> QED  BY <1>1, <1>2, <1>3, <1>4, <1>5 DEF Next, Process, Environment

(* While an interruption waits, whoever waits and whatever crashes, no      *)
(* experiment is claimed, run or sealed.                                    *)
THEOREM LoopInterruptionFirst == Spec => InterruptionFirst
  <1>1. ASSUME Inductive, [Next]_loopVars, ActiveInterruptions # {}
        PROVE  /\ Current'.next = Current.next
               /\ Current'.sealed = Current.sealed
               /\ records' = records
    <2>1. pc \notin {"claim", "run", "seal"}
      BY <1>1 DEF Inductive, Place, At, Undisturbed
    <2>2. records' = records  BY <1>1, <2>1, JournalWrites
    <2>3. states' = states \/ Wrote  BY <1>1, NextWrites
    <2>4. CASE states' = states  BY <2>2, <2>4 DEF Current
    <2>5. CASE Wrote  BY <2>1, <2>2, <2>5 DEF Wrote, Kept
    <2> QED  BY <2>3, <2>4, <2>5
  <1> QED  BY <1>1, LoopInductive, PTL DEF Spec, InterruptionFirst

----------------------------------------------------------------------------
(* The campaign implements the ledger of experiments: what validateHistory  *)
(* allows between two states is one conclusion or one allocation at most.   *)

Outcomes == [n \in 1 .. Current.next - 1 |-> LedgerOutcome(n)]

(* The head after a step is a well-formed state.                            *)
LEMMA NextHeadTyped ==
    ASSUME Inductive'
    PROVE  /\ Current' \in CampaignStates /\ Typed(Current')
           /\ Len(states') \in DOMAIN states' /\ Current' = states'[Len(states')]
           /\ \A i \in DOMAIN states' : states'[i] \in CampaignStates /\ Typed(states'[i])
  <1>1. states' \in Seq(CampaignStates) /\ states' # <<>>
    BY DEF Inductive, Core, History
  <1>2. Len(states') \in Nat /\ Len(states') # 0 /\ DOMAIN states' = 1 .. Len(states')
    BY <1>1, EmptySeq, LenProperties
  <1>3. \A i \in DOMAIN states' : states'[i] \in CampaignStates
    BY <1>1, <1>2, ElementOfSeq
  <1>4. Current' = states'[Len(states')]  BY DEF Current
  <1> QED  BY <1>2, <1>3, <1>4, FieldsTyped

(* How an experiment ended, from the pointers of the history.               *)
LEMMA OutcomeOpen ==
    ASSUME History, NEW n \in Nat, n > Current.sealed, n > Current.interrupted
    PROVE  LedgerOutcome(n) = "inFlight"
  <1>1. ASSUME NEW i \in DOMAIN states
        PROVE  states[i].sealed # n /\ states[i].interrupted # n
    <2>1. Bounds(states[i], Current)  BY DEF History
    <2>2. /\ states[i].sealed \in Nat /\ states[i].interrupted \in Nat
          /\ Current.sealed \in Nat /\ Current.interrupted \in Nat
      BY HeadTyped, FieldsTyped DEF Typed
    <2> QED  BY <2>1, <2>2 DEF Bounds
  <1> QED  BY <1>1 DEF LedgerOutcome

(* An experiment the history names sealed or interrupted is concluded.      *)
LEMMA OutcomeEnded ==
    ASSUME NEW n, Ended(n)
    PROVE  LedgerOutcome(n) # "inFlight"
  BY DEF LedgerOutcome, Ended

(* An appended state concludes at most the experiment it newly names.       *)
LEMMA OutcomeGrows ==
    ASSUME Inductive, Inductive', states' = Append(states, Current'), NEW n,
           Current'.sealed \in {Current.sealed} \/ n # Current'.sealed,
           Current'.interrupted \in {Current.interrupted} \/ n # Current'.interrupted
    PROVE  LedgerOutcome(n)' = LedgerOutcome(n)
  <1>1. Current' \in CampaignStates  BY NextHeadTyped
  <1>2. /\ DOMAIN states' = DOMAIN states \cup {Len(states) + 1}
        /\ \A i \in DOMAIN states : states'[i] = states[i]
        /\ states'[Len(states) + 1] = Current' /\ Len(states) \in DOMAIN states
    BY <1>1, Grown, HeadTyped DEF Inductive, Core, History
  <1>3. (\E i \in DOMAIN states' : states'[i].sealed = n)
           <=> (\E i \in DOMAIN states : states[i].sealed = n)
    BY <1>2 DEF Current
  <1>4. (\E i \in DOMAIN states' : states'[i].interrupted = n)
           <=> (\E i \in DOMAIN states : states[i].interrupted = n)
    BY <1>2 DEF Current
  <1> QED  BY <1>3, <1>4 DEF LedgerOutcome

(* The law of a transition, as it concerns the ledger.                      *)
LEMMA LawOfLedger ==
    ASSUME Inductive, Inductive', states' = Append(states, Current')
    PROVE  /\ Current'.next \in Nat /\ Current.next \in Nat \ {0}
           /\ Current.sealed \in Nat /\ Current'.sealed \in Nat
           /\ Current.interrupted \in Nat /\ Current'.interrupted \in Nat
           /\ NumberingLawful(Current, Current') /\ ChampionLawful(Current, Current')
           /\ ReconstructionLawful(Current, Current')
           /\ Current.champion \in Nat /\ Current'.champion \in Nat
           /\ Current.next > Current.sealed /\ Current.next > Current.interrupted
           /\ Current.inFlight # None =>
                 /\ Current.inFlight = Current.next - 1 /\ Current.inFlight \in Nat
                 /\ Current.inFlight > Current.sealed
                 /\ Current.inFlight > Current.interrupted
  <1>1. History /\ History' /\ Sane(Current)  BY DEF Inductive, Core, History
  <1>2. Typed(Current) /\ Typed(Current')  BY <1>1, HeadTyped, NextHeadTyped
  <1>3. LawfulTransition(Current, Current')
    <2>1. Current' \in CampaignStates  BY NextHeadTyped
    <2>2. /\ Len(states') = Len(states) + 1 /\ states'[Len(states)] = Current
          /\ states'[Len(states) + 1] = Current' /\ Len(states) \in Nat \ {0}
      BY <1>1, <2>1, Grown, HeadTyped DEF History, Current
    <2>3. Len(states') \in 2 .. Len(states') /\ Len(states') - 1 = Len(states)
      BY <2>2
    <2>4. \A i \in 2 .. Len(states') : LawfulTransition(states'[i - 1], states'[i])
      BY <1>1 DEF History, ValidHistory
    <2> QED  BY <2>2, <2>3, <2>4
  <1>4. /\ Current'.next \in Nat /\ Current.next \in Nat
        /\ Current.sealed \in Nat /\ Current'.sealed \in Nat
        /\ Current.interrupted \in Nat /\ Current'.interrupted \in Nat
        /\ Current.champion \in Nat /\ Current'.champion \in Nat
        /\ Current.inFlight \in {None} \cup Nat
    BY <1>2 DEF Typed
  <1>5. /\ NumberingLawful(Current, Current') /\ ChampionLawful(Current, Current')
        /\ ReconstructionLawful(Current, Current')
    BY <1>3 DEF LawfulTransition
  <1> QED  BY <1>1, <1>4, <1>5 DEF Sane

(* A state with a new number implements the ledger's Allocate.              *)
LEMMA LedgerAllocates ==
    ASSUME Inductive, Inductive', states' = Append(states, Current'),
           Current'.next # Current.next, Current.status = "running", Steady
    PROVE  Ledger!LedgerNext
  <1>m. PICK m : m = Current.next  OBVIOUS
  <1>1. /\ m \in Nat \ {0} /\ Current'.next = m + 1
        /\ Current.inFlight = None /\ Current'.inFlight = m
        /\ Current'.sealed = Current.sealed /\ Current'.interrupted = Current.interrupted
        /\ Current'.champion = Current.champion
        /\ m > Current'.sealed /\ m > Current'.interrupted
    BY <1>m, LawOfLedger, StoreAssumption
       DEF NumberingLawful, ChampionLawful, ReconstructionLawful
  <1>2. \A n \in 1 .. m - 1 : LedgerOutcome(n) # "inFlight"
    <2>1. \A n \in 1 .. m - 1 : Ended(n)
      BY <1>m, <1>1, StoreAssumption DEF Inductive, Core, History
    <2> QED  BY <2>1, OutcomeEnded
  <1>3. \A n : LedgerOutcome(n)' = LedgerOutcome(n)
    <2> TAKE n
    <2> QED  BY <1>1, OutcomeGrows
  <1>4. LedgerOutcome(m) = "inFlight"
    BY <1>1, OutcomeOpen DEF Inductive, Core
  <1>o. PICK o : o = Outcomes  OBVIOUS
  <1>5. /\ DOMAIN o = 1 .. m - 1 /\ o = [n \in 1 .. m - 1 |-> LedgerOutcome(n)]
    BY <1>m, <1>o DEF Outcomes
  <1>6. Outcomes' = [n \in 1 .. m |-> IF n = m THEN "inFlight" ELSE o[n]]
    <2>1. 1 .. (m + 1) - 1 = 1 .. m  BY <1>1
    <2>2. Outcomes' = [n \in 1 .. m |-> LedgerOutcome(n)]  BY <1>1, <1>3, <2>1 DEF Outcomes
    <2>3. \A n \in 1 .. m : LedgerOutcome(n) = IF n = m THEN "inFlight" ELSE o[n]
      BY <1>1, <1>4, <1>5
    <2> QED  BY <2>2, <2>3
  <1>7. o \in Seq({"inFlight", "sealed", "interrupted"}) /\ Len(o) = m - 1
    BY <1>1, <1>5 DEF LedgerOutcome
  <1>8. Append(o, "inFlight") = [n \in 1 .. m |-> IF n = m THEN "inFlight" ELSE o[n]]
    BY <1>1, <1>5, <1>7
  <1>9. Outcomes' = Append(Outcomes, "inFlight")  BY <1>o, <1>6, <1>8
  <1>10. \A n \in DOMAIN Outcomes : Outcomes[n] # "inFlight"
    BY <1>o, <1>2, <1>5
  <1> QED
    BY <1>1, <1>9, <1>10
       DEF Ledger!LedgerNext, Ledger!Allocate, Ledger!AllConcluded, Ledger!Concluded,
           Outcomes, Steady

(* A state that takes an experiment out of flight implements the ledger's   *)
(* Conclude.                                                                *)
LEMMA LedgerConcludes ==
    ASSUME Inductive, Inductive', states' = Append(states, Current'),
           Current'.next = Current.next, Current'.inFlight # Current.inFlight, Steady
    PROVE  Ledger!LedgerNext
  <1>n. PICK n : n = Current.inFlight  OBVIOUS
  <1>1. /\ n # None /\ Current'.inFlight = None /\ n \in {Current'.interrupted, Current'.sealed}
        /\ n \in Nat \ {0} /\ n = Current.next - 1
        /\ n > Current.sealed /\ n > Current.interrupted
    BY <1>n, LawOfLedger DEF NumberingLawful
  <1>o. PICK o : o = Outcomes  OBVIOUS
  <1>2. /\ DOMAIN o = 1 .. n /\ o = [m \in 1 .. n |-> LedgerOutcome(m)]
        /\ n \in DOMAIN o
    <2>1. Current.next \in Nat /\ Current.next - 1 = n /\ n \in 1 .. n
      BY <1>1, LawOfLedger
    <2> QED  BY <1>o, <2>1 DEF Outcomes
  <1>3. o[n] = "inFlight"  BY <1>1, <1>2, OutcomeOpen DEF Inductive, Core
  <1>4. ASSUME NEW m \in 1 .. n, m # n
        PROVE  LedgerOutcome(m)' = o[m]
    <2>1. /\ Current'.sealed \in {Current.sealed} \/ m # Current'.sealed
          /\ Current'.interrupted \in {Current.interrupted} \/ m # Current'.interrupted
      BY <1>n, <1>4, LawOfLedger DEF NumberingLawful, ReconstructionLawful
    <2> QED  BY <1>2, <1>4, <2>1, OutcomeGrows
  <1>5. Len(states') \in DOMAIN states' /\ states'[Len(states')] = Current'
    BY NextHeadTyped
  <1>6. CASE n = Current'.sealed
    <2>1. LedgerOutcome(n)' = "sealed"  BY <1>5, <1>6 DEF LedgerOutcome
    <2>2. Outcomes' = [o EXCEPT ![n] = "sealed"]
      BY <1>1, <1>2, <1>4, <2>1 DEF Outcomes
    <2>3. Current'.champion \in {Current.champion, n}
      BY <1>6, LawOfLedger DEF ChampionLawful
    <2> QED
      BY <1>1, <1>o, <1>2, <1>3, <2>2, <2>3
         DEF Ledger!LedgerNext, Ledger!Conclude, Ledger!Concluded, Outcomes, Steady
  <1>7. CASE n # Current'.sealed
    <2>1. /\ n = Current'.interrupted /\ Current'.sealed = Current.sealed
          /\ Current'.champion = Current.champion
      BY <1>n, <1>1, <1>7, LawOfLedger DEF ChampionLawful, ReconstructionLawful
    <2>2. LedgerOutcome(n)' = "interrupted"
      <3>1. ASSUME NEW i \in DOMAIN states'
            PROVE  states'[i].sealed # n
        <4>1. Bounds(states'[i], Current')  BY <3>1 DEF Inductive, Core, History
        <4>2. states'[i].sealed \in Nat
          BY <3>1, NextHeadTyped DEF Typed
        <4> QED  BY <1>1, <2>1, <4>1, <4>2, LawOfLedger DEF Bounds
      <3> QED  BY <1>5, <2>1, <3>1 DEF LedgerOutcome
    <2>3. Outcomes' = [o EXCEPT ![n] = "interrupted"]
      BY <1>1, <1>2, <1>4, <2>2 DEF Outcomes
    <2> QED
      BY <1>1, <1>o, <1>2, <1>3, <2>1, <2>3
         DEF Ledger!LedgerNext, Ledger!Conclude, Ledger!Concluded, Outcomes, Steady
  <1> QED  BY <1>6, <1>7

(* Any other state implements the ledger's Control.                         *)
LEMMA LedgerControls ==
    ASSUME Inductive, Inductive', states' = Append(states, Current'),
           Current'.next = Current.next, Current'.inFlight = Current.inFlight
    PROVE  Ledger!LedgerNext
  <1>1. /\ Current'.sealed = Current.sealed /\ Current'.interrupted = Current.interrupted
        /\ Current'.champion = Current.champion
    BY LawOfLedger, StoreAssumption
       DEF NumberingLawful, ChampionLawful, ReconstructionLawful
  <1>2. \A n : LedgerOutcome(n)' = LedgerOutcome(n)
    <2> TAKE n
    <2> QED  BY <1>1, OutcomeGrows
  <1>3. Outcomes' = Outcomes  BY <1>2 DEF Outcomes
  <1> QED
    BY <1>1, <1>3 DEF Ledger!LedgerNext, Ledger!Control, Outcomes

(* The autonomous campaign implements ExperimentLedger: its experiments are *)
(* numbered without a gap, one at a time is open, each is concluded once,   *)
(* and only the experiment just sealed becomes the champion.                *)
THEOREM LoopKeepsLedger == Spec => KeepsLedger
  <1>1. Init => Ledger!LedgerInit
    <2>1. ASSUME Init
          PROVE  Ledger!LedgerInit
      <3>p. PICK p : p = InitialState  OBVIOUS
      <3>1. p.next = 1 /\ p.champion = 0 /\ p.status = "running"
        BY <3>p DEF InitialState
      <3>2. Current = p  BY <2>1, <3>p DEF Init, StoreInit, Current
      <3>3. Outcomes = <<>>
        <4>1. 1 .. Current.next - 1 = {}  BY <3>1, <3>2
        <4> QED  BY <4>1 DEF Outcomes
      <3> QED  BY <3>1, <3>2, <3>3 DEF Ledger!LedgerInit, Outcomes
    <2> QED  BY <2>1
  <1>2. ASSUME Inductive, Inductive', [Next]_loopVars
        PROVE  [Ledger!LedgerNext]_<<Outcomes, Current.champion, Current.status = "running">>
    <2>1. states' = states \/ Wrote  BY <1>2, NextWrites
    <2>2. CASE states' = states
      BY <2>2 DEF Outcomes, LedgerOutcome, Current
    <2>3. CASE Wrote
      <3>1. states' = Append(states, Current')  BY <2>3 DEF Wrote
      <3>2. CASE Current'.next # Current.next
        <4>1. Current.status = "running" /\ Steady  BY <2>3, <3>2 DEF Wrote, Kept
        <4> QED  BY <1>2, <3>1, <3>2, <4>1, LedgerAllocates
      <3>3. CASE Current'.next = Current.next /\ Current'.inFlight # Current.inFlight
        <4>1. Steady  BY <2>3, <3>3 DEF Wrote, Kept
        <4> QED  BY <1>2, <3>1, <3>3, <4>1, LedgerConcludes
      <3>4. CASE Current'.next = Current.next /\ Current'.inFlight = Current.inFlight
        BY <1>2, <3>1, <3>4, LedgerControls
      <3> QED  BY <3>2, <3>3, <3>4
    <2> QED  BY <2>1, <2>2, <2>3
  <1> QED
    BY <1>1, <1>2, LoopInductive, PTL DEF Spec, KeepsLedger, Ledger!LedgerSpec, Outcomes
=============================================================================
