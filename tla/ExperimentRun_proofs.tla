------------------------- MODULE ExperimentRun_proofs -------------------------
(***************************************************************************)
(* The proofs of ExperimentRun's safety properties, for any number of      *)
(* experiments and of faults.  The inductive invariant has one part for    *)
(* each store, and one (Located) for what the runner may rely on at each   *)
(* of its places, whatever was left there by an earlier process.           *)
(***************************************************************************)
EXTENDS ExperimentRun, SequenceTheorems, TLAPS

Latest == Len(entries)
Charged(n) == Leased(n, "validation") /\ Diagnostic(n) = "released"
Receipts(n) == IF Known(n) THEN Len(entries[n].done) ELSE 0

(* A claim is for the experiment that is about to be created, or for the   *)
(* latest one, which is still active and lacks the claimed receipt.        *)
Justified ==
    pending # None =>
        IF pending.op = "create"
        THEN /\ pending.number = Latest + 1 /\ cur = Latest + 1
             /\ \A n \in DOMAIN entries : ~Active(n)
        ELSE /\ pending.number = Latest /\ Active(Latest) /\ ~Done(Latest, pending.op)
             /\ pending.op = "seal" =>
                   (Released(entries[Latest]) <=> Done(Latest, "diagnostic-budget"))

(* The journal is readable, and only its latest experiment may be active.  *)
JournalInv ==
    /\ Latest \in {cur - 1, cur}
    /\ Justified
    /\ \A n \in DOMAIN entries :
          /\ n # Latest => entries[n].status # "active"
          /\ entries[n].before = IF n = 1 THEN 0 ELSE entries[n - 1].after
          /\ Active(n) => entries[n].after = entries[n].before
          /\ entries[n].validation # None => Done(n, "validation")
          /\ Sealed(n) => Released(entries[n]) <=> Done(n, "diagnostic-budget")
          /\ Sealed(n) => entries[n].after = IF entries[n].disposition = "promoted"
                                             THEN n ELSE entries[n].before
    /\ IF head = 0 THEN \A n \in DOMAIN entries : ~Sealed(n)
       ELSE Sealed(head) /\ \A n \in DOMAIN entries : Sealed(n) => n <= head

(* What the evidence holds beyond the receipts is the claimed operation.   *)
Ahead(n) ==
    LET events == Events(n) k == IF Known(n) THEN Len(entries[n].done) ELSE 0 IN
    Len(events) > k /\ (Known(n) => Active(n)) =>
        /\ pending # None /\ pending.number = n /\ pending.op = events[k + 1]
        /\ Len(events) > k + 1 => pending.op = "seal"

EvidenceInv ==
    /\ WriteAhead
    /\ LineageAgrees
    /\ \A n \in Numbers : Allocated(n) =>
          /\ ~Known(n) => Claimed(n, "create", None)
          /\ Ahead(n)

(* A lease has an outcome once it is disposed of and a result once it is   *)
(* evaluated; only a decided validation that the journal knows is released.*)
LeaseInv ==
    /\ \A n \in Numbers, s \in Stages : Leased(n, s) =>
          /\ Status(n, s) = "disposed" <=> Lease(n, s).outcome # None
          /\ Status(n, s) = "evaluated" \/ Decided(n, s) => Lease(n, s).result # None
    /\ \A n \in Numbers : Leased(n, "validation") /\ Diagnostic(n) \in {"releasing", "released"} =>
          Decided(n, "validation") /\ Known(n) /\ Released(entries[n])
    /\ \A n \in DOMAIN entries : Done(n, "diagnostic-budget") => Charged(n)

ClaimedHere == pending # None /\ pending.number = cur /\ pending.op = Subject
Sealing == {"artifacts", "attestation", "authorized", "attest", "verify"}
Running == {"bind", "evaluate"}

Located ==
    LET op == Subject IN
    /\ At("begin") =>
          /\ op \in JournalOps /\ (op # "create" => Known(cur))
          /\ op \in Stages => Leased(cur, op) /\ Lease(cur, op).result # None
    /\ op = "diagnostic-budget" => Charged(cur)
    /\ At("allocate") => op = "create" /\ ClaimedHere
    /\ Step \in {"event", "commit"} => ClaimedHere /\ Allocated(cur)
    /\ Step \in Sealing => op = "seal" /\ ClaimedHere
    /\ At("commit") \/ Step \in Sealing =>
          Len(Events(cur)) > Receipts(cur)
    /\ At("attest") => Unsealed(cur) /\ PriorSeal(cur) = head
    /\ At("verify") \/ pc = <<"commit", "seal">> =>
          Attested(cur) /\ evidence[cur].attestation.previous = head
    /\ Step \in {"prepare", "claim", "dispose", "failEvaluation", "abandon"} \cup Running =>
          op \in Stages /\ Known(cur)
    /\ Step \in Running => Leased(cur, op) /\ Status(cur, op) = "running"
    /\ At("failEvaluation") \/ pc = <<"dispose", "repair">> => Leased(cur, op)
    /\ Step \in {"release", "publish"} => Known(cur) /\ Released(entries[cur])
    /\ At("publish") => Decided(cur, "validation") /\ Diagnostic(cur) = "releasing"
    /\ Step \in {"start", "catch", "interrupt", "interruptEvent", "done"} => Known(cur)
    /\ At("interruptEvent") => entries[cur].status = "interrupted"

Inductive == TypeOK /\ JournalInv /\ EvidenceInv /\ LeaseInv /\ Located

USE ExperimentsAssumption, RunAssumption, JournalAssumption, StoresAssumption

---------------------------------------------------------------------------
(* Data *)

(* What each operation reports, and that a lease's result is a result.     *)
LEMMA InputsAre ==
    /\ Inputs("gates") = GateResults /\ Inputs("repair") = RepairResults
    /\ Inputs("validation") = ValidationResults
    /\ \A op \in JournalOps \ {"gates", "repair", "validation"} : Inputs(op) = {None}
BY DEF Inputs

(* A receipt appended to a record's is one of its receipts.                *)
LEMMA AppendHas ==
    ASSUME NEW S, NEW s \in Seq(S), NEW x \in S
    PROVE  /\ DOMAIN s = 1 .. Len(s) /\ DOMAIN Append(s, x) = 1 .. Len(s) + 1
           /\ \A y : (\E i \in DOMAIN Append(s, x) : Append(s, x)[i] = y)
                        <=> (\E i \in DOMAIN s : s[i] = y) \/ y = x
<1>1. Append(s, x) \in Seq(S) /\ Len(Append(s, x)) = Len(s) + 1 /\ Len(s) \in Nat
  BY AppendProperties
<1>2. DOMAIN s = 1 .. Len(s) /\ DOMAIN Append(s, x) = 1 .. Len(s) + 1
  BY <1>1
<1>3. \A i \in 1 .. Len(s) : Append(s, x)[i] = s[i]
  BY AppendProperties
<1>4. Append(s, x)[Len(s) + 1] = x
  BY AppendProperties
<1>5. ASSUME NEW y, NEW i \in DOMAIN Append(s, x), Append(s, x)[i] = y
      PROVE  (\E j \in DOMAIN s : s[j] = y) \/ y = x
  <2>1. i \in 1 .. Len(s) \/ i = Len(s) + 1
    BY <1>1, <1>2
  <2> QED BY <1>2, <1>3, <1>4, <1>5, <2>1
<1>6. ASSUME NEW y, (\E j \in DOMAIN s : s[j] = y) \/ y = x
      PROVE  \E i \in DOMAIN Append(s, x) : Append(s, x)[i] = y
  <2>1. 1 .. Len(s) \subseteq DOMAIN Append(s, x) /\ Len(s) + 1 \in DOMAIN Append(s, x)
    BY <1>1, <1>2
  <2> QED BY <1>2, <1>3, <1>4, <1>6, <2>1
<1> QED BY <1>2, <1>5, <1>6

(* A claim is a record. *)
LEMMA ClaimIs ==
    ASSUME NEW n \in Nat, NEW op \in JournalOps, NEW input \in Inputs(op)
    PROVE  /\ [number |-> n, op |-> op, input |-> input] \in ClaimType(op)
           /\ Claimed(n, op, input) => pending # None
<1>1. [number |-> n, op |-> op, input |-> input] \in ClaimType(op)
  BY DEF ClaimType
<1> QED BY <1>1 DEF Claimed

(* The records of the journal are the experiments up to the latest.        *)
LEMMA EntriesAre ==
    ASSUME TypeOK
    PROVE  /\ Latest \in Nat /\ DOMAIN entries = 1 .. Latest
           /\ \A n \in DOMAIN entries : entries[n] \in EntryType
BY ElementOfSeq DEF TypeOK, Latest

(* Replacing one record leaves the others.                                 *)
LEMMA ReplaceEntry ==
    ASSUME TypeOK, NEW n \in DOMAIN entries, NEW e \in EntryType,
           entries' = [entries EXCEPT ![n] = e]
    PROVE  /\ entries' \in Seq(EntryType) /\ Latest' = Latest
           /\ DOMAIN entries' = DOMAIN entries /\ entries'[n] = e
           /\ \A m \in DOMAIN entries : m # n => entries'[m] = entries[m]
<1>1. n \in 1 .. Len(entries) /\ entries \in Seq(EntryType)
  BY EntriesAre DEF TypeOK, Latest
<1>2. /\ entries' \in Seq(EntryType) /\ Len(entries') = Len(entries)
      /\ \A j \in 1 .. Len(entries) : entries'[j] = IF j = n THEN e ELSE entries[j]
  BY <1>1, ExceptSeq
<1> QED BY <1>1, <1>2, EntriesAre DEF Latest

(* A new record comes after the others.                                    *)
LEMMA AppendEntry ==
    ASSUME TypeOK, NEW e \in EntryType, entries' = Append(entries, e)
    PROVE  /\ entries' \in Seq(EntryType) /\ Latest' = Latest + 1
           /\ DOMAIN entries' = DOMAIN entries \cup {Latest + 1} /\ entries'[Latest + 1] = e
           /\ Latest + 1 \notin DOMAIN entries
           /\ \A m \in DOMAIN entries : entries'[m] = entries[m]
<1>1. entries \in Seq(EntryType)
  BY DEF TypeOK
<1>2. /\ entries' \in Seq(EntryType) /\ Len(entries') = Len(entries) + 1
      /\ \A i \in 1 .. Len(entries) : entries'[i] = entries[i]
      /\ entries'[Len(entries) + 1] = e
  BY <1>1, AppendProperties
<1> QED BY <1>1, <1>2, EntriesAre DEF Latest

(* Replacing one directory or one lease leaves the others.                 *)
LEMMA ReplaceDirectory ==
    ASSUME TypeOK, NEW n \in Numbers, NEW d \in DirectoryType,
           evidence' = [evidence EXCEPT ![n] = d]
    PROVE  /\ evidence' \in [Numbers -> DirectoryType \cup {None}]
           /\ evidence'[n] = d /\ Allocated(n)'
           /\ \A m \in Numbers : m # n => evidence'[m] = evidence[m]
BY DEF TypeOK, Allocated

(* Writing one lease leaves all others, and their types, alone.             *)
LEMMA ReplaceLease ==
    ASSUME TypeOK, NEW n \in Numbers, NEW s \in Stages, NEW l \in LeaseType(s),
           UpdateLease(n, s, l)
    PROVE  /\ leases' = [m \in Numbers |-> [t \in Stages |-> leases'[m][t]]]
           /\ \A m \in Numbers, t \in Stages : leases'[m][t] \in LeaseType(t) \cup {None}
           /\ leases'[n][s] = l /\ Leased(n, s)'
           /\ \A m \in Numbers, t \in Stages :
                 m # n \/ t # s => leases'[m][t] = leases[m][t]
<1>1. leases = [m \in Numbers |-> [t \in Stages |-> leases[m][t]]]
  BY DEF TypeOK
<1>2. leases' = [leases EXCEPT ![n][s] = l]
  BY DEF UpdateLease
<1>3. leases' = [m \in Numbers |-> [t \in Stages |->
                    IF m = n /\ t = s THEN l ELSE leases[m][t]]]
  BY <1>1, <1>2
<1>4. \A m \in Numbers, t \in Stages :
         leases'[m][t] = IF m = n /\ t = s THEN l ELSE leases[m][t]
  BY <1>3
<1>5. \A m \in Numbers, t \in Stages : leases[m][t] \in LeaseType(t) \cup {None}
  BY DEF TypeOK
<1> HIDE DEF UpdateLease
<1> QED BY <1>3, <1>4, <1>5 DEF Leased, Lease

---------------------------------------------------------------------------
(* The journal *)

(* A part of the invariant stays when what it speaks of does.              *)
LEMMA JournalFrame ==
    ASSUME JournalInv, UNCHANGED <<journalVars, cur>>
    PROVE  JournalInv'
BY DEF JournalInv, Justified, journalVars, Latest, Active, Sealed, Known, Done, Released

(* The predecessor of a seal is found from what is attested.               *)
LEMMA PriorSealFrame ==
    ASSUME NEW n, \A m \in Numbers : m < n => (Attested(m)' <=> Attested(m))
    PROVE  PriorSeal(n)' = PriorSeal(n)
<1>1. {m \in Numbers : m < n /\ Attested(m)}' = {m \in Numbers : m < n /\ Attested(m)}
  OBVIOUS
<1> QED BY <1>1 DEF PriorSeal

(* What the evidence owes depends on the journal and the directories.       *)
LEMMA EvidenceFrame ==
    ASSUME EvidenceInv, UNCHANGED <<journalVars, evidence>>
    PROVE  EvidenceInv'
<1>1. UNCHANGED <<entries, pending, head, evidence>>
  BY DEF journalVars
<1>2. WriteAhead'
  BY <1>1 DEF EvidenceInv, WriteAhead, Allocated, Events
<1>3. Lineage'
  BY <1>1, PriorSealFrame DEF EvidenceInv, LineageAgrees, Lineage, Attested, Allocated
<1>4. LineageAgrees'
  BY <1>1, <1>3 DEF EvidenceInv, LineageAgrees, Sealed, Known, Attested, Allocated, Claimed
<1>5. \A n \in Numbers : Allocated(n)' =>
         /\ ~Known(n)' => Claimed(n, "create", None)'
         /\ Ahead(n)'
  BY <1>1 DEF EvidenceInv, Ahead, Active, Known, Claimed, Allocated, Events
<1> QED BY <1>2, <1>4, <1>5 DEF EvidenceInv

(* What the leases owe depends on them and on the journal's entries.        *)
LEMMA LeaseFrame ==
    ASSUME LeaseInv, UNCHANGED <<entries, leases>>
    PROVE  LeaseInv'
BY DEF LeaseInv, Charged, Known, Done, Released, Leased, Lease, Status, Decided, Diagnostic

(* The experiment in flight is the latest once the journal knows it.       *)
LEMMA KnownIsLatest ==
    ASSUME TypeOK, JournalInv
    PROVE  /\ cur \in Numbers /\ cur \in Nat /\ DOMAIN entries \subseteq Numbers
           /\ Known(cur) => cur = Latest /\ cur \in DOMAIN entries
           /\ ~Known(cur) => cur = Latest + 1
<1>1. cur \in Numbers /\ cur \in Nat /\ cur >= 1 /\ cur <= MaxExperiments
  BY DEF TypeOK, Numbers
<1>2. DOMAIN entries = 1 .. Latest /\ Latest \in Nat /\ (Latest = cur - 1 \/ Latest = cur)
  BY EntriesAre DEF JournalInv
<1> QED BY <1>1, <1>2 DEF Known, Numbers

(* begin leaves a justified claim, and what the evidence holds was         *)
(* accounted for by the same claim or by none.                             *)
LEMMA BeginKeeps ==
    ASSUME TypeOK, JournalInv, EvidenceInv, NEW op \in JournalOps, NEW input \in Inputs(op),
           BeginOp(cur, op, input), UNCHANGED <<cur, evidence>>
    PROVE  /\ pending' \in ClaimType(op) /\ pending' # None
           /\ pending'.number = cur /\ pending'.op = op
           /\ JournalInv' /\ EvidenceInv'
<1>1. pending' = [number |-> cur, op |-> op, input |-> input] /\ UNCHANGED <<entries, head>>
  BY DEF BeginOp
<1>2. pending' \in ClaimType(op) /\ pending'.number = cur /\ pending'.op = op
  BY <1>1, KnownIsLatest DEF ClaimType
<1>3. pending' # None
  BY <1>2
<1>4. ~Done(cur, op) /\ Valid(cur, op) /\ (pending = None \/ pending' = pending)
  BY <1>1 DEF BeginOp, MayBegin, Claimed
<1>5. Justified'
  <2>1. CASE op = "create"
    <3>1. cur = Latest + 1 /\ \A m \in DOMAIN entries : ~Active(m)
      BY <1>4, <2>1 DEF Valid, ValidCreate, Latest, Active
    <3> QED BY <1>1, <1>2, <2>1, <3>1 DEF Justified, Latest, Active, Known
  <2>2. CASE op = "seal"
    <3>1. Active(cur) /\ (Released(entries[cur]) <=> Done(cur, "diagnostic-budget"))
      BY <1>4, <2>2 DEF Valid, ValidSeal
    <3>2. cur = Latest
      BY <3>1, KnownIsLatest DEF Active
    <3> QED BY <1>1, <1>2, <1>4, <2>2, <3>1, <3>2
            DEF Justified, Latest, Active, Known, Done, Released
  <2>3. CASE op \in Operations
    <3>1. op # "create" /\ op # "seal"
      BY <2>3 DEF Operations, BudgetOps
    <3>2. Active(cur)
      BY <1>4, <3>1 DEF Valid, ValidOperation
    <3>3. cur = Latest
      BY <3>2, KnownIsLatest DEF Active
    <3> QED BY <1>1, <1>2, <1>4, <3>1, <3>2, <3>3 DEF Justified, Latest, Active, Known, Done
  <2> QED BY <2>1, <2>2, <2>3 DEF JournalOps
<1>6. JournalInv'
  BY <1>1, <1>5 DEF JournalInv, Latest, Active, Sealed, Known, Done, Released
<1>7. EvidenceInv'
  <2>1. CASE pending' = pending
    BY <1>1, <2>1, EvidenceFrame DEF journalVars
  <2>2. CASE pending = None
    <3>1. WriteAhead'
      BY <1>1 DEF EvidenceInv, WriteAhead, Allocated, Events
    <3>2. \A n \in Numbers : ~Claimed(n, "seal", None) /\ ~Claimed(n, "create", None)
      <4>1. /\ "seal" \in JournalOps \ {"gates", "repair", "validation"}
            /\ "create" \in JournalOps \ {"gates", "repair", "validation"}
        BY DEF JournalOps
      <4>2. None \in Inputs("seal") /\ None \in Inputs("create")
        BY <4>1, InputsAre
      <4>3. ASSUME NEW n \in Numbers
            PROVE  ~Claimed(n, "seal", None) /\ ~Claimed(n, "create", None)
        <5>1. n \in Nat
          BY DEF Numbers
        <5> QED BY <2>2, <4>1, <4>2, <5>1, ClaimIs
      <4> QED BY <4>3
    <3>3. \A n \in Numbers : Attested(n) => Sealed(n)
      BY <3>2 DEF EvidenceInv, LineageAgrees
    <3>4. LineageAgrees'
      BY <1>1, <3>3 DEF EvidenceInv, LineageAgrees, Lineage, Attested, Allocated, PriorSeal,
                        Sealed, Known
    <3>5. \A n \in Numbers : Allocated(n) => Known(n) /\ Ahead(n)
      BY <3>2 DEF EvidenceInv
    <3>6. \A n \in Numbers : Allocated(n)' => Known(n)' /\ Ahead(n)'
      BY <1>1, <2>2, <3>5 DEF Allocated, Known, Ahead, Active, Events
    <3> QED BY <3>1, <3>4, <3>6 DEF EvidenceInv
  <2> QED BY <1>4, <2>1, <2>2
<1> QED BY <1>2, <1>3, <1>6, <1>7

(* Whatever else the evidence holds belongs to an experiment that ended.   *)
LEMMA OthersEnded ==
    ASSUME TypeOK, JournalInv, EvidenceInv, NEW n \in Numbers, Allocated(n), n # cur,
           pending # None => pending.number = cur, pending # None \/ Active(cur)
    PROVE  Known(n) /\ ~Active(n)
<1>1. Known(n)
  <2>1. n \in Nat /\ "create" \in JournalOps /\ None \in Inputs("create")
    BY InputsAre DEF Numbers, JournalOps
  <2>2. SUFFICES ASSUME Claimed(n, "create", None) PROVE FALSE
    BY DEF EvidenceInv
  <2>3. pending # None /\ pending.number = n
    BY <2>1, <2>2, ClaimIs DEF Claimed
  <2> QED BY <2>3
<1>2. ~Active(n)
  <2>1. SUFFICES ASSUME Active(n) PROVE FALSE
    OBVIOUS
  <2>2. n = Latest /\ n \in DOMAIN entries
    BY <2>1 DEF JournalInv, Active, Known
  <2>3. Active(cur) => cur = Latest
    BY KnownIsLatest DEF Active
  <2>4. pending # None => cur = Latest
    BY <2>1, <2>2 DEF JournalInv, Justified
  <2> QED BY <2>2, <2>3, <2>4
<1> QED BY <1>1, <1>2

(* Lemmas about a record that is replaced: the leases agree with it when it *)
(* stays released and is charged only for a release.                        *)
LEMMA LeasesAfterRecord ==
    ASSUME TypeOK, LeaseInv, NEW n \in DOMAIN entries, NEW e \in EntryType,
           entries' = [entries EXCEPT ![n] = e], UNCHANGED leases,
           Released(entries[n]) => Released(e),
           Done(n, "diagnostic-budget")' => Charged(n)
    PROVE  LeaseInv'
<1>1. /\ DOMAIN entries' = DOMAIN entries /\ entries'[n] = e
      /\ \A m \in DOMAIN entries : m # n => entries'[m] = entries[m]
  BY ReplaceEntry
<1>2. \A m \in DOMAIN entries : Released(entries[m]) => Released(entries'[m])
  BY <1>1
<1>3. \A m \in DOMAIN entries : Done(m, "diagnostic-budget")' => Charged(m)
  BY <1>1 DEF LeaseInv, Done, Known
<1>4. \A m \in Numbers : Leased(m, "validation") /\ Diagnostic(m) \in {"releasing", "released"} =>
         Decided(m, "validation") /\ Known(m) /\ Released(entries'[m])
  BY <1>2 DEF LeaseInv, Known
<1> HIDE DEF Released, Done
<1> QED BY <1>1, <1>3, <1>4
        DEF LeaseInv, Charged, Known, Leased, Lease, Status, Decided, Diagnostic, Released

(* The evidence agrees with a record that gets the receipt of its claim.    *)
LEMMA EvidenceAfterReceipt ==
    ASSUME TypeOK, JournalInv, EvidenceInv, NEW op \in JournalOps, NEW e \in EntryType,
           pending # None, pending.number = cur, pending.op = op, pending' = None,
           Active(cur), Allocated(cur), Len(Events(cur)) > Len(entries[cur].done),
           entries' = [entries EXCEPT ![cur] = e], UNCHANGED <<cur, evidence>>,
           e.done = Append(entries[cur].done, op),
           \/ op # "seal" /\ e.status = "active"
           \/ /\ op = "seal" /\ e.status = "sealed" /\ Attested(cur)
              /\ evidence[cur].attestation.previous = e.previous
    PROVE  EvidenceInv'
<1>1. /\ cur \in DOMAIN entries /\ cur \in Numbers /\ DOMAIN entries \subseteq Numbers
      /\ entries[cur].status = "active"
  BY KnownIsLatest DEF Active
<1>2. /\ DOMAIN entries' = DOMAIN entries /\ entries'[cur] = e
      /\ \A m \in DOMAIN entries : m # cur => entries'[m] = entries[m]
  BY <1>1, ReplaceEntry
<1>3. entries[cur].done \in Seq(JournalOps)
  BY <1>1, EntriesAre DEF EntryType
<1> DEFINE done == entries[cur].done
           events == Events(cur)
<1>4. /\ e.done \in Seq(JournalOps) /\ Len(e.done) = Len(done) + 1 /\ Len(done) \in Nat
      /\ DOMAIN done = 1 .. Len(done) /\ DOMAIN e.done = 1 .. Len(done) + 1
      /\ \A i \in 1 .. Len(done) : e.done[i] = done[i]
      /\ e.done[Len(done) + 1] = op
  BY <1>3, AppendProperties, AppendHas
<1>5. /\ events \in Seq(EventNames) /\ Len(events) \in Nat /\ DOMAIN events = 1 .. Len(events)
  BY <1>1 DEF TypeOK, DirectoryType, Events, Allocated
<1>6. /\ events[Len(done) + 1] = op
      /\ Len(events) > Len(done) + 1 => op = "seal"
  BY <1>1 DEF EvidenceInv, Ahead, Known
<1>7. WriteAhead'
  <2>1. ASSUME NEW n \in DOMAIN entries, n # cur
        PROVE  /\ Allocated(n)'
               /\ LET s == Events(n) d == entries[n].done IN
                  /\ Len(d)' <= Len(s)'
                  /\ \A i \in DOMAIN d' : s'[i] = d'[i]
                  /\ \A i \in DOMAIN s' : i > Len(d)' + 1 => s'[i] \notin JournalOps
    BY <1>2, <2>1 DEF EvidenceInv, WriteAhead, Allocated, Events
  <2>2. /\ Allocated(cur)' /\ Events(cur)' = events /\ entries'[cur].done = e.done
    BY <1>2 DEF Allocated, Events
  <2>3. \A i \in DOMAIN events : i > Len(done) + 1 => events[i] \notin JournalOps
    BY <1>1 DEF EvidenceInv, WriteAhead
  <2>4. \A i \in DOMAIN done : events[i] = done[i]
    BY <1>1 DEF EvidenceInv, WriteAhead
  <2>5. /\ Len(e.done) <= Len(events)
        /\ \A i \in DOMAIN e.done : events[i] = e.done[i]
        /\ \A i \in DOMAIN events : i > Len(e.done) + 1 => events[i] \notin JournalOps
    <3> HIDE DEF done, events
    <3>1. Len(events) > Len(done)
      BY DEF done, events
    <3> QED BY <1>4, <1>5, <1>6, <2>3, <2>4, <3>1
  <2> QED BY <1>2, <2>1, <2>2, <2>5 DEF WriteAhead
<1>8. LineageAgrees'
  <2>1. Lineage'
    BY PriorSealFrame DEF EvidenceInv, LineageAgrees, Lineage, Attested, Allocated
  <2>2. \A n \in DOMAIN entries : n # cur => (Sealed(n)' <=> Sealed(n))
    BY <1>2 DEF Sealed, Known
  <2>3. Sealed(cur)' => op = "seal"
    BY <1>2 DEF Sealed, Known
  <2>4. ASSUME NEW n \in DOMAIN entries, Sealed(n)'
        PROVE  Attested(n)' /\ evidence'[n].attestation.previous = entries'[n].previous
    BY <1>2, <2>2, <2>3, <2>4 DEF EvidenceInv, LineageAgrees, Attested, Allocated
  <2>5. ASSUME NEW n \in Numbers, Attested(n)'
        PROVE  Sealed(n)'
    <3>1. Attested(n)
      BY <2>5 DEF Attested, Allocated
    <3>2. Sealed(n) \/ pending = [number |-> n, op |-> "seal", input |-> None]
      BY <3>1 DEF EvidenceInv, LineageAgrees, Claimed
    <3>3. ~Sealed(cur)
      BY <1>1 DEF Sealed
    <3>4. CASE n = cur
      BY <1>1, <1>2, <3>2, <3>3, <3>4 DEF Sealed, Known
    <3>5. CASE n # cur
      BY <1>2, <2>2, <3>2, <3>5 DEF Sealed, Known
    <3> QED BY <3>4, <3>5
  <2> QED BY <1>2, <2>1, <2>4, <2>5 DEF LineageAgrees
<1>9. ASSUME NEW n \in Numbers, Allocated(n)'
      PROVE  Known(n)' /\ Ahead(n)'
  <2>1. CASE n = cur
    <3>1. Known(n)' /\ entries'[n] = e /\ Events(n)' = events
      BY <1>1, <1>2, <2>1 DEF Known, Events
    <3>2. CASE op # "seal"
      <4>1. ~(Len(events) > Len(e.done))
        <5> HIDE DEF events, done
        <5> QED BY <1>4, <1>5, <1>6, <3>2
      <4> QED BY <3>1, <4>1 DEF Ahead
    <3>3. CASE op = "seal"
      BY <3>1, <3>3 DEF Ahead, Active
    <3> QED BY <3>1, <3>2, <3>3
  <2>2. CASE n # cur
    <3>1. Known(n) /\ ~Active(n)
      BY <1>9, <2>2, OthersEnded DEF Allocated
    <3> QED BY <1>2, <2>2, <3>1 DEF Known, Active, Ahead
  <2> QED BY <2>1, <2>2
<1> QED BY <1>7, <1>8, <1>9 DEF EvidenceInv

(* A record with a receipt is a record.                                     *)
LEMMA AdvancedTyped ==
    ASSUME NEW old \in EntryType, NEW op \in Operations, NEW input \in Inputs(op)
    PROVE  Advanced(old, op, input) \in EntryType
<1>1. old.done \in Seq(JournalOps) /\ op \in JournalOps
  BY DEF EntryType, JournalOps
<1>2. Append(old.done, op) \in Seq(JournalOps)
  BY <1>1, AppendProperties
<1>3. old.spent + Cost(op) \in Nat
  BY DEF Cost, EntryType
<1> DEFINE gates == IF op = "gates" THEN input ELSE old.gates
           repair == IF op = "repair" THEN input ELSE old.repair
           validation == IF op = "validation" THEN input ELSE old.validation
<1>4. gates \in GateResults \cup {None}
  BY InputsAre DEF EntryType
<1>5. repair \in RepairResults \cup {None}
  BY InputsAre DEF EntryType
<1>6. validation \in ValidationResults \cup {None}
  BY InputsAre DEF EntryType
<1>7. Advanced(old, op, input) =
         [old EXCEPT !.done = Append(old.done, op), !.spent = old.spent + Cost(op),
                     !.gates = gates, !.repair = repair, !.validation = validation]
  BY DEF Advanced
<1> HIDE DEF gates, repair, validation
<1> QED BY <1>2, <1>3, <1>4, <1>5, <1>6, <1>7, ZenonT(60) DEF EntryType

(* A receipt leaves a readable journal.                                     *)
LEMMA CompleteOpKeeps ==
    ASSUME TypeOK, JournalInv, EvidenceInv, LeaseInv, NEW op \in Operations,
           pending # None, pending.number = cur, pending.op = op,
           Allocated(cur), Len(Events(cur)) > Len(entries[cur].done),
           op = "diagnostic-budget" => Charged(cur),
           CompleteOp(cur, op, pending.input), UNCHANGED <<cur, evidence, leases>>
    PROVE  /\ entries' \in Seq(EntryType) /\ Latest' = Latest
           /\ entries'[cur] = Advanced(entries[cur], op, pending.input)
           /\ JournalInv' /\ EvidenceInv' /\ LeaseInv'
<1> DEFINE old == entries[cur]
           e == Advanced(old, op, pending.input)
<1>1. op \in JournalOps /\ op # "create" /\ op # "seal"
  BY DEF Operations, BudgetOps, JournalOps
<1>2. /\ cur = Latest /\ cur \in DOMAIN entries /\ DOMAIN entries \subseteq Numbers
      /\ Active(cur) /\ old.status = "active" /\ ~Done(cur, op)
  BY <1>1, KnownIsLatest DEF CompleteOp, JournalInv, Justified, Active
<1>3. pending.input \in Inputs(op)
  BY DEF TypeOK, ClaimType
<1>4. /\ entries' = [entries EXCEPT ![cur] = e] /\ pending' = None /\ head' = head
  BY DEF CompleteOp
<1>5. old \in EntryType /\ old.done \in Seq(JournalOps)
  BY <1>2, EntriesAre DEF EntryType
<1>6. /\ e.done = Append(old.done, op) /\ e.status = old.status /\ e.before = old.before
      /\ e.after = old.after /\ e.disposition = old.disposition
      /\ e.validation = IF op = "validation" THEN pending.input ELSE old.validation
  BY <1>5 DEF Advanced, EntryType
<1>7. e \in EntryType
  BY <1>3, <1>5, AdvancedTyped
<1>8. /\ entries' \in Seq(EntryType) /\ Latest' = Latest
      /\ DOMAIN entries' = DOMAIN entries /\ entries'[cur] = e
      /\ \A m \in DOMAIN entries : m # cur => entries'[m] = entries[m]
  BY <1>2, <1>4, <1>7, ReplaceEntry
<1> HIDE DEF e, old
<1>9. \A x : Done(cur, x)' <=> Done(cur, x) \/ x = op
  <2>1. \A x : (\E i \in DOMAIN e.done : e.done[i] = x)
                  <=> (\E i \in DOMAIN old.done : old.done[i] = x) \/ x = op
    BY <1>1, <1>5, <1>6, AppendHas
  <2> QED BY <1>2, <1>8, <2>1 DEF Done, Known, old
<1>10. \A n \in DOMAIN entries :
          /\ (Sealed(n)' <=> Sealed(n)) /\ (Active(n)' <=> Active(n))
          /\ entries'[n].before = entries[n].before /\ entries'[n].after = entries[n].after
          /\ entries'[n].disposition = entries[n].disposition
          /\ entries'[n].status = entries[n].status
  BY <1>6, <1>8 DEF Sealed, Active, Known, old
<1>11. ~Sealed(cur)
  BY <1>2 DEF Sealed, old
<1>12. \A n \in DOMAIN entries : entries'[n].validation # None => Done(n, "validation")'
  <2>1. ASSUME NEW n \in DOMAIN entries, n # cur
        PROVE  entries'[n].validation # None => Done(n, "validation")'
    BY <1>8, <2>1 DEF JournalInv, Done, Known
  <2>2. entries'[cur].validation # None => Done(cur, "validation")'
    <3>1. old.validation # None => Done(cur, "validation")
      BY <1>2 DEF JournalInv, old
    <3> QED BY <1>6, <1>8, <1>9, <3>1
  <2> QED BY <1>8, <2>1, <2>2 DEF Done, Known
<1>13. \A n \in DOMAIN entries :
          Sealed(n) => (Released(entries'[n]) <=> Done(n, "diagnostic-budget")')
  BY <1>8, <1>11 DEF JournalInv, Done, Known
<1>14. JournalInv'
  <2>1. Justified'
    BY <1>4 DEF Justified
  <2>2. \A n \in DOMAIN entries : n # 1 => n - 1 \in DOMAIN entries
    BY EntriesAre
  <2>3. \A n \in DOMAIN entries :
           entries'[n].before = IF n = 1 THEN 0 ELSE entries'[n - 1].after
    BY <1>10, <2>2 DEF JournalInv
  <2> HIDE DEF Released, Sealed, Active, Done
  <2>4. Known(head)' = Known(head) /\ (head # 0 => Sealed(head)')
    BY <1>4, <1>8, <1>10 DEF JournalInv, Known, Sealed
  <2> QED BY <1>4, <1>8, <1>10, <1>12, <1>13, <2>1, <2>3, <2>4 DEF JournalInv
<1>15. EvidenceInv'
  BY <1>1, <1>2, <1>4, <1>6, <1>7, EvidenceAfterReceipt DEF old
<1>16. LeaseInv'
  <2>1. Released(entries[cur]) => Released(e)
    BY <1>2, <1>6 DEF JournalInv, Released, old
  <2>2. Done(cur, "diagnostic-budget")' => Charged(cur)
    BY <1>2, <1>9 DEF LeaseInv
  <2>3. ASSUME NEW n \in DOMAIN entries, n = cur
        PROVE  LeaseInv'
    <3>1. Done(n, "diagnostic-budget")' => Charged(n)
      BY <2>2, <2>3 DEF Done, Known, Charged, Leased, Diagnostic, Lease
    <3> QED BY <1>4, <1>7, <2>1, <2>3, <3>1, LeasesAfterRecord
  <2> QED BY <1>2, <2>3
<1> QED BY <1>8, <1>14, <1>15, <1>16 DEF e, old

(* A sealed record is a record.                                             *)
LEMMA SealedTyped ==
    ASSUME TypeOK, NEW old \in EntryType, NEW n \in Nat
    PROVE  /\ SealedEntry(n, old) \in EntryType /\ Expected(old) \in Dispositions
           /\ Expected(old) = "promoted" => old.validation # None
<1>1. old.done \in Seq(JournalOps) /\ "seal" \in JournalOps
  BY DEF EntryType, JournalOps
<1>2. Append(old.done, "seal") \in Seq(JournalOps)
  BY <1>1, AppendProperties
<1>3. Expected(old) \in Dispositions /\ (Expected(old) = "promoted" => old.validation # None)
  BY DEF Expected, EntryType, ValidationResults, RepairResults, Dispositions
<1> DEFINE after == IF Expected(old) = "promoted" THEN n ELSE old.after
<1>4. after \in Nat /\ head \in Nat
  BY DEF EntryType, TypeOK
<1>5. SealedEntry(n, old) =
         [old EXCEPT !.status = "sealed", !.done = Append(old.done, "seal"),
                     !.disposition = Expected(old), !.previous = head, !.after = after]
  BY DEF SealedEntry
<1> HIDE DEF after
<1>6. SealedEntry(n, old) \in EntryType
  BY <1>2, <1>3, <1>4, <1>5, ZenonT(60) DEF EntryType
<1> QED BY <1>3, <1>6

(* A seal leaves a readable journal with the experiment at its head.        *)
LEMMA CompleteSealKeeps ==
    ASSUME TypeOK, JournalInv, EvidenceInv, LeaseInv,
           pending # None, pending.number = cur, pending.op = "seal",
           Attested(cur), evidence[cur].attestation.previous = head,
           Len(Events(cur)) > Len(entries[cur].done),
           CompleteSeal(cur), UNCHANGED <<cur, evidence, leases>>
    PROVE  /\ entries' \in Seq(EntryType) /\ Latest' = Latest
           /\ entries'[cur] = SealedEntry(cur, entries[cur])
           /\ JournalInv' /\ EvidenceInv' /\ LeaseInv'
<1> DEFINE old == entries[cur]
           e == SealedEntry(cur, old)
<1>1. /\ cur = Latest /\ cur \in DOMAIN entries /\ DOMAIN entries \subseteq Numbers
      /\ Active(cur) /\ old.status = "active" /\ cur \in Nat /\ cur # 0 /\ cur \in Numbers
  BY KnownIsLatest DEF CompleteSeal, JournalInv, Justified, Active, Numbers
<1>2. Released(old) <=> Done(cur, "diagnostic-budget")
  BY <1>1 DEF JournalInv, Justified
<1>3. /\ entries' = [entries EXCEPT ![cur] = e] /\ pending' = None /\ head' = cur
  BY DEF CompleteSeal
<1>4. old \in EntryType /\ old.done \in Seq(JournalOps)
  BY <1>1, EntriesAre DEF EntryType
<1>5. e \in EntryType
  BY <1>1, <1>4, SealedTyped
<1>6. /\ e.done = Append(old.done, "seal") /\ e.status = "sealed" /\ e.before = old.before
      /\ e.after = IF e.disposition = "promoted" THEN cur ELSE old.after
      /\ e.validation = old.validation /\ e.previous = head
  BY <1>4 DEF SealedEntry, EntryType
<1>7. /\ entries' \in Seq(EntryType) /\ Latest' = Latest
      /\ DOMAIN entries' = DOMAIN entries /\ entries'[cur] = e
      /\ \A m \in DOMAIN entries : m # cur => entries'[m] = entries[m]
  BY <1>1, <1>3, <1>5, ReplaceEntry
<1> HIDE DEF e, old
<1>8. \A x : Done(cur, x)' <=> Done(cur, x) \/ x = "seal"
  <2>1. "seal" \in JournalOps
    BY DEF JournalOps
  <2>2. \A x : (\E i \in DOMAIN e.done : e.done[i] = x)
                  <=> (\E i \in DOMAIN old.done : old.done[i] = x) \/ x = "seal"
    <3>1. PICK d, op : d = old.done /\ op = "seal"
      OBVIOUS
    <3>2. \A x : (\E i \in DOMAIN Append(d, op) : Append(d, op)[i] = x)
                    <=> (\E i \in DOMAIN d : d[i] = x) \/ x = op
      <4>1. d \in Seq(JournalOps) /\ op \in JournalOps
        BY <1>4, <2>1, <3>1
      <4> QED BY <4>1, AppendHas
    <3> QED BY <1>6, <3>1, <3>2
  <2>3. Known(cur) /\ Known(cur)'
    BY <1>1, <1>7 DEF Known, CompleteSeal
  <2>4. \A x : Done(cur, x) <=> \E i \in DOMAIN old.done : old.done[i] = x
    BY <2>3 DEF Done, old
  <2>5. \A x : Done(cur, x)' <=> \E i \in DOMAIN e.done : e.done[i] = x
    BY <1>7, <2>3 DEF Done
  <2> QED BY <2>2, <2>4, <2>5
<1>9. JournalInv'
  <2>1. Justified'
    BY <1>3 DEF Justified
  <2>2. \A n \in DOMAIN entries : n # 1 => n - 1 \in DOMAIN entries /\ n - 1 # Latest
    BY EntriesAre
  <2>3. \A n \in DOMAIN entries :
           entries'[n].before = IF n = 1 THEN 0 ELSE entries'[n - 1].after
    BY <1>1, <1>6, <1>7, <2>2 DEF JournalInv, old
  <2>4. ASSUME NEW n \in DOMAIN entries, n # cur
        PROVE  /\ n # Latest => entries'[n].status # "active"
               /\ Active(n)' => entries'[n].after = entries'[n].before
               /\ entries'[n].validation # None => Done(n, "validation")'
               /\ Sealed(n)' => (Released(entries'[n]) <=> Done(n, "diagnostic-budget")')
               /\ Sealed(n)' => entries'[n].after = IF entries'[n].disposition = "promoted"
                                                    THEN n ELSE entries'[n].before
    BY <1>7, <2>4 DEF JournalInv, Done, Known, Active, Sealed
  <2>5. /\ cur # Latest => entries'[cur].status # "active"
        /\ Active(cur)' => entries'[cur].after = entries'[cur].before
        /\ entries'[cur].after = IF entries'[cur].disposition = "promoted"
                                 THEN cur ELSE entries'[cur].before
    BY <1>1, <1>6, <1>7 DEF JournalInv, Active, old
  <2>6. entries'[cur].validation # None => Done(cur, "validation")'
    BY <1>1, <1>6, <1>7, <1>8 DEF JournalInv, old
  <2>7. Released(entries'[cur]) <=> Done(cur, "diagnostic-budget")'
    BY <1>2, <1>6, <1>7, <1>8 DEF Released, old
  <2>8. Sealed(head)' /\ head' # 0 /\ \A n \in DOMAIN entries : n <= head'
    BY <1>1, <1>3, <1>6, <1>7, EntriesAre DEF Sealed, Known
  <2>9. \A n \in DOMAIN entries' :
          /\ n # Latest' => entries'[n].status # "active"
          /\ entries'[n].before = IF n = 1 THEN 0 ELSE entries'[n - 1].after
          /\ Active(n)' => entries'[n].after = entries'[n].before
          /\ entries'[n].validation # None => Done(n, "validation")'
          /\ Sealed(n)' => (Released(entries'[n]) <=> Done(n, "diagnostic-budget")')
          /\ Sealed(n)' => entries'[n].after = IF entries'[n].disposition = "promoted"
                                               THEN n ELSE entries'[n].before
    <3> HIDE DEF Released
    <3>1. ASSUME NEW n \in DOMAIN entries, n = cur
          PROVE  /\ Done(n, "validation")' = Done(cur, "validation")'
                 /\ Done(n, "diagnostic-budget")' = Done(cur, "diagnostic-budget")'
                 /\ Active(n)' = Active(cur)'
      BY <3>1 DEF Done, Known, Active
    <3> QED BY <1>7, <2>3, <2>4, <2>5, <2>6, <2>7, <3>1
  <2> HIDE DEF Released
  <2> QED BY <1>1, <1>7, <2>1, <2>8, <2>9 DEF JournalInv
<1>10. EvidenceInv'
  <2>1. "seal" \in JournalOps
    BY DEF JournalOps
  <2> QED BY <1>1, <1>3, <1>5, <1>6, <2>1, EvidenceAfterReceipt DEF old, Attested
<1>11. LeaseInv'
  <2>1. Released(entries[cur]) => Released(e)
    BY <1>6 DEF Released, old
  <2>2. Done(cur, "diagnostic-budget")' => Charged(cur)
    BY <1>1, <1>8 DEF LeaseInv
  <2>3. ASSUME NEW n \in DOMAIN entries, n = cur
        PROVE  LeaseInv'
    <3>1. Done(n, "diagnostic-budget")' => Charged(n)
      BY <2>2, <2>3 DEF Done, Known, Charged, Leased, Diagnostic, Lease
    <3> QED BY <1>3, <1>5, <2>1, <2>3, <3>1, LeasesAfterRecord
  <2> QED BY <1>1, <2>3
<1> QED BY <1>7, <1>9, <1>10, <1>11 DEF e, old

(* An interruption leaves a readable journal, and no attested seal behind.  *)
LEMMA InterruptOpKeeps ==
    ASSUME TypeOK, JournalInv, EvidenceInv, LeaseInv, ~SealRecoverable(cur),
           NEW why \in Phases \cup {None}, InterruptOp(cur, why), UNCHANGED <<cur, evidence, leases>>
    PROVE  /\ entries' \in Seq(EntryType) /\ Latest' = Latest
           /\ entries'[cur] = InterruptedEntry(entries[cur], why)
           /\ JournalInv' /\ EvidenceInv' /\ LeaseInv'
<1> DEFINE old == entries[cur]
           e == InterruptedEntry(old, why)
<1>1. /\ cur = Latest /\ cur \in DOMAIN entries /\ DOMAIN entries \subseteq Numbers
      /\ Active(cur) /\ old.status = "active" /\ cur \in Numbers
      /\ pending # None => pending.number = cur
  BY KnownIsLatest DEF InterruptOp, MayInterrupt, Active
<1>2. entries' = [entries EXCEPT ![cur] = e] /\ pending' = None /\ head' = head
  BY DEF InterruptOp
<1>3. old \in EntryType
  BY <1>1, EntriesAre
<1>4. /\ e \in EntryType
      /\ e.status = "interrupted" /\ e.done = old.done /\ e.validation = old.validation
      /\ e.before = old.before /\ e.after = old.after
  BY <1>3 DEF InterruptedEntry, EntryType
<1>5. /\ entries' \in Seq(EntryType) /\ Latest' = Latest
      /\ DOMAIN entries' = DOMAIN entries /\ entries'[cur] = e
      /\ \A m \in DOMAIN entries : m # cur => entries'[m] = entries[m]
  BY <1>1, <1>2, <1>4, ReplaceEntry
<1> HIDE DEF e, old
<1>6. \A n \in DOMAIN entries :
         /\ entries'[n].done = entries[n].done /\ entries'[n].validation = entries[n].validation
         /\ entries'[n].before = entries[n].before /\ entries'[n].after = entries[n].after
         /\ (Sealed(n)' <=> Sealed(n)) /\ entries'[n].status # "active"
         /\ n # cur => entries'[n] = entries[n]
  BY <1>1, <1>4, <1>5 DEF JournalInv, Sealed, Known, old
<1>7. ~Sealed(cur)
  BY <1>1 DEF Sealed, old
<1>8. \A n \in DOMAIN entries : \A x : Done(n, x)' <=> Done(n, x)
  BY <1>5, <1>6 DEF Done, Known
<1>9. JournalInv'
  <2>1. Justified'
    BY <1>2 DEF Justified
  <2>2. \A n \in DOMAIN entries : n # 1 => n - 1 \in DOMAIN entries
    BY EntriesAre
  <2>3. \A n \in DOMAIN entries :
           entries'[n].before = IF n = 1 THEN 0 ELSE entries'[n - 1].after
    BY <1>6, <2>2 DEF JournalInv
  <2>4. \A n \in DOMAIN entries : Released(entries'[n]) <=> Released(entries[n])
    BY <1>6 DEF Released
  <2>5. \A n \in DOMAIN entries :
          /\ ~Active(n)'
          /\ entries'[n].validation # None => Done(n, "validation")'
          /\ Sealed(n)' => (Released(entries'[n]) <=> Done(n, "diagnostic-budget")')
          /\ Sealed(n)' => entries'[n].after = IF entries'[n].disposition = "promoted"
                                               THEN n ELSE entries'[n].before
    <3> HIDE DEF Released, Done
    <3> QED BY <1>6, <1>7, <1>8, <2>4 DEF JournalInv, Active
  <2>6. IF head' = 0 THEN \A n \in DOMAIN entries' : ~Sealed(n)'
        ELSE Sealed(head)' /\ \A n \in DOMAIN entries' : Sealed(n)' => n <= head'
    BY <1>2, <1>5, <1>6 DEF JournalInv, Sealed, Known
  <2> HIDE DEF Released, Done, Sealed, Active
  <2> QED BY <1>5, <1>6, <2>1, <2>3, <2>5, <2>6 DEF JournalInv
<1>10. ~Attested(cur)
  <2>1. SUFFICES ASSUME Attested(cur) PROVE FALSE
    OBVIOUS
  <2>2. Claimed(cur, "seal", None)
    BY <1>1, <1>7, <2>1 DEF EvidenceInv, LineageAgrees
  <2>3. cur \in Nat /\ "seal" \in JournalOps /\ None \in Inputs("seal")
    BY <1>1, InputsAre DEF Numbers, JournalOps
  <2>4. pending # None /\ pending.op = "seal"
    BY <2>2, <2>3, ClaimIs DEF Claimed
  <2> QED BY <2>1, <2>4 DEF SealRecoverable
<1>11. EvidenceInv'
  <2>1. WriteAhead'
    BY <1>5, <1>6 DEF EvidenceInv, WriteAhead, Allocated, Events
  <2>2. Lineage'
    BY PriorSealFrame DEF EvidenceInv, LineageAgrees, Lineage, Attested, Allocated
  <2>3. \A n \in DOMAIN entries' : Sealed(n)' =>
           Attested(n)' /\ evidence'[n].attestation.previous = entries'[n].previous
    BY <1>1, <1>5, <1>6, <1>7 DEF EvidenceInv, LineageAgrees, Attested, Allocated
  <2>4. ASSUME NEW n \in Numbers, Attested(n)'
        PROVE  Sealed(n)'
    <3>1. Attested(n) /\ n # cur
      BY <1>10, <2>4 DEF Attested, Allocated
    <3>2. Sealed(n) \/ Claimed(n, "seal", None)
      BY <3>1 DEF EvidenceInv, LineageAgrees
    <3>3. n \in Nat /\ "seal" \in JournalOps /\ None \in Inputs("seal")
      BY InputsAre DEF Numbers, JournalOps
    <3>4. Claimed(n, "seal", None) => pending # None /\ pending.number = n
      BY <3>3, ClaimIs DEF Claimed
    <3> QED BY <1>1, <1>5, <1>6, <3>1, <3>2, <3>4 DEF Sealed, Known
  <2>5. ASSUME NEW n \in Numbers, Allocated(n)'
        PROVE  Known(n)' /\ Ahead(n)'
    <3>1. Allocated(n)
      BY <2>5 DEF Allocated
    <3>2. n \in DOMAIN entries
      BY <1>1, <3>1, OthersEnded DEF Known
    <3> QED BY <1>5, <1>6, <3>2 DEF Known, Active, Ahead
  <2> QED BY <2>1, <2>2, <2>3, <2>4, <2>5 DEF EvidenceInv, LineageAgrees
<1>12. LeaseInv'
  <2>1. Released(entries[cur]) => Released(e)
    BY <1>4 DEF Released, old
  <2>2. ASSUME NEW n \in DOMAIN entries, n = cur
        PROVE  LeaseInv'
    <3>1. Done(n, "diagnostic-budget")' => Charged(n)
      BY <1>8 DEF LeaseInv
    <3> QED BY <1>2, <1>4, <2>1, <2>2, <3>1, LeasesAfterRecord
  <2> QED BY <1>1, <2>2
<1> QED BY <1>5, <1>9, <1>11, <1>12 DEF e, old

(* A new experiment leaves a readable journal and starts from its champion. *)
LEMMA CompleteCreateKeeps ==
    ASSUME TypeOK, JournalInv, EvidenceInv, LeaseInv,
           pending # None, pending.number = cur, pending.op = "create",
           Allocated(cur), Len(Events(cur)) > 0,
           CompleteCreate(cur, 0), UNCHANGED <<cur, evidence, leases>>
    PROVE  /\ entries' \in Seq(EntryType) /\ Latest' = Latest + 1 /\ cur = Latest + 1
           /\ entries'[cur].status = "active" /\ entries'[cur].validation = None
           /\ JournalInv' /\ EvidenceInv' /\ LeaseInv'
<1> DEFINE e == [ status |-> "active", done |-> <<"create">>, before |-> ChampionOf,
                  after |-> ChampionOf, spent |-> 0, gates |-> None, repair |-> None,
                  validation |-> None, disposition |-> None, previous |-> None,
                  interruptedIn |-> None ]
<1>1. /\ cur = Latest + 1 /\ cur \in Numbers /\ cur \notin DOMAIN entries
      /\ DOMAIN entries \subseteq Numbers
      /\ \A n \in DOMAIN entries : entries[n].status # "active"
  BY KnownIsLatest DEF CompleteCreate, JournalInv, Justified, Active, Known
<1>2. entries' = Append(entries, e) /\ pending' = None /\ head' = head
  BY DEF CompleteCreate
<1>3. ChampionOf \in Nat /\ ChampionOf = IF cur = 1 THEN 0 ELSE entries[cur - 1].after
  <2>1. entries = <<>> <=> Latest = 0
    BY EmptySeq DEF Latest, TypeOK
  <2>2. Latest \in Nat /\ (Latest # 0 => entries[Latest] \in EntryType)
    BY EntriesAre
  <2> QED BY <1>1, <2>1, <2>2 DEF ChampionOf, EntryType, Latest
<1>4. e \in EntryType
  <2>1. <<"create">> \in Seq(JournalOps)
    BY DEF JournalOps
  <2> HIDE DEF ChampionOf
  <2> QED BY <1>3, <2>1 DEF EntryType
<1>5. /\ e.done = <<"create">> /\ e.status = "active" /\ e.before = ChampionOf
      /\ e.after = ChampionOf /\ e.validation = None
  OBVIOUS
<1>6. /\ entries' \in Seq(EntryType) /\ Latest' = Latest + 1 /\ entries'[cur] = e
      /\ DOMAIN entries' = DOMAIN entries \cup {cur}
      /\ \A m \in DOMAIN entries : entries'[m] = entries[m]
  BY <1>1, <1>2, <1>4, AppendEntry
<1> HIDE DEF e
<1>7. \A n \in DOMAIN entries : \A x : Done(n, x)' <=> Done(n, x)
  BY <1>6 DEF Done, Known
<1>8. \A x : Done(cur, x)' <=> x = "create"
  BY <1>5, <1>6 DEF Done, Known
<1>9. ~Sealed(cur)' /\ \A n \in DOMAIN entries : Sealed(n)' <=> Sealed(n)
  BY <1>5, <1>6 DEF Sealed, Known
<1>10. JournalInv'
  <2>1. Justified'
    BY <1>2 DEF Justified
  <2>2. \A n \in DOMAIN entries' : n # 1 => n - 1 \in DOMAIN entries
    BY <1>1, <1>6, EntriesAre
  <2>3. \A n \in DOMAIN entries' :
           entries'[n].before = IF n = 1 THEN 0 ELSE entries'[n - 1].after
    BY <1>3, <1>5, <1>6, <2>2 DEF JournalInv
  <2>4. \A n \in DOMAIN entries' :
          /\ n # cur => entries'[n].status # "active"
          /\ Active(n)' => entries'[n].after = entries'[n].before
    BY <1>1, <1>5, <1>6 DEF Active
  <2>5. \A n \in DOMAIN entries' : entries'[n].validation # None => Done(n, "validation")'
    BY <1>5, <1>6, <1>7 DEF JournalInv
  <2>6. ASSUME NEW n \in DOMAIN entries', Sealed(n)'
        PROVE  /\ Released(entries'[n]) <=> Done(n, "diagnostic-budget")'
               /\ entries'[n].after = IF entries'[n].disposition = "promoted"
                                      THEN n ELSE entries'[n].before
    <3>1. n \in DOMAIN entries
      BY <1>6, <1>9, <2>6 DEF Sealed, Known
    <3>2. Sealed(n) /\ entries'[n] = entries[n]
      BY <1>6, <1>9, <2>6, <3>1
    <3> QED BY <1>7, <3>1, <3>2 DEF JournalInv
  <2>7. IF head' = 0 THEN \A n \in DOMAIN entries' : ~Sealed(n)'
        ELSE Sealed(head)' /\ \A n \in DOMAIN entries' : Sealed(n)' => n <= head'
    BY <1>2, <1>5, <1>6 DEF JournalInv, Sealed, Known
  <2> HIDE DEF Released, Done, Sealed, Active
  <2> QED BY <1>1, <1>6, <2>1, <2>3, <2>4, <2>5, <2>6, <2>7 DEF JournalInv
<1>11. EvidenceInv'
  <2> DEFINE events == Events(cur)
  <2>1. events \in Seq(EventNames) /\ Len(events) \in Nat /\ DOMAIN events = 1 .. Len(events)
    BY <1>1 DEF TypeOK, DirectoryType, Events, Allocated
  <2>2. Len(events) = 1 /\ events[1] = "create"
    <3>1. Ahead(cur) /\ ~Known(cur)
      BY <1>1 DEF EvidenceInv, Known
    <3>2. pending.op = events[0 + 1] /\ (Len(events) > 0 + 1 => pending.op = "seal")
      BY <3>1 DEF Ahead
    <3> HIDE DEF events
    <3>3. Len(events) > 0
      BY DEF events
    <3> QED BY <2>1, <3>2, <3>3
  <2>3. WriteAhead'
    <3>1. ASSUME NEW n \in DOMAIN entries
          PROVE  /\ Allocated(n)'
                 /\ LET s == Events(n) d == entries[n].done IN
                    /\ Len(d)' <= Len(s)'
                    /\ \A i \in DOMAIN d' : s'[i] = d'[i]
                    /\ \A i \in DOMAIN s' : i > Len(d)' + 1 => s'[i] \notin JournalOps
      BY <1>6 DEF EvidenceInv, WriteAhead, Allocated, Events
    <3>2. Allocated(cur)' /\ Events(cur)' = events /\ entries'[cur].done = <<"create">>
      BY <1>5, <1>6 DEF Allocated, Events
    <3>3. /\ Len(<<"create">>) <= Len(events)
          /\ \A i \in DOMAIN <<"create">> : events[i] = <<"create">>[i]
          /\ \A i \in DOMAIN events : i > Len(<<"create">>) + 1 => events[i] \notin JournalOps
      <4> HIDE DEF events
      <4>1. Len(<<"create">>) = 1 /\ <<"create">>[1] = "create" /\ DOMAIN <<"create">> = 1 .. 1
        OBVIOUS
      <4> QED BY <2>1, <2>2, <4>1
    <3> HIDE DEF events
    <3> QED BY <1>6, <3>1, <3>2, <3>3 DEF WriteAhead
  <2>4. Lineage'
    BY PriorSealFrame DEF EvidenceInv, LineageAgrees, Lineage, Attested, Allocated
  <2>5. \A n \in DOMAIN entries' : Sealed(n)' =>
           Attested(n)' /\ evidence'[n].attestation.previous = entries'[n].previous
    BY <1>6, <1>9 DEF EvidenceInv, LineageAgrees, Attested, Allocated, Sealed, Known
  <2>6. ASSUME NEW n \in Numbers, Attested(n)'
        PROVE  Sealed(n)'
    <3>1. Attested(n)
      BY <2>6 DEF Attested, Allocated
    <3>2. Sealed(n) \/ pending = [number |-> n, op |-> "seal", input |-> None]
      BY <3>1 DEF EvidenceInv, LineageAgrees, Claimed
    <3> QED BY <1>6, <3>2 DEF Sealed, Known
  <2>7. ASSUME NEW n \in Numbers, Allocated(n)'
        PROVE  Known(n)' /\ Ahead(n)'
    <3>1. CASE n = cur
      <4>1. Known(n)' /\ entries'[n] = e /\ Events(n)' = events
        BY <1>1, <1>6, <3>1 DEF Known, Events
      <4>2. Len(e.done) = 1
        BY <1>5
      <4> HIDE DEF events
      <4>3. ~(Len(events) > Len(e.done))
        BY <2>2, <4>2
      <4> QED BY <4>1, <4>3 DEF Ahead, Known
    <3>2. CASE n # cur
      <4>1. Known(n) /\ ~Active(n)
        BY <2>7, <3>2, OthersEnded DEF Allocated
      <4> QED BY <1>6, <3>2, <4>1 DEF Known, Active, Ahead
    <3> QED BY <3>1, <3>2
  <2> QED BY <2>3, <2>4, <2>5, <2>6, <2>7 DEF EvidenceInv, LineageAgrees
<1>12. LeaseInv'
  <2>1. \A n \in DOMAIN entries' : Done(n, "diagnostic-budget")' => Charged(n)
    <3> HIDE DEF Done
    <3> QED BY <1>6, <1>7, <1>8 DEF LeaseInv
  <2>2. \A n \in Numbers : Leased(n, "validation") /\ Diagnostic(n) \in {"releasing", "released"} =>
           Decided(n, "validation") /\ Known(n)' /\ Released(entries'[n])
    BY <1>6 DEF LeaseInv, Known
  <2> HIDE DEF Released, Done
  <2> QED BY <2>1, <2>2 DEF LeaseInv, Charged, Leased, Lease, Status, Decided, Diagnostic
<1> QED BY <1>1, <1>5, <1>6, <1>10, <1>11, <1>12
---------------------------------------------------------------------------
(* The evidence *)

(* An operation that reports nothing is claimed with no input.             *)
LEMMA ClaimWithoutInput ==
    ASSUME TypeOK, pending # None, pending.op \in JournalOps \ {"gates", "repair", "validation"}
    PROVE  Claimed(pending.number, pending.op, None)
<1>1. PICK op \in JournalOps : pending \in ClaimType(op)
  BY DEF TypeOK
<1>2. op = pending.op /\ pending.input \in Inputs(op)
  BY <1>1 DEF ClaimType
<1>3. pending.input = None
  BY <1>1, <1>2, InputsAre
<1> QED BY <1>1, <1>3 DEF ClaimType, Claimed

(* A change that leaves the attestations leaves the lineage.               *)
LEMMA LineageFrame ==
    ASSUME TypeOK, JournalInv, LineageAgrees, UNCHANGED <<entries, pending>>,
           \A n \in Numbers :
              /\ Attested(n)' <=> Attested(n)
              /\ Attested(n) => evidence'[n].attestation = evidence[n].attestation
    PROVE  LineageAgrees'
<1>1. DOMAIN entries \subseteq Numbers
  BY KnownIsLatest
<1>2. Lineage'
  <2>1. ASSUME NEW n \in Numbers, Attested(n)'
        PROVE  evidence'[n].attestation.previous = PriorSeal(n)'
    <3>1. PriorSeal(n)' = PriorSeal(n)
      BY PriorSealFrame
    <3> QED BY <2>1, <3>1 DEF LineageAgrees, Lineage
  <2> QED BY <2>1 DEF Lineage
<1> QED BY <1>1, <1>2 DEF LineageAgrees, Sealed, Known, Claimed

(* Allocating the directory of the experiment whose creation is claimed.    *)
LEMMA AllocateKeeps ==
    ASSUME TypeOK, JournalInv, EvidenceInv, pending # None, pending.number = cur,
           pending.op = "create", ~Allocated(cur), Allocate(cur), UNCHANGED <<journalVars, cur>>
    PROVE  /\ evidence' \in [Numbers -> DirectoryType \cup {None}] /\ Allocated(cur)'
           /\ EvidenceInv'
<1>1. /\ UNCHANGED <<entries, pending, head, cur>>
      /\ cur \in Numbers /\ DOMAIN entries \subseteq Numbers
  BY KnownIsLatest DEF journalVars
<1>2. Directory \in DirectoryType /\ Directory.attestation = None /\ Directory.events = <<>>
  BY DEF Directory, DirectoryType
<1>3. /\ evidence' \in [Numbers -> DirectoryType \cup {None}]
      /\ evidence'[cur] = Directory /\ evidence'[cur] # None
      /\ \A m \in Numbers : m # cur => evidence'[m] = evidence[m]
  <2> HIDE DEF Directory
  <2> QED BY <1>1, <1>2 DEF TypeOK, Allocate
<1>4. cur \notin DOMAIN entries
  BY <1>1, EntriesAre DEF JournalInv, Justified
<1>5. WriteAhead'
  BY <1>1, <1>3, <1>4 DEF EvidenceInv, WriteAhead, Allocated, Events
<1>6. LineageAgrees'
  BY <1>1, <1>2, <1>3, LineageFrame DEF EvidenceInv, Attested, Allocated
<1>7. Claimed(cur, "create", None)'
  <2>1. pending.op \in JournalOps \ {"gates", "repair", "validation"}
    BY DEF JournalOps
  <2> QED BY <1>1, <2>1, ClaimWithoutInput DEF Claimed
<1>8. ASSUME NEW n \in Numbers, Allocated(n)'
      PROVE  /\ ~Known(n)' => Claimed(n, "create", None)'
             /\ Ahead(n)'
  <2>1. CASE n = cur
    <3>1. Events(n)' = <<>> /\ Len(<<>>) = 0
      BY <1>2, <1>3, <2>1 DEF Events
    <3>2. ~Known(n)'
      BY <1>1, <1>4, <2>1 DEF Known
    <3> QED BY <1>7, <2>1, <3>1, <3>2 DEF Ahead, Claimed
  <2>2. CASE n # cur
    BY <1>1, <1>3, <1>8, <2>2 DEF EvidenceInv, Allocated, Known, Claimed, Ahead, Active, Events
  <2> QED BY <2>1, <2>2
<1> QED BY <1>1, <1>3, <1>5, <1>6, <1>8 DEF EvidenceInv, Allocated

(* A directory replaced by one that is ahead as it should be.              *)
LEMMA DirectoryKeeps ==
    ASSUME TypeOK, JournalInv, EvidenceInv, Allocated(cur), NEW d \in DirectoryType,
           evidence' = [evidence EXCEPT ![cur] = d], UNCHANGED <<journalVars, cur>>,
           d.attestation = evidence[cur].attestation,
           Receipts(cur) <= Len(d.events),
           \A i \in 1 .. Receipts(cur) : d.events[i] = Events(cur)[i],
           \A i \in DOMAIN d.events : i > Receipts(cur) + 1 => d.events[i] \notin JournalOps,
           Len(d.events) > Receipts(cur) /\ (Known(cur) => Active(cur)) =>
              /\ pending # None /\ pending.number = cur
              /\ pending.op = d.events[Receipts(cur) + 1]
              /\ Len(d.events) > Receipts(cur) + 1 => pending.op = "seal"
    PROVE  /\ evidence' \in [Numbers -> DirectoryType \cup {None}]
           /\ evidence'[cur] = d /\ Allocated(cur)'
           /\ EvidenceInv'
<1>1. /\ UNCHANGED <<entries, pending, head, cur>>
      /\ cur \in Numbers /\ DOMAIN entries \subseteq Numbers
  BY KnownIsLatest DEF journalVars
<1>2. /\ evidence' \in [Numbers -> DirectoryType \cup {None}]
      /\ evidence'[cur] = d /\ d # None
      /\ \A m \in Numbers : m # cur => evidence'[m] = evidence[m]
  BY <1>1 DEF TypeOK
<1>3. WriteAhead'
  <2>1. ASSUME NEW n \in DOMAIN entries, n # cur
        PROVE  /\ Allocated(n)'
               /\ LET s == Events(n) done == entries[n].done IN
                  /\ Len(done)' <= Len(s)'
                  /\ \A i \in DOMAIN done' : s'[i] = done'[i]
                  /\ \A i \in DOMAIN s' : i > Len(done)' + 1 => s'[i] \notin JournalOps
    BY <1>1, <1>2, <2>1 DEF EvidenceInv, WriteAhead, Allocated, Events
  <2>2. ASSUME cur \in DOMAIN entries
        PROVE  /\ Receipts(cur) = Len(entries[cur].done)
               /\ DOMAIN entries[cur].done = 1 .. Receipts(cur)
               /\ \A i \in DOMAIN entries[cur].done : Events(cur)[i] = entries[cur].done[i]
    BY <2>2, EntriesAre DEF EvidenceInv, WriteAhead, Receipts, Known, EntryType
  <2>3. Allocated(cur)' /\ Events(cur)' = d.events
    BY <1>1, <1>2 DEF Allocated, Events
  <2>4. ASSUME cur \in DOMAIN entries
        PROVE  /\ Len(entries[cur].done) <= Len(d.events)
               /\ \A i \in DOMAIN entries[cur].done : d.events[i] = entries[cur].done[i]
               /\ \A i \in DOMAIN d.events :
                     i > Len(entries[cur].done) + 1 => d.events[i] \notin JournalOps
    BY <2>2, <2>4
  <2> HIDE DEF Events
  <2> QED BY <1>1, <2>1, <2>3, <2>4 DEF WriteAhead
<1>4. LineageAgrees'
  BY <1>1, <1>2, LineageFrame DEF EvidenceInv, Attested, Allocated
<1>5. ASSUME NEW n \in Numbers, Allocated(n)'
      PROVE  /\ ~Known(n)' => Claimed(n, "create", None)'
             /\ Ahead(n)'
  <2>1. CASE n = cur
    <3>1. Events(n)' = d.events /\ (IF Known(n)' THEN Len(entries'[n].done) ELSE 0) = Receipts(cur)
      BY <1>1, <1>2, <2>1 DEF Events, Known, Receipts
    <3>2. ~Known(n)' => Claimed(n, "create", None)'
      BY <1>1, <2>1 DEF EvidenceInv, Known, Claimed
    <3>3. (Known(n) => Active(n))' <=> (Known(cur) => Active(cur))
      BY <1>1, <2>1 DEF Known, Active
    <3> HIDE DEF Known, Active, Receipts, Events
    <3>4. Ahead(n)'
      BY <1>1, <2>1, <3>1, <3>3 DEF Ahead
    <3> QED BY <3>2, <3>4
  <2>2. CASE n # cur
    BY <1>1, <1>2, <1>5, <2>2 DEF EvidenceInv, Allocated, Known, Claimed, Ahead, Active, Events
  <2> QED BY <2>1, <2>2
<1> QED BY <1>1, <1>2, <1>3, <1>4, <1>5 DEF EvidenceInv, Allocated

(* An event goes after the others; that of a claim follows the receipts.   *)
LEMMA DirectoryOf ==
    ASSUME TypeOK, JournalInv, EvidenceInv, Allocated(cur)
    PROVE  /\ cur \in Numbers /\ evidence[cur] \in DirectoryType
           /\ Events(cur) \in Seq(EventNames) /\ DOMAIN Events(cur) = 1 .. Len(Events(cur))
           /\ Len(Events(cur)) \in Nat /\ Receipts(cur) \in Nat
           /\ Receipts(cur) <= Len(Events(cur))
           /\ \A i \in DOMAIN Events(cur) : i > Receipts(cur) + 1 => Events(cur)[i] \notin JournalOps
<1>1. cur \in Numbers /\ evidence[cur] \in DirectoryType
  BY KnownIsLatest DEF TypeOK, Allocated
<1>2. /\ Events(cur) \in Seq(EventNames) /\ DOMAIN Events(cur) = 1 .. Len(Events(cur))
      /\ Len(Events(cur)) \in Nat
  BY <1>1 DEF Events, DirectoryType
<1>3. CASE Known(cur)
  <2>1. /\ cur \in DOMAIN entries /\ Receipts(cur) = Len(entries[cur].done)
        /\ entries[cur].done \in Seq(JournalOps)
    BY <1>3, EntriesAre DEF Known, Receipts, EntryType
  <2> QED BY <1>1, <1>2, <2>1 DEF EvidenceInv, WriteAhead
<1>4. CASE ~Known(cur)
  <2>1. Receipts(cur) = 0
    BY <1>4 DEF Receipts
  <2>2. ASSUME NEW i \in DOMAIN Events(cur), i > 1 PROVE FALSE
    <3>1. Len(Events(cur)) > 0 + 1
      BY <1>2, <2>2
    <3>2. Claimed(cur, "create", None) /\ Ahead(cur)
      BY <1>1, <1>4 DEF EvidenceInv
    <3>3. pending.op = "create"
      BY <3>2 DEF Claimed
    <3>4. Len(Events(cur)) > 0
      BY <1>2, <3>1
    <3> QED BY <1>4, <3>1, <3>2, <3>3, <3>4 DEF Ahead
  <2> QED BY <1>1, <1>2, <2>1, <2>2
<1> QED BY <1>3, <1>4

(* Appending the claimed operation's event, when it is the next one.        *)
LEMMA AppendKeeps ==
    ASSUME TypeOK, JournalInv, EvidenceInv, Allocated(cur), NEW event \in EventNames,
           AppendEvent(cur, event), UNCHANGED <<journalVars, cur>>,
           event \in JournalOps => Len(Events(cur)) = Receipts(cur),
           (Known(cur) => Active(cur)) =>
              /\ pending # None /\ pending.number = cur
              /\ pending.op = IF Len(Events(cur)) = Receipts(cur) THEN event ELSE "seal"
    PROVE  /\ evidence' \in [Numbers -> DirectoryType \cup {None}]
           /\ evidence'[cur] = [evidence[cur] EXCEPT !.events = Append(@, event)]
           /\ Allocated(cur)' /\ Len(Events(cur)') > Receipts(cur)
           /\ EvidenceInv'
<1> DEFINE events == Events(cur)
           d == [evidence[cur] EXCEPT !.events = Append(@, event)]
           k == Receipts(cur)
<1>1. /\ evidence[cur] \in DirectoryType /\ events \in Seq(EventNames) /\ k \in Nat
      /\ Len(events) \in Nat /\ k <= Len(events) /\ cur \in Numbers
      /\ \A i \in DOMAIN events : i > k + 1 => events[i] \notin JournalOps
  BY DirectoryOf
<1>2. /\ Append(events, event) \in Seq(EventNames)
      /\ Len(Append(events, event)) = Len(events) + 1
      /\ DOMAIN events = 1 .. Len(events)
      /\ DOMAIN Append(events, event) = 1 .. Len(events) + 1
      /\ \A i \in 1 .. Len(events) : Append(events, event)[i] = events[i]
      /\ Append(events, event)[Len(events) + 1] = event
  BY <1>1, AppendProperties, AppendHas
<1>3. /\ d \in DirectoryType /\ d.events = Append(events, event)
      /\ d.attestation = evidence[cur].attestation
  BY <1>1, <1>2 DEF DirectoryType, Events
<1>4. evidence' = [evidence EXCEPT ![cur] = d]
  BY DEF AppendEvent
<1> HIDE DEF events, d, k
<1>5. k <= Len(d.events) /\ Len(d.events) > k
  BY <1>1, <1>2, <1>3
<1>6. \A i \in 1 .. k : d.events[i] = events[i]
  BY <1>1, <1>2, <1>3
<1>7. \A i \in DOMAIN d.events : i > k + 1 => d.events[i] \notin JournalOps
  <2>1. SUFFICES ASSUME NEW i \in DOMAIN d.events, i > k + 1
                 PROVE  d.events[i] \notin JournalOps
    OBVIOUS
  <2>2. i \in 1 .. Len(events) \/ i = Len(events) + 1
    BY <1>1, <1>2, <1>3, <2>1
  <2>3. i = Len(events) + 1 => event \notin JournalOps
    BY <1>1, <2>1 DEF events, k
  <2> QED BY <1>1, <1>2, <1>3, <2>1, <2>2, <2>3
<1>8. (Known(cur) => Active(cur)) =>
         /\ pending # None /\ pending.number = cur /\ pending.op = d.events[k + 1]
         /\ Len(d.events) > k + 1 => pending.op = "seal"
  <2>1. SUFFICES ASSUME Known(cur) => Active(cur)
                 PROVE  /\ pending # None /\ pending.number = cur /\ pending.op = d.events[k + 1]
                        /\ Len(d.events) > k + 1 => pending.op = "seal"
    OBVIOUS
  <2>2. CASE Len(events) = k
    <3>1. pending # None /\ pending.number = cur /\ pending.op = event
      BY <2>1, <2>2 DEF events, k
    <3> QED BY <1>1, <1>2, <1>3, <2>2, <3>1
  <2>3. CASE Len(events) # k
    <3>1. pending # None /\ pending.number = cur /\ pending.op = "seal"
      BY <2>1, <2>3 DEF events, k
    <3>2. Len(events) > k /\ k + 1 \in 1 .. Len(events)
      BY <1>1, <2>3
    <3>3. pending.op = events[k + 1]
      <4>1. Ahead(cur)
        BY <1>1 DEF EvidenceInv
      <4> QED BY <2>1, <3>2, <4>1 DEF Ahead, Receipts, events, k
    <3> QED BY <1>2, <1>3, <3>1, <3>2, <3>3
  <2> QED BY <2>2, <2>3
<1>9. /\ evidence' \in [Numbers -> DirectoryType \cup {None}]
      /\ evidence'[cur] = d /\ Allocated(cur)' /\ EvidenceInv'
  BY <1>3, <1>4, <1>5, <1>6, <1>7, <1>8, DirectoryKeeps DEF events, k
<1>10. Events(cur)' = d.events
  BY <1>9 DEF Events, journalVars
<1> QED BY <1>5, <1>9, <1>10 DEF d, k

(* The event of a claim, when it is not there, follows the receipts.       *)
LEMMA ClaimedEventNext ==
    ASSUME TypeOK, JournalInv, EvidenceInv, Allocated(cur),
           pending # None, pending.number = cur
    PROVE  /\ Known(cur) => Active(cur)
           /\ Len(Events(cur)) > Receipts(cur) <=> HasEvent(cur, pending.op)
<1>1. Known(cur) => Active(cur)
  BY KnownIsLatest DEF JournalInv, Justified
<1>2. /\ cur \in Numbers /\ Len(Events(cur)) \in Nat /\ Receipts(cur) \in Nat
      /\ Receipts(cur) <= Len(Events(cur)) /\ DOMAIN Events(cur) = 1 .. Len(Events(cur))
  BY DirectoryOf
<1>3. ASSUME Len(Events(cur)) # Receipts(cur)
      PROVE  HasEvent(cur, pending.op)
  <2>1. Ahead(cur)
    BY <1>2 DEF EvidenceInv
  <2>2. Len(Events(cur)) > Receipts(cur) /\ Receipts(cur) + 1 \in DOMAIN Events(cur)
    BY <1>2, <1>3
  <2>3. pending.op = Events(cur)[Receipts(cur) + 1]
    BY <1>1, <2>1, <2>2 DEF Ahead, Receipts
  <2> QED BY <2>2, <2>3 DEF HasEvent
<1>4. ASSUME Len(Events(cur)) = Receipts(cur), HasEvent(cur, pending.op)
      PROVE  FALSE
  <2>1. PICK i \in 1 .. Receipts(cur) : Events(cur)[i] = pending.op
    BY <1>2, <1>4 DEF HasEvent
  <2>2. Known(cur)
    BY <1>2, <2>1 DEF Receipts
  <2>3. ~Done(cur, pending.op)
    BY <2>2, KnownIsLatest DEF JournalInv, Justified
  <2>4. i \in DOMAIN entries[cur].done /\ entries[cur].done[i] = pending.op
    BY <2>1, <2>2, EntriesAre DEF EvidenceInv, WriteAhead, Receipts, Known, EntryType
  <2> QED BY <2>2, <2>3, <2>4 DEF Done
<1> QED BY <1>1, <1>2, <1>3, <1>4

(* Writing the artifacts of a seal touches neither events nor attestation.  *)
LEMMA WriteArtifactsKeeps ==
    ASSUME TypeOK, JournalInv, EvidenceInv, Allocated(cur), WriteArtifacts(cur),
           UNCHANGED <<journalVars, cur>>
    PROVE  /\ evidence' \in [Numbers -> DirectoryType \cup {None}]
           /\ evidence'[cur].attestation = evidence[cur].attestation
           /\ Allocated(cur)' /\ Events(cur)' = Events(cur)
           /\ EvidenceInv'
<1> DEFINE d == [evidence[cur] EXCEPT !.artifacts = TRUE]
<1>1. /\ evidence[cur] \in DirectoryType /\ cur \in Numbers
      /\ Events(cur) \in Seq(EventNames) /\ Receipts(cur) <= Len(Events(cur))
      /\ \A i \in DOMAIN Events(cur) : i > Receipts(cur) + 1 => Events(cur)[i] \notin JournalOps
  BY DirectoryOf
<1>2. /\ d \in DirectoryType /\ d.events = Events(cur)
      /\ d.attestation = evidence[cur].attestation
  BY <1>1 DEF DirectoryType, Events
<1>3. evidence' = [evidence EXCEPT ![cur] = d]
  BY DEF WriteArtifacts
<1>4. Ahead(cur)
  BY <1>1 DEF EvidenceInv
<1> HIDE DEF d
<1>5. Len(d.events) > Receipts(cur) /\ (Known(cur) => Active(cur)) =>
         /\ pending # None /\ pending.number = cur
         /\ pending.op = d.events[Receipts(cur) + 1]
         /\ Len(d.events) > Receipts(cur) + 1 => pending.op = "seal"
  BY <1>2, <1>4 DEF Ahead, Receipts
<1>6. /\ evidence' \in [Numbers -> DirectoryType \cup {None}]
      /\ evidence'[cur] = d /\ Allocated(cur)' /\ EvidenceInv'
  BY <1>1, <1>2, <1>3, <1>5, DirectoryKeeps
<1>7. Events(cur)' = d.events
  BY <1>6 DEF Events, journalVars
<1> QED BY <1>2, <1>6, <1>7

(* An attestation behind the head extends the lineage: whatever is attested *)
(* already belongs to an earlier experiment.                                *)
LEMMA AttestKeeps ==
    ASSUME TypeOK, JournalInv, EvidenceInv, Unsealed(cur), PriorSeal(cur) = head,
           pending # None, pending.number = cur, pending.op = "seal",
           Attest(cur, PriorSeal(cur)), UNCHANGED <<journalVars, cur>>
    PROVE  /\ evidence' \in [Numbers -> DirectoryType \cup {None}]
           /\ Attested(cur)' /\ evidence'[cur].attestation.previous = head
           /\ Events(cur)' = Events(cur)
           /\ EvidenceInv'
<1> DEFINE d == [evidence[cur] EXCEPT !.attestation = [previous |-> head]]
<1>1. /\ UNCHANGED <<entries, pending, head, cur>> /\ head \in Nat
      /\ cur \in Numbers /\ cur \in Nat /\ DOMAIN entries \subseteq Numbers /\ cur = Latest
      /\ Allocated(cur) /\ evidence[cur] \in DirectoryType /\ ~Attested(cur)
  <2>1. UNCHANGED <<entries, pending, head, cur>> /\ head \in Nat /\ Allocated(cur) /\ ~Attested(cur)
    BY DEF journalVars, TypeOK, Unsealed
  <2>2. cur = Latest
    BY DEF JournalInv, Justified
  <2> QED BY <2>1, <2>2, KnownIsLatest, DirectoryOf
<1>2. /\ d \in DirectoryType /\ d.events = Events(cur) /\ d.attestation = [previous |-> head]
      /\ d.artifacts = evidence[cur].artifacts /\ d.attestation # None
  BY <1>1 DEF DirectoryType, Events
<1>3. evidence' = [evidence EXCEPT ![cur] = d]
  BY DEF Attest
<1> HIDE DEF d
<1>4. /\ evidence' \in [Numbers -> DirectoryType \cup {None}]
      /\ evidence'[cur] = d /\ Allocated(cur)'
      /\ \A m \in Numbers : m # cur => evidence'[m] = evidence[m]
  <2>1. d # None
    BY <1>2
  <2> QED BY <1>1, <1>2, <1>3, <2>1 DEF TypeOK, Allocated
<1>5. Attested(cur)' /\ evidence'[cur].attestation.previous = head /\ Events(cur)' = Events(cur)
  BY <1>1, <1>2, <1>4 DEF Attested, Events
<1>6. \A m \in Numbers : m # cur => (Attested(m)' <=> Attested(m))
  <2>1. \A m \in Numbers : m # cur => evidence'[m] = evidence[m]
    BY <1>4
  <2> QED BY <2>1 DEF Attested, Allocated
<1>7. Claimed(cur, "seal", None)
  <2>1. pending.op \in JournalOps \ {"gates", "repair", "validation"}
    BY DEF JournalOps
  <2> QED BY <2>1, ClaimWithoutInput
<1>8. ASSUME NEW m \in Numbers, Attested(m)
      PROVE  m < cur /\ ~(cur < m)
  <2>1. m # cur
    BY <1>1, <1>8
  <2>2. Sealed(m)
    BY <1>1, <1>7, <1>8, <2>1 DEF EvidenceInv, LineageAgrees, Claimed
  <2>3. m \in 1 .. Latest
    BY <2>2, EntriesAre DEF Sealed, Known
  <2> QED BY <1>1, <2>1, <2>3
<1>9. WriteAhead'
  <2>1. \A n \in Numbers : Allocated(n) => Allocated(n)' /\ Events(n)' = Events(n)
    BY <1>1, <1>2, <1>4 DEF Allocated, Events
  <2> QED BY <1>1, <2>1 DEF EvidenceInv, WriteAhead
<1>10. LineageAgrees'
  <2>1. ASSUME NEW n \in Numbers, Attested(n)'
        PROVE  evidence'[n].attestation.previous = PriorSeal(n)'
    <3>1. CASE n = cur
      <4>1. \A m \in Numbers : m < n => (Attested(m)' <=> Attested(m))
        BY <1>1, <1>6, <3>1 DEF Numbers
      <4>2. PriorSeal(n)' = PriorSeal(n)
        BY <4>1, PriorSealFrame
      <4> QED BY <1>5, <1>1, <3>1, <4>2
    <3>2. CASE n # cur
      <4>1. Attested(n) /\ n < cur /\ n \in Nat /\ evidence'[n] = evidence[n]
        BY <1>4, <1>6, <1>8, <2>1, <3>2 DEF Numbers
      <4>2. \A m \in Numbers : m < n => (Attested(m)' <=> Attested(m))
        BY <1>1, <1>6, <4>1 DEF Numbers
      <4>3. PriorSeal(n)' = PriorSeal(n)
        BY <4>2, PriorSealFrame
      <4> QED BY <4>1, <4>3 DEF EvidenceInv, LineageAgrees, Lineage
    <3> QED BY <3>1, <3>2
  <2>2. \A n \in DOMAIN entries : Sealed(n)' =>
           Attested(n)' /\ evidence'[n].attestation.previous = entries'[n].previous
    <3>1. \A n \in DOMAIN entries : Sealed(n)' => Sealed(n) /\ n # cur
      BY <1>1 DEF Sealed, Known, JournalInv, Justified, Active
    <3> QED BY <1>1, <1>4, <1>6, <3>1 DEF EvidenceInv, LineageAgrees
  <2>3. \A n \in Numbers : Attested(n)' => Sealed(n)' \/ Claimed(n, "seal", None)'
    <3>1. \A n \in Numbers : n # cur /\ Attested(n)' => Sealed(n) \/ Claimed(n, "seal", None)
      BY <1>6 DEF EvidenceInv, LineageAgrees
    <3> QED BY <1>1, <1>7, <3>1 DEF Sealed, Known, Claimed
  <2> QED BY <1>1, <2>1, <2>2, <2>3 DEF LineageAgrees, Lineage
<1>11. ASSUME NEW n \in Numbers, Allocated(n)'
       PROVE  /\ ~Known(n)' => Claimed(n, "create", None)'
              /\ Ahead(n)'
  <2>1. Allocated(n) /\ Events(n)' = Events(n)
    BY <1>1, <1>2, <1>4, <1>11 DEF Allocated, Events
  <2> QED BY <1>1, <2>1 DEF EvidenceInv, Known, Claimed, Ahead, Active
<1> QED BY <1>1, <1>4, <1>5, <1>9, <1>10, <1>11 DEF EvidenceInv
---------------------------------------------------------------------------
(* The leases *)

(* A lease replaced by one that agrees with the record of its experiment,  *)
(* and that obeys the one-use rule.                                        *)
Agrees(n, s, l) ==
    /\ l.status = "disposed" <=> l.outcome # None
    /\ l.status = "evaluated" \/ l.outcome = "decided" => l.result # None
    /\ s = "validation" /\ l.diagnostic \in {"releasing", "released"} =>
          l.outcome = "decided" /\ Known(n) /\ Released(entries[n])
    /\ s = "validation" /\ Charged(n) => l.diagnostic = "released"
UsedOnce(n, s, l) ==
    Leased(n, s) =>
       /\ Status(n, s) # "prepared" => l.status # "prepared"
       /\ Status(n, s) = "disposed" =>
             l.outcome = Lease(n, s).outcome /\ l.result = Lease(n, s).result

(* What the leases owe a step. *)
LeasesKept ==
    /\ leases' = [n \in Numbers |-> [s \in Stages |-> leases'[n][s]]]
    /\ \A n \in Numbers, s \in Stages : leases'[n][s] \in LeaseType(s) \cup {None}
    /\ \A n \in Numbers, s \in Stages : Leased(n, s) =>
          /\ Status(n, s) # "prepared" => Status(n, s)' # "prepared"
          /\ Status(n, s) = "disposed" =>
                /\ Lease(n, s)'.outcome = Lease(n, s).outcome
                /\ Lease(n, s)'.result = Lease(n, s).result

(* A lease may be replaced by one that the journal agrees with and that     *)
(* undoes no use of it.                                                     *)
LEMMA LeaseKeeps ==
    ASSUME TypeOK, JournalInv, LeaseInv, NEW s \in Stages, NEW l \in LeaseType(s),
           UpdateLease(cur, s, l), UNCHANGED <<entries, cur>>,
           Agrees(cur, s, l), UsedOnce(cur, s, l)
    PROVE  LeasesKept /\ LeaseInv' /\ leases'[cur][s] = l /\ l # None
<1>1. cur \in Numbers /\ UNCHANGED <<entries, cur>>
  BY DEF TypeOK
<1>2. /\ leases' = [m \in Numbers |-> [t \in Stages |-> leases'[m][t]]]
      /\ \A m \in Numbers, t \in Stages : leases'[m][t] \in LeaseType(t) \cup {None}
      /\ leases'[cur][s] = l
      /\ \A m \in Numbers, t \in Stages : m # cur \/ t # s => leases'[m][t] = leases[m][t]
  BY <1>1, ReplaceLease
<1>3. l # None
  OBVIOUS
<1>4. \A n \in Numbers, t \in Stages : Leased(n, t) =>
          /\ Status(n, t) # "prepared" => Status(n, t)' # "prepared"
          /\ Status(n, t) = "disposed" =>
                /\ Lease(n, t)'.outcome = Lease(n, t).outcome
                /\ Lease(n, t)'.result = Lease(n, t).result
  BY <1>2 DEF UsedOnce, Status, Lease
<1>5. LeaseInv'
  <2>1. ASSUME NEW n \in Numbers, NEW t \in Stages, Leased(n, t)'
        PROVE  /\ Status(n, t)' = "disposed" <=> Lease(n, t)'.outcome # None
               /\ Status(n, t)' = "evaluated" \/ Decided(n, t)' => Lease(n, t)'.result # None
    BY <1>2, <2>1 DEF LeaseInv, Agrees, Leased, Lease, Status, Decided
  <2>2. ASSUME NEW n \in Numbers, Leased(n, "validation")',
               Diagnostic(n)' \in {"releasing", "released"}
        PROVE  Decided(n, "validation")' /\ Known(n)' /\ Released(entries'[n])
    <3>1. "validation" \in Stages
      BY DEF Stages
    <3>2. CASE n = cur /\ s = "validation"
      <4>1. l.outcome = "decided" /\ Known(cur) /\ Released(entries[cur])
        BY <1>2, <2>2, <3>2 DEF Agrees, Leased, Lease, Diagnostic
      <4> QED BY <1>1, <1>2, <1>3, <3>2, <4>1 DEF Decided, Leased, Lease, Known
    <3>3. CASE n # cur \/ s # "validation"
      BY <1>1, <1>2, <2>2, <3>1, <3>3 DEF LeaseInv, Leased, Lease, Diagnostic, Decided, Known
    <3> QED BY <3>2, <3>3
  <2>3. ASSUME NEW n \in DOMAIN entries, Done(n, "diagnostic-budget")'
        PROVE  Charged(n)'
    <3>1. "validation" \in Stages /\ n \in Numbers /\ Charged(n)
      <4>1. Charged(n)
        BY <1>1, <2>3 DEF LeaseInv, Done, Known
      <4> QED BY <4>1, KnownIsLatest DEF Stages
    <3>2. CASE n = cur /\ s = "validation"
      BY <1>2, <1>3, <3>1, <3>2 DEF Agrees, Charged, Leased, Lease, Diagnostic
    <3>3. CASE n # cur \/ s # "validation"
      BY <1>2, <3>1, <3>3 DEF Charged, Leased, Lease, Diagnostic
    <3> QED BY <3>2, <3>3
  <2> QED BY <1>1, <2>1, <2>2, <2>3 DEF LeaseInv
<1> QED BY <1>2, <1>3, <1>4, <1>5 DEF LeasesKept

(* What the invariant says of one lease.                                   *)
LEMMA LeaseIs ==
    ASSUME TypeOK, LeaseInv, NEW s \in Stages, Leased(cur, s)
    PROVE  /\ cur \in Numbers /\ Lease(cur, s) \in LeaseType(s)
           /\ Lease(cur, s).status = "disposed" <=> Lease(cur, s).outcome # None
           /\ Lease(cur, s).status = "evaluated" \/ Lease(cur, s).outcome = "decided" =>
                 Lease(cur, s).result # None
           /\ s = "validation" /\ Lease(cur, s).diagnostic \in {"releasing", "released"} =>
                 Lease(cur, s).outcome = "decided" /\ Known(cur) /\ Released(entries[cur])
           /\ s = "validation" => (Charged(cur) <=> Lease(cur, s).diagnostic = "released")
BY DEF TypeOK, LeaseInv, Leased, Lease, Status, Decided, Charged, Diagnostic

(* A step that does not write leases keeps them.                            *)
LEMMA LeasesStay ==
    ASSUME TypeOK, UNCHANGED leases
    PROVE  LeasesKept
BY DEF LeasesKept, TypeOK, Status, Lease

(* Neither leases nor entries written: their relation stays.                *)
LEMMA LeasesUnchanged ==
    ASSUME TypeOK, LeaseInv, UNCHANGED <<entries, leases>>
    PROVE  LeasesKept /\ LeaseInv'
BY LeaseFrame, LeasesStay

(* A lease is prepared only where none is in use.                           *)
LEMMA PrepareKeeps ==
    ASSUME TypeOK, JournalInv, LeaseInv, NEW s \in Stages, MayPrepare(cur, s), Prepare(cur, s),
           UNCHANGED <<entries, cur>>
    PROVE  LeasesKept /\ LeaseInv'
<1>1. CASE Leased(cur, s)
  BY <1>1, LeasesUnchanged DEF MayPrepare, Prepare
<1>2. CASE ~Leased(cur, s)
  <2>1. UpdateLease(cur, s, NewLease)
    BY <1>2 DEF Prepare
  <2>2. NewLease \in LeaseType(s)
    BY DEF NewLease, LeaseType
  <2>3. Agrees(cur, s, NewLease) /\ UsedOnce(cur, s, NewLease)
    BY <1>2 DEF Agrees, UsedOnce, NewLease, Charged, Outcomes
  <2> QED BY <2>1, <2>2, <2>3, LeaseKeeps
<1> QED BY <1>1, <1>2

(* Claiming a prepared lease makes it run.                                  *)
LEMMA ClaimLeaseKeeps ==
    ASSUME TypeOK, JournalInv, LeaseInv, NEW s \in Stages, MayClaim(cur, s), ClaimLease(cur, s),
           UNCHANGED <<entries, cur>>
    PROVE  LeasesKept /\ LeaseInv' /\ Leased(cur, s)' /\ Status(cur, s)' = "running"
<1> DEFINE l == [Lease(cur, s) EXCEPT !.status = "running"]
<1>1. Leased(cur, s) /\ Lease(cur, s).status = "prepared"
  BY DEF MayClaim, Status
<1>2. l \in LeaseType(s)
  BY <1>1, LeaseIs DEF LeaseType
<1>3. Agrees(cur, s, l) /\ UsedOnce(cur, s, l)
  BY <1>1, LeaseIs DEF Agrees, UsedOnce, Status, LeaseType
<1>4. l.status = "running"
  BY <1>1, LeaseIs DEF LeaseType
<1>5. UpdateLease(cur, s, l)
  BY DEF ClaimLease
<1> HIDE DEF l
<1> QED BY <1>2, <1>3, <1>4, <1>5, LeaseKeeps DEF Leased, Lease, Status

(* Binding the request of a running lease keeps it running.                 *)
LEMMA BindRequestKeeps ==
    ASSUME TypeOK, JournalInv, LeaseInv, NEW s \in Stages,
           Leased(cur, s), Status(cur, s) = "running", BindRequest(cur, s),
           UNCHANGED <<entries, cur>>
    PROVE  LeasesKept /\ LeaseInv' /\ Leased(cur, s)' /\ Status(cur, s)' = "running"
<1> DEFINE l == [Lease(cur, s) EXCEPT !.requested = TRUE]
<1>1. Leased(cur, s) /\ Lease(cur, s).status = "running"
  BY DEF Status
<1>2. l \in LeaseType(s)
  BY <1>1, LeaseIs DEF LeaseType
<1>3. Agrees(cur, s, l) /\ UsedOnce(cur, s, l)
  BY <1>1, LeaseIs DEF Agrees, UsedOnce, Status, LeaseType
<1>4. l.status = "running"
  BY <1>1, LeaseIs DEF LeaseType
<1>5. UpdateLease(cur, s, l)
  BY DEF BindRequest
<1> HIDE DEF l
<1> QED BY <1>2, <1>3, <1>4, <1>5, LeaseKeeps DEF Leased, Lease, Status

(* A running lease gets its result.                                         *)
LEMMA RecordResultKeeps ==
    ASSUME TypeOK, JournalInv, LeaseInv, NEW s \in Stages, NEW result \in Inputs(s),
           Leased(cur, s), Status(cur, s) = "running", RecordResult(cur, s, result),
           UNCHANGED <<entries, cur>>
    PROVE  /\ LeasesKept /\ LeaseInv'
           /\ Leased(cur, s)' /\ Lease(cur, s)'.result # None
<1> DEFINE l == [Lease(cur, s) EXCEPT !.status = "evaluated", !.result = result,
                    !.diagnostic = IF s = "validation" /\ result.released
                                   THEN "eligible" ELSE "none"]
<1>1. Leased(cur, s) /\ Lease(cur, s).status = "running" /\ Lease(cur, s).outcome = None
  BY LeaseIs DEF Status
<1>2. l \in LeaseType(s) /\ l.status = "evaluated" /\ l.outcome = None /\ l.result = result
      /\ l.diagnostic \in {"eligible", "none"}
  BY <1>1, LeaseIs DEF LeaseType
<1>3. result # None
  BY InputsAre DEF Stages
<1>4. ~(s = "validation" /\ Charged(cur))
  BY <1>1, LeaseIs DEF Outcomes
<1>5. UpdateLease(cur, s, l)
  BY DEF RecordResult
<1> HIDE DEF l
<1>6. Agrees(cur, s, l) /\ UsedOnce(cur, s, l)
  BY <1>1, <1>2, <1>3, <1>4 DEF Agrees, UsedOnce, Status, Outcomes
<1> QED BY <1>2, <1>3, <1>5, <1>6, LeaseKeeps DEF Leased, Lease

(* A lease is disposed of once, and as decided only with a result.          *)
LEMMA DisposeKeeps ==
    ASSUME TypeOK, JournalInv, LeaseInv, NEW s \in Stages, NEW outcome \in Outcomes,
           MayDispose(cur, s, outcome), Dispose(cur, s, outcome), UNCHANGED <<entries, cur>>
    PROVE  /\ LeasesKept /\ LeaseInv'
           /\ Leased(cur, s)' /\ (outcome = "decided" => Lease(cur, s)'.result # None)
<1> DEFINE l == Disposed(Lease(cur, s), outcome)
<1>1. Leased(cur, s) /\ Lease(cur, s) \in LeaseType(s)
  BY LeaseIs DEF MayDispose
<1>2. /\ l \in LeaseType(s) /\ l.status = "disposed" /\ l.outcome = outcome
      /\ l.result = Lease(cur, s).result /\ l.diagnostic = Lease(cur, s).diagnostic
  BY <1>1 DEF Disposed, LeaseType
<1>3. UpdateLease(cur, s, l)
  BY DEF Dispose
<1>4. /\ Lease(cur, s).status = "disposed" => Lease(cur, s).outcome = outcome
      /\ outcome = "decided" => Lease(cur, s).status \in {"disposed", "evaluated"}
  BY DEF MayDispose, Status
<1> HIDE DEF l
<1>5. outcome = "decided" => l.result # None
  BY <1>1, <1>2, <1>4, LeaseIs
<1>6. Agrees(cur, s, l)
  <2>1. "decided" # None /\ outcome # None
    BY DEF Outcomes
  <2>2. s = "validation" /\ l.diagnostic \in {"releasing", "released"} =>
           outcome = "decided" /\ Known(cur) /\ Released(entries[cur])
    BY <1>1, <1>2, <1>4, <2>1, LeaseIs
  <2>3. s = "validation" /\ Charged(cur) => l.diagnostic = "released"
    BY <1>1, <1>2, LeaseIs
  <2> QED BY <1>2, <1>5, <2>1, <2>2, <2>3 DEF Agrees
<1>7. UsedOnce(cur, s, l)
  BY <1>2, <1>4 DEF UsedOnce, Status
<1> QED BY <1>2, <1>3, <1>5, <1>6, <1>7, LeaseKeeps DEF Leased, Lease

(* A failed evaluation ends a lease without a result.                       *)
LEMMA FailEvaluationKeeps ==
    ASSUME TypeOK, JournalInv, LeaseInv, NEW s \in Stages, Leased(cur, s),
           FailEvaluation(cur, s), UNCHANGED <<entries, cur>>
    PROVE  LeasesKept /\ LeaseInv'
<1> DEFINE l == [Lease(cur, s) EXCEPT !.status = "evaluation-failed"]
<1>1. CASE Status(cur, s) \in {"disposed", "evaluated"}
  BY <1>1, LeasesUnchanged DEF FailEvaluation
<1>2. CASE Status(cur, s) \notin {"disposed", "evaluated"}
  <2>1. Lease(cur, s).outcome = None /\ Lease(cur, s).status \notin {"disposed", "evaluated"}
    BY <1>2, LeaseIs DEF Status
  <2>2. /\ l \in LeaseType(s) /\ l.status = "evaluation-failed" /\ l.outcome = None
        /\ l.diagnostic = Lease(cur, s).diagnostic
    BY <2>1, LeaseIs DEF LeaseType
  <2>3. UpdateLease(cur, s, l)
    BY <1>2 DEF FailEvaluation
  <2> HIDE DEF l
  <2>4. Agrees(cur, s, l) /\ UsedOnce(cur, s, l)
    BY <2>1, <2>2, LeaseIs DEF Agrees, UsedOnce, Status, Outcomes
  <2> QED BY <2>2, <2>3, <2>4, LeaseKeeps
<1> QED BY <1>1, <1>2

(* The diagnostic of a decided, released validation moves on.               *)
LEMMA SetDiagnosticKeeps ==
    ASSUME TypeOK, JournalInv, LeaseInv, Decided(cur, "validation"),
           Diagnostic(cur) \in {"eligible", "releasing"}, Known(cur), Released(entries[cur]),
           NEW d \in {"releasing", "released", "burned"}, SetDiagnostic(cur, d),
           UNCHANGED <<entries, cur>>
    PROVE  LeasesKept /\ LeaseInv' /\ Decided(cur, "validation")' /\ Diagnostic(cur)' = d
<1> DEFINE l == [Lease(cur, "validation") EXCEPT !.diagnostic = d]
<1>1. "validation" \in Stages /\ Leased(cur, "validation")
  BY DEF Stages, Decided
<1>2. /\ l \in LeaseType("validation") /\ l.diagnostic = d
      /\ l.status = Lease(cur, "validation").status
      /\ l.outcome = "decided" /\ l.result = Lease(cur, "validation").result
  BY <1>1, LeaseIs DEF LeaseType, Decided
<1>3. ~Charged(cur)
  BY <1>1, LeaseIs DEF Diagnostic
<1>4. UpdateLease(cur, "validation", l)
  BY DEF SetDiagnostic
<1> HIDE DEF l
<1>5. Lease(cur, "validation").outcome = "decided"
  BY DEF Decided
<1>6. Agrees(cur, "validation", l) /\ UsedOnce(cur, "validation", l)
  BY <1>1, <1>2, <1>3, <1>5, LeaseIs DEF Agrees, UsedOnce, Status
<1> QED BY <1>1, <1>2, <1>4, <1>6, LeaseKeeps DEF Leased, Lease, Decided, Diagnostic
---------------------------------------------------------------------------
(* Places *)

RunTyped ==
    /\ pc \in Steps \X (JournalOps \cup {None})
    /\ cur \in Numbers /\ holds \in {None, "unstarted", "started"}
    /\ phase \in Phases \cup {None}
    /\ stop \in {"no", "requested", "spent"} /\ unattended \subseteq Numbers
    /\ faults \in 0 .. MaxFaults
JournalTyped ==
    /\ entries \in Seq(EntryType) /\ head \in Nat
    /\ pending # None => \E op \in JournalOps : pending \in ClaimType(op)
EvidenceTyped ==
    /\ evidence \in [Numbers -> DirectoryType \cup {None}]
    /\ leftLocks \subseteq Numbers \cup {Allocation}
LeasesTyped ==
    /\ leases = [n \in Numbers |-> [s \in Stages |-> leases[n][s]]]
    /\ \A n \in Numbers, s \in Stages : leases[n][s] \in LeaseType(s) \cup {None}

(* The types, store by store.                                               *)
LEMMA TypeParts == TypeOK <=> RunTyped /\ JournalTyped /\ EvidenceTyped /\ LeasesTyped
BY DEF TypeOK, RunTyped, JournalTyped, EvidenceTyped, LeasesTyped

(* A step that changes one store leaves the others typed.                  *)
LEMMA JournalTypedFrame ==
    ASSUME JournalTyped, UNCHANGED journalVars PROVE JournalTyped'
BY DEF JournalTyped, journalVars

(* The evidence's types depend on the evidence alone.                       *)
LEMMA EvidenceTypedFrame ==
    ASSUME EvidenceTyped, UNCHANGED evidenceVars PROVE EvidenceTyped'
BY DEF EvidenceTyped, evidenceVars

(* The leases' types depend on the leases alone.                            *)
LEMMA LeasesTypedFrame ==
    ASSUME LeasesTyped, UNCHANGED leases PROVE LeasesTyped'
BY DEF LeasesTyped

(* The stores, and what a step must keep of them.                          *)
StoresKept ==
    /\ JournalTyped' /\ EvidenceTyped' /\ LeasesTyped'
    /\ JournalInv' /\ EvidenceInv' /\ LeaseInv'

(* A step of the runner's own variables keeps all stores.                   *)
LEMMA StoresFrame ==
    ASSUME Inductive, OnlyRun, UNCHANGED cur
    PROVE  StoresKept
<1>1. TypeOK /\ JournalInv /\ EvidenceInv /\ LeaseInv
  BY DEF Inductive
<1>2. UNCHANGED journalVars /\ UNCHANGED evidenceVars /\ UNCHANGED leases
  BY DEF OnlyRun
<1>3. UNCHANGED <<entries, evidence>>
  BY <1>2 DEF journalVars, evidenceVars
<1>4. JournalTyped' /\ EvidenceTyped' /\ LeasesTyped'
  BY <1>1, <1>2, TypeParts, JournalTypedFrame, EvidenceTypedFrame, LeasesTypedFrame
<1>5. JournalInv' /\ EvidenceInv' /\ LeaseInv'
  BY <1>1, <1>2, <1>3, JournalFrame, EvidenceFrame, LeaseFrame
<1> QED BY <1>4, <1>5 DEF StoresKept

(* The invariant after a step, part by part.                                *)
LEMMA InductiveParts ==
    ASSUME RunTyped', StoresKept, Located'
    PROVE  Inductive'
BY TypeParts DEF StoresKept, Inductive, TypeOK, RunTyped, JournalTyped, EvidenceTyped, LeasesTyped

(* Where the runner calls, it knows of the experiment or is creating it.   *)
LEMMA KnownAt ==
    ASSUME Inductive,
           Step \notin Resting \cup Handling \cup {"thrown", "done", "failEvaluation", "abandon"},
           Subject # "create"
    PROVE  Known(cur)
<1>1. TypeOK /\ JournalInv /\ Located
  BY DEF Inductive
<1>2. Step \in Steps
  BY <1>1 DEF TypeOK, Step
<1>3. ClaimedHere => Known(cur)
  BY <1>1, EntriesAre DEF ClaimedHere, JournalInv, Justified, Active, Known
<1>4. CASE Step \in {"begin", "prepare", "start", "claim", "bind", "evaluate", "dispose",
                     "release", "publish"}
  BY <1>1, <1>4 DEF Located, At, Running
<1>5. CASE Step \in {"event", "commit", "allocate"} \cup Sealing
  BY <1>1, <1>3, <1>5 DEF Located, At
<1> QED BY <1>2, <1>4, <1>5 DEF Steps, Sealing, Resting, Handling

(* A phase is one of the phases.                                            *)
LEMMA PhasesAre ==
    ASSUME NEW n, NEW op
    PROVE  PhaseOf(n, op) \in Phases /\ PhaseAt(n) \in Phases
<1>1. ASSUME NEW x PROVE PhaseOf(n, x) \in Phases
  BY DEF PhaseOf, Phases
<1> QED BY <1>1 DEF PhaseAt, Phases

(* Where an error leads, and that the runner may rely on it.               *)
LEMMA ThrowLands ==
    ASSUME Throw, UNCHANGED cur, Subject = "create" \/ Known(cur)',
           Step \in {"bind", "evaluate"} \/ pc = <<"dispose", "repair">> =>
              \E s \in Stages : Subject = s /\ Leased(cur, s)'
    PROVE  /\ pc' \in Steps \X (JournalOps \cup {None}) /\ phase' \in Phases \cup {None}
           /\ Located'
<1>1. phase' \in Phases
  BY PhasesAre DEF Throw
<1>2. None \notin JournalOps /\ "diagnostic-budget" \in JournalOps /\ Stages \subseteq JournalOps
      /\ "diagnostic-budget" \notin Stages
  BY DEF JournalOps, Operations, BudgetOps, Stages
<1>3. CASE Subject = "create"
  <2>1. pc' = <<"thrown", None>>
    BY <1>3 DEF Throw
  <2> QED BY <1>1, <1>2, <2>1 DEF Located, At, Step, Subject, Sealing, Running, Steps
<1>4. CASE Subject # "create" /\ (Step \in {"bind", "evaluate"} \/ pc = <<"dispose", "repair">>)
  <2>1. PICK s \in Stages : Subject = s /\ Leased(cur, s)'
    BY <1>4
  <2>2. pc' = <<"failEvaluation", s>>
    BY <1>4, <2>1 DEF Throw
  <2>3. Step' = "failEvaluation" /\ Subject' = s /\ s # "diagnostic-budget"
    BY <1>2, <2>2 DEF Step, Subject
  <2>4. Leased(cur, Subject)'
    BY <2>1, <2>3 DEF Leased, Lease
  <2>5. Located'
    BY <1>4, <2>2, <2>3, <2>4 DEF Located, At, Sealing, Running
  <2> QED BY <1>1, <1>2, <2>2, <2>5 DEF Steps
<1>5. CASE Subject # "create" /\ ~(Step \in {"bind", "evaluate"} \/ pc = <<"dispose", "repair">>)
  <2>1. pc' = <<"catch", None>>
    BY <1>5 DEF Throw
  <2> QED BY <1>1, <1>2, <1>5, <2>1 DEF Located, At, Step, Subject, Sealing, Running, Steps
<1> QED BY <1>3, <1>4, <1>5

(* An error of a step that left the leases of its evaluation as they were.  *)
LEMMA ThrowKeeps ==
    ASSUME Inductive, Throw, UNCHANGED <<entries, cur>>,
           Step \notin Resting \cup Handling \cup {"thrown", "done", "failEvaluation", "abandon"},
           At("publish") \/ UNCHANGED leases
    PROVE  /\ pc' \in Steps \X (JournalOps \cup {None}) /\ phase' \in Phases \cup {None}
           /\ Located'
<1>1. Located
  BY DEF Inductive
<1>2. Subject = "create" \/ Known(cur)'
  BY KnownAt DEF Known
<1>3. ASSUME Step \in {"bind", "evaluate"} \/ pc = <<"dispose", "repair">>
      PROVE  \E s \in Stages : Subject = s /\ Leased(cur, s)'
  <2>1. Subject \in Stages /\ Leased(cur, Subject) /\ UNCHANGED <<leases, cur>>
    BY <1>1, <1>3 DEF Located, At, Running, Step, Subject
  <2> QED BY <2>1 DEF Leased, Lease
<1> QED BY <1>2, <1>3, ThrowLands

(* What follows an operation. *)
Onward == {"proposal", "gates", "gates-budget", "analysis", "repair-budget",
           "pre-validation-budget", "seal"}
(* Where a finished operation leads.                                        *)
LEMMA AfterIs ==
    ASSUME NEW n, NEW op \in JournalOps
    PROVE  \/ \E x \in Onward : After(n, op) = <<"begin", x>>
           \/ \E s \in Stages : After(n, op) = <<"prepare", s>>
           \/ After(n, op) \in {<<"dispose", "validation">>, <<"done", None>>}
           \/ After(n, op) = <<"release", None>> /\ Released(entries'[n])
<1> DEFINE e == entries'[n]
<1>1. CASE op \in {"create", "proposal", "gates", "repair", "pre-validation-budget",
                   "validation-budget", "validation", "diagnostic-budget", "seal"}
  BY <1>1 DEF After, AfterSpend, Onward, Stages
<1>2. CASE op \in {"gates-budget", "repair-budget"}
  BY <1>2 DEF After, Onward, Stages
<1>3. CASE op = "analysis"
  BY <1>3 DEF After, AfterAnalysis, Onward
<1> QED BY <1>1, <1>2, <1>3 DEF JournalOps, Operations, BudgetOps

(* The runner may go on from an operation that is done.                     *)
LEMMA AdvanceKeeps ==
    ASSUME NEW op \in JournalOps, Advance(op), UNCHANGED cur, Known(cur)',
           phase \in Phases \cup {None}
    PROVE  /\ pc' \in Steps \X (JournalOps \cup {None}) /\ phase' \in Phases \cup {None}
           /\ Located'
<1>1. /\ None \notin JournalOps /\ "diagnostic-budget" \in JournalOps
      /\ Stages \subseteq JournalOps /\ Onward \subseteq JournalOps
      /\ Onward \cap Stages = {} /\ "diagnostic-budget" \notin Onward \cup Stages
      /\ "create" \notin Onward
  BY DEF JournalOps, Operations, BudgetOps, Stages, Onward
<1>2. CASE pc' = <<"catch", None>> /\ phase' = PhaseOf(cur, op)
  <2>1. phase' \in Phases
    BY <1>2, PhasesAre
  <2> QED BY <1>1, <1>2, <2>1 DEF Located, At, Step, Subject, Sealing, Running, Steps
<1>3. CASE Goto(After(cur, op))
  <2>1. phase' \in Phases \cup {None} /\ pc' = After(cur, op)
    BY <1>3 DEF Goto
  <2>2. CASE \E x \in Onward : pc' = <<"begin", x>>
    <3>1. PICK x \in Onward : pc' = <<"begin", x>>
      BY <2>2
    <3>2. Step' = "begin" /\ Subject' = x
      BY <3>1 DEF Step, Subject
    <3>3. Located'
      BY <1>1, <3>1, <3>2 DEF Located, At, Sealing, Running
    <3> QED BY <1>1, <2>1, <3>1, <3>3 DEF Steps
  <2>3. CASE \E s \in Stages : pc' = <<"prepare", s>>
    <3>1. PICK s \in Stages : pc' = <<"prepare", s>>
      BY <2>3
    <3>2. Step' = "prepare" /\ Subject' = s
      BY <3>1 DEF Step, Subject
    <3>3. Located'
      BY <1>1, <3>1, <3>2 DEF Located, At, Sealing, Running
    <3> QED BY <1>1, <2>1, <3>1, <3>3 DEF Steps
  <2>4. CASE pc' = <<"dispose", "validation">>
    <3>1. Step' = "dispose" /\ Subject' = "validation" /\ pc' # <<"dispose", "repair">>
          /\ "validation" \in Stages
      BY <2>4 DEF Step, Subject, Stages
    <3>2. Located'
      BY <1>1, <2>4, <3>1 DEF Located, At, Sealing, Running
    <3> QED BY <1>1, <2>1, <2>4, <3>1, <3>2 DEF Steps
  <2>5. CASE pc' = <<"done", None>>
    BY <1>1, <2>1, <2>5 DEF Located, At, Step, Subject, Sealing, Running, Steps
  <2>6. CASE pc' = <<"release", None>> /\ Released(entries'[cur])
    <3>1. Step' = "release" /\ Subject' = None
      BY <2>6 DEF Step, Subject
    <3>2. Released(entries[cur])'
      BY <2>6 DEF Released
    <3> HIDE DEF Released
    <3>3. Located'
      BY <1>1, <2>6, <3>1, <3>2 DEF Located, At, Sealing, Running
    <3> QED BY <1>1, <2>1, <2>6, <3>3 DEF Steps
  <2> QED BY <2>1, <2>2, <2>3, <2>4, <2>5, <2>6, AfterIs
<1> QED BY <1>2, <1>3 DEF Advance
---------------------------------------------------------------------------
(* The steps *)

(* A claim that is not for the creation is for an experiment with a        *)
(* directory.                                                              *)
LEMMA ClaimedHasDirectory ==
    ASSUME Inductive, Known(cur)
    PROVE  Allocated(cur) /\ cur \in Numbers
BY KnownIsLatest DEF Inductive, EvidenceInv, WriteAhead

(* An operation of the journal is claimed, or found done.                   *)
LEMMA BeginInductive ==
    ASSUME Inductive, Begin PROVE Inductive'
<1> DEFINE op == Subject
<1>1. /\ TypeOK /\ JournalInv /\ EvidenceInv /\ LeaseInv /\ Located
      /\ RunTyped /\ JournalTyped /\ EvidenceTyped /\ LeasesTyped
  BY TypeParts DEF Inductive
<1>2. /\ At("begin") /\ UNCHANGED evidenceVars /\ UNCHANGED leases
      /\ UNCHANGED <<cur, holds, stop, unattended, faults>> /\ UNCHANGED evidence
  BY DEF Begin, Stay, evidenceVars
<1>3. /\ op \in JournalOps /\ (op # "create" => Known(cur))
      /\ op \in Stages => Leased(cur, op) /\ Lease(cur, op).result # None
      /\ op = "diagnostic-budget" => Charged(cur)
  BY <1>1, <1>2 DEF Located
<1>4. cur \in Numbers /\ phase \in Phases \cup {None} /\ pc \in Steps \X (JournalOps \cup {None})
  BY <1>1 DEF TypeOK
<1>5. EvidenceTyped' /\ LeasesTyped'
  BY <1>1, <1>2, EvidenceTypedFrame, LeasesTypedFrame
<1>6. CASE Done(cur, op)
  <2>1. UNCHANGED journalVars /\ Advance(op)
    BY <1>6 DEF Begin
  <2>2. Known(cur)'
    BY <1>2, <1>6, <2>1 DEF Done, Known, journalVars
  <2>3. /\ pc' \in Steps \X (JournalOps \cup {None}) /\ phase' \in Phases \cup {None}
        /\ Located'
    BY <1>2, <1>3, <1>4, <2>1, <2>2, AdvanceKeeps
  <2>4. RunTyped'
    BY <1>1, <1>2, <2>3 DEF RunTyped
  <2>5. StoresKept
    BY <1>2, <2>1, StoresFrame DEF OnlyRun
  <2> QED BY <2>3, <2>4, <2>5, InductiveParts
<1>7. CASE ~Done(cur, op)
  <2>1. PICK input \in Answers(op) :
           IF MayBegin(cur, op, input)
           THEN /\ BeginOp(cur, op, input)
                /\ Goto(<<IF op = "create" THEN "allocate" ELSE "event", op>>)
           ELSE UNCHANGED journalVars /\ Throw
    BY <1>7 DEF Begin
  <2>2. input \in Inputs(op)
    <3>1. CASE pending # None /\ pending.number = cur /\ pending.op = op
      <4>1. pending.input \in Inputs(pending.op)
        BY <1>1, <3>1 DEF TypeOK, ClaimType
      <4> QED BY <2>1, <3>1, <4>1 DEF Answers
    <3>2. CASE ~(pending # None /\ pending.number = cur /\ pending.op = op) /\ op \in Stages
      <4>1. Lease(cur, op) \in LeaseType(op) /\ Lease(cur, op).result # None
        BY <1>1, <1>3, <1>4, <3>2 DEF TypeOK, Leased, Lease
      <4>2. Lease(cur, op).result \in Inputs(op)
        BY <4>1 DEF LeaseType
      <4> QED BY <2>1, <3>2, <4>2 DEF Answers
    <3>3. CASE ~(pending # None /\ pending.number = cur /\ pending.op = op) /\ op \notin Stages
      BY <2>1, <3>3 DEF Answers
    <3> QED BY <3>1, <3>2, <3>3
  <2>3. CASE MayBegin(cur, op, input)
    <3>1. BeginOp(cur, op, input) /\ UNCHANGED <<entries, head>>
      BY <2>1, <2>3 DEF BeginOp
    <3>2. /\ pending' \in ClaimType(op) /\ pending' # None
          /\ pending'.number = cur /\ pending'.op = op
          /\ JournalInv' /\ EvidenceInv'
      BY <1>1, <1>2, <1>3, <2>2, <3>1, BeginKeeps
    <3>3. LeaseInv' /\ JournalTyped'
      BY <1>1, <1>2, <1>3, <3>1, <3>2, LeaseFrame DEF JournalTyped
    <3>4. StoresKept
      BY <1>5, <3>2, <3>3 DEF StoresKept
    <3>5. pc' = <<IF op = "create" THEN "allocate" ELSE "event", op>> /\ phase' = phase
      BY <2>1, <2>3 DEF Goto
    <3>6. RunTyped'
      BY <1>1, <1>2, <1>3, <3>5 DEF RunTyped, Steps
    <3>7. Subject' = op /\ (Step' = IF op = "create" THEN "allocate" ELSE "event")
      BY <3>5 DEF Subject, Step
    <3>8. ClaimedHere'
      BY <1>2, <3>2, <3>7 DEF ClaimedHere
    <3>9. op # "create" => Allocated(cur)'
      BY <1>2, <1>3, ClaimedHasDirectory DEF Allocated
    <3>10. op = "diagnostic-budget" => Charged(cur)'
      BY <1>2, <1>3 DEF Charged, Leased, Lease, Diagnostic
    <3>11. Located'
      <4> HIDE DEF op
      <4> QED BY <3>5, <3>7, <3>8, <3>9, <3>10 DEF Located, At, Sealing, Running
    <3> QED BY <3>4, <3>6, <3>11, InductiveParts
  <2>4. CASE ~MayBegin(cur, op, input)
    <3>1. UNCHANGED journalVars /\ Throw
      BY <2>1, <2>4
    <3>2. StoresKept
      BY <1>2, <3>1, StoresFrame DEF OnlyRun
    <3>3. UNCHANGED <<entries, cur>>
      BY <1>2, <3>1 DEF journalVars
    <3>4. /\ pc' \in Steps \X (JournalOps \cup {None}) /\ phase' \in Phases \cup {None}
          /\ Located'
      BY <1>2, <3>1, <3>3, ThrowKeeps DEF At, Resting, Handling
    <3>5. RunTyped'
      BY <1>1, <1>2, <3>4 DEF RunTyped
    <3> QED BY <3>2, <3>4, <3>5, InductiveParts
  <2> QED BY <2>3, <2>4
<1> QED BY <1>6, <1>7

(* An error of a step that changed nothing. *)
LEMMA ThrowStep ==
    ASSUME Inductive, Throw, OnlyRun, Stay,
           Step \notin Resting \cup Handling \cup {"thrown", "done", "failEvaluation", "abandon"}
    PROVE  Inductive' /\ LeasesKept
<1>1. UNCHANGED <<entries, cur>> /\ UNCHANGED leases
  BY DEF OnlyRun, Stay, journalVars
<1>2. StoresKept
  BY <1>1, StoresFrame
<1>3. /\ pc' \in Steps \X (JournalOps \cup {None}) /\ phase' \in Phases \cup {None}
      /\ Located'
  BY <1>1, ThrowKeeps
<1>4. RunTyped'
  BY <1>3, TypeParts DEF Inductive, RunTyped, Stay
<1>5. LeasesKept
  BY <1>1, LeasesStay DEF Inductive
<1> QED BY <1>2, <1>3, <1>4, <1>5, InductiveParts

(* A step that only changes the evidence. *)
LEMMA EvidenceStep ==
    ASSUME Inductive, EvidenceInv', UNCHANGED <<journalVars, leftLocks, leases>>, Stay,
           evidence' \in [Numbers -> DirectoryType \cup {None}],
           pc' \in Steps \X (JournalOps \cup {None}), phase' \in Phases \cup {None}, Located'
    PROVE  Inductive'
<1>1. /\ TypeOK /\ JournalInv /\ EvidenceInv /\ LeaseInv
      /\ RunTyped /\ JournalTyped /\ EvidenceTyped /\ LeasesTyped
  BY TypeParts DEF Inductive
<1>2. UNCHANGED journalVars /\ UNCHANGED cur /\ UNCHANGED leases /\ UNCHANGED entries
  BY DEF Stay, journalVars
<1>3. RunTyped'
  BY <1>1 DEF RunTyped, Stay
<1>4. EvidenceTyped'
  BY <1>1 DEF EvidenceTyped
<1>5. JournalTyped' /\ LeasesTyped'
  BY <1>1, <1>2, JournalTypedFrame, LeasesTypedFrame
<1>6. JournalInv' /\ LeaseInv'
  BY <1>1, <1>2, JournalFrame, LeaseFrame
<1> QED BY <1>3, <1>4, <1>5, <1>6, InductiveParts DEF StoresKept

(* What the evidence steps rely on. *)
LEMMA ClaimedPlaces ==
    ASSUME Inductive
    PROVE  /\ At("allocate") => Subject = "create" /\ ClaimedHere /\ ~Known(cur)
           /\ Step \in {"event", "commit"} => ClaimedHere /\ Allocated(cur)
           /\ Step \in Sealing => Subject = "seal" /\ ClaimedHere /\ Allocated(cur)
           /\ ClaimedHere => Subject \in JournalOps /\ cur \in Numbers
           /\ ClaimedHere /\ Subject # "create" =>
                 Known(cur) /\ Active(cur) /\ cur = Latest
           /\ ClaimedHere /\ Subject = "create" => ~Known(cur)
<1>1. TypeOK /\ JournalInv /\ EvidenceInv /\ Located
  BY DEF Inductive
<1>2. ClaimedHere => Subject \in JournalOps /\ cur \in Numbers
  <2>1. SUFFICES ASSUME ClaimedHere PROVE Subject \in JournalOps
    BY <1>1, KnownIsLatest
  <2>2. PICK op \in JournalOps : pending \in ClaimType(op)
    BY <1>1, <2>1 DEF TypeOK, ClaimedHere
  <2> QED BY <2>1, <2>2 DEF ClaimType, ClaimedHere
<1>3. ClaimedHere /\ Subject # "create" => Known(cur) /\ Active(cur) /\ cur = Latest
  BY <1>1 DEF ClaimedHere, JournalInv, Justified, Active
<1>4. ClaimedHere /\ Subject = "create" => ~Known(cur)
  BY <1>1, EntriesAre DEF ClaimedHere, JournalInv, Justified, Known
<1>5. Step \in Sealing => Subject = "seal" /\ ClaimedHere /\ Allocated(cur)
  BY <1>1, <1>3, ClaimedHasDirectory DEF Located
<1> QED BY <1>1, <1>2, <1>3, <1>4, <1>5 DEF Located

(* The directory is made after the creation is claimed.                     *)
LEMMA AllocateInductive ==
    ASSUME Inductive, AllocateDirectory PROVE Inductive'
<1>1. /\ TypeOK /\ JournalInv /\ EvidenceInv /\ Located
  BY DEF Inductive
<1>2. /\ At("allocate") /\ UNCHANGED <<journalVars, leftLocks, leases>> /\ Stay
      /\ UNCHANGED <<journalVars, cur>> /\ UNCHANGED <<entries, pending, cur>>
  BY DEF AllocateDirectory, Stay, journalVars
<1>3. /\ Subject = "create" /\ ClaimedHere /\ ~Known(cur) /\ phase \in Phases \cup {None}
  BY <1>1, <1>2, ClaimedPlaces DEF TypeOK
<1>4. ASSUME Goto(<<"event", "create">>), Allocated(cur)', EvidenceInv',
             evidence' \in [Numbers -> DirectoryType \cup {None}]
      PROVE  Inductive'
  <2>1. pc' = <<"event", "create">> /\ phase' = phase
    BY <1>4 DEF Goto
  <2>2. Step' = "event" /\ Subject' = "create" /\ Subject' = Subject
    BY <1>3, <2>1 DEF Step, Subject
  <2>3. ClaimedHere'
    BY <1>2, <1>3, <2>2 DEF ClaimedHere
  <2>4. Located'
    BY <1>4, <2>1, <2>2, <2>3 DEF Located, At, Sealing, Running
  <2>5. pc' \in Steps \X (JournalOps \cup {None})
    BY <2>1 DEF Steps, JournalOps
  <2> QED BY <1>2, <1>3, <1>4, <2>1, <2>4, <2>5, EvidenceStep
<1>5. CASE Allocated(cur)
  <2>1. UNCHANGED evidence /\ Goto(<<"event", "create">>)
    BY <1>5 DEF AllocateDirectory
  <2>2. Allocated(cur)' /\ evidence' \in [Numbers -> DirectoryType \cup {None}]
    BY <1>1, <1>2, <1>5, <2>1 DEF Allocated, TypeOK
  <2>3. EvidenceInv'
    BY <1>1, <1>2, <2>1, EvidenceFrame
  <2> QED BY <1>4, <2>1, <2>2, <2>3
<1>6. CASE ~Allocated(cur) /\ MayAllocate(cur)
  <2>1. Allocate(cur) /\ Goto(<<"event", "create">>)
    BY <1>6 DEF AllocateDirectory
  <2> QED BY <1>1, <1>2, <1>3, <1>4, <1>6, <2>1, AllocateKeeps DEF ClaimedHere
<1>7. CASE ~Allocated(cur) /\ ~MayAllocate(cur)
  <2>1. UNCHANGED evidence /\ Throw
    BY <1>7 DEF AllocateDirectory
  <2>2. OnlyRun
    BY <1>2, <2>1 DEF OnlyRun, evidenceVars
  <2> QED BY <1>2, <2>1, <2>2, ThrowStep DEF At, Resting, Handling
<1> QED BY <1>5, <1>6, <1>7

(* The event is written after the claim and before the receipt.             *)
LEMMA RecordEventInductive ==
    ASSUME Inductive, RecordEvent PROVE Inductive'
<1> DEFINE op == Subject
<1>1. /\ TypeOK /\ JournalInv /\ EvidenceInv /\ LeaseInv /\ Located
  BY DEF Inductive
<1>2. /\ At("event") /\ UNCHANGED <<journalVars, leftLocks, leases>> /\ Stay
      /\ UNCHANGED <<journalVars, cur>> /\ UNCHANGED <<entries, pending, cur, leases>>
  BY DEF RecordEvent, Stay, journalVars
<1>3. /\ ClaimedHere /\ Allocated(cur) /\ op \in JournalOps /\ cur \in Numbers
      /\ phase \in Phases \cup {None} /\ (op = "diagnostic-budget" => Charged(cur))
  BY <1>1, <1>2, ClaimedPlaces DEF TypeOK, At, Located
<1>4. /\ evidence' \in [Numbers -> DirectoryType \cup {None}] /\ Allocated(cur)' /\ EvidenceInv'
      /\ EventAccepted(cur, op) => Len(Events(cur)') > Receipts(cur)
  <2>1. pending # None /\ pending.number = cur /\ pending.op = op
    BY <1>3 DEF ClaimedHere
  <2>2. /\ Known(cur) => Active(cur)
        /\ Len(Events(cur)) > Receipts(cur) <=> HasEvent(cur, op)
        /\ Len(Events(cur)) \in Nat /\ Receipts(cur) \in Nat /\ Receipts(cur) <= Len(Events(cur))
    BY <1>1, <1>3, <2>1, ClaimedEventNext, DirectoryOf
  <2>3. CASE EventLeft(cur, op)
    <3>1. AppendEvent(cur, op) /\ Len(Events(cur)) = Receipts(cur)
      BY <2>2, <2>3 DEF RecordEvent, EnsureEvent, EventLeft
    <3>2. op \in EventNames
      BY <1>3 DEF EventNames
    <3> QED BY <1>1, <1>2, <1>3, <2>1, <3>1, <3>2, AppendKeeps
  <2>4. CASE ~EventLeft(cur, op)
    <3>1. UNCHANGED evidence
      BY <2>4 DEF RecordEvent, EnsureEvent
    <3>2. EventAccepted(cur, op) => HasEvent(cur, op)
      BY <2>4 DEF EventAccepted, EventLeft
    <3>3. Events(cur)' = Events(cur) /\ Allocated(cur)'
      BY <1>2, <1>3, <3>1 DEF Events, Allocated
    <3>4. EvidenceInv'
      BY <1>1, <1>2, <3>1, EvidenceFrame
    <3> QED BY <1>1, <2>2, <3>1, <3>2, <3>3, <3>4 DEF TypeOK
  <2> QED BY <2>3, <2>4
<1>5. CASE EventAccepted(cur, op)
  <2>1. pc' = <<IF op = "seal" THEN "artifacts" ELSE "commit", op>> /\ phase' = phase
    BY <1>5 DEF RecordEvent, Goto
  <2>2. (Step' = IF op = "seal" THEN "artifacts" ELSE "commit") /\ Subject' = op
    BY <2>1 DEF Step, Subject
  <2>3. ClaimedHere'
    BY <1>2, <1>3, <2>2 DEF ClaimedHere
  <2>4. Charged(cur)' <=> Charged(cur)
    BY <1>2 DEF Charged, Leased, Lease, Diagnostic
  <2>5. Len(Events(cur))' > Receipts(cur)'
    BY <1>2, <1>4, <1>5 DEF Receipts, Known
  <2>6. Located'
    <3> HIDE DEF op
    <3> QED BY <1>3, <1>4, <2>1, <2>2, <2>3, <2>4, <2>5 DEF Located, At, Sealing, Running
  <2>7. pc' \in Steps \X (JournalOps \cup {None})
    BY <1>3, <2>1 DEF Steps
  <2> QED BY <1>2, <1>3, <1>4, <2>1, <2>6, <2>7, EvidenceStep
<1>6. CASE ~EventAccepted(cur, op)
  <2>1. Throw /\ UNCHANGED evidence
    BY <1>6 DEF RecordEvent, EnsureEvent, EventLeft, EventAccepted
  <2>2. OnlyRun
    BY <1>2, <2>1 DEF OnlyRun, evidenceVars
  <2> QED BY <1>2, <2>1, <2>2, ThrowStep DEF At, Resting, Handling
<1> QED BY <1>5, <1>6

(* The receipt is written after the event.                                  *)
LEMMA ConcludeKeeps ==
    ASSUME Inductive, At("commit"), Conclude(Subject), UNCHANGED <<cur, evidenceVars, leases>>
    PROVE  StoresKept /\ Known(cur)' /\ Subject \in JournalOps
<1> DEFINE op == Subject
<1>1. /\ TypeOK /\ JournalInv /\ EvidenceInv /\ LeaseInv /\ Located
      /\ RunTyped /\ JournalTyped /\ EvidenceTyped /\ LeasesTyped
  BY TypeParts DEF Inductive
<1>2. /\ At("commit") /\ UNCHANGED evidenceVars /\ UNCHANGED leases
      /\ UNCHANGED <<cur, evidence, leases>>
  BY DEF evidenceVars
<1>3. /\ pending # None /\ pending.number = cur /\ pending.op = op
      /\ Allocated(cur) /\ op \in JournalOps /\ cur \in Numbers
      /\ op # "create" => Known(cur) /\ Active(cur) /\ cur = Latest
      /\ op = "create" => ~Known(cur)
  BY <1>1, <1>2, ClaimedPlaces DEF ClaimedHere, At, TypeOK
<1>4. /\ Len(Events(cur)) > Receipts(cur) /\ (op = "diagnostic-budget" => Charged(cur))
      /\ op = "seal" => Attested(cur) /\ evidence[cur].attestation.previous = head
  <2>1. op = "seal" => pc = <<"commit", "seal">>
    BY <1>1, <1>2 DEF TypeOK, At, Step, Subject
  <2> QED BY <1>1, <1>2, <2>1 DEF Located
<1>5. /\ entries' \in Seq(EntryType) /\ pending' = None /\ head' \in Nat /\ Known(cur)'
      /\ JournalInv' /\ EvidenceInv' /\ LeaseInv'
  <2>1. CASE op = "create"
    <3>1. CompleteCreate(cur, 0) /\ Len(Events(cur)) > 0
      BY <1>3, <1>4, <2>1 DEF Conclude, Receipts
    <3>2. /\ entries' \in Seq(EntryType) /\ Latest' = Latest + 1 /\ cur = Latest + 1
          /\ JournalInv' /\ EvidenceInv' /\ LeaseInv'
      BY <1>1, <1>2, <1>3, <2>1, <3>1, CompleteCreateKeeps
    <3>3. Known(cur)'
      <4>1. DOMAIN entries' = 1 .. Latest'
        BY <3>2 DEF Latest
      <4>2. Latest \in Nat
        BY <1>1, EntriesAre
      <4> QED BY <1>2, <3>2, <4>1, <4>2 DEF Known
    <3> QED BY <1>1, <3>1, <3>2, <3>3 DEF CompleteCreate, TypeOK
  <2>2. CASE op = "seal"
    <3>1. CompleteSeal(cur) /\ Len(Events(cur)) > Len(entries[cur].done)
      BY <1>3, <1>4, <2>2 DEF Conclude, Receipts
    <3>2. /\ entries' \in Seq(EntryType) /\ Latest' = Latest
          /\ JournalInv' /\ EvidenceInv' /\ LeaseInv'
      BY <1>1, <1>2, <1>3, <1>4, <2>2, <3>1, CompleteSealKeeps
    <3>3. Known(cur)'
      <4>1. DOMAIN entries' = 1 .. Latest' /\ cur \in 1 .. Latest
        BY <1>1, <1>3, <2>2, <3>2, EntriesAre DEF Latest, Known
      <4> QED BY <1>2, <3>2, <4>1 DEF Known
    <3> QED BY <1>3, <3>1, <3>2, <3>3 DEF CompleteSeal, Numbers
  <2>3. CASE op \in Operations
    <3>1. op # "create" /\ op # "seal"
      BY <2>3 DEF Operations, BudgetOps
    <3>2. CompleteOp(cur, op, pending.input) /\ Len(Events(cur)) > Len(entries[cur].done)
      BY <1>3, <1>4, <3>1 DEF Conclude, Receipts
    <3>3. /\ entries' \in Seq(EntryType) /\ Latest' = Latest
          /\ JournalInv' /\ EvidenceInv' /\ LeaseInv'
      BY <1>1, <1>2, <1>3, <1>4, <2>3, <3>2, CompleteOpKeeps
    <3>4. Known(cur)'
      <4>1. DOMAIN entries' = 1 .. Latest' /\ cur \in 1 .. Latest
        BY <1>1, <1>3, <3>1, <3>3, EntriesAre DEF Latest, Known
      <4> QED BY <1>2, <3>3, <4>1 DEF Known
    <3> QED BY <1>1, <3>2, <3>3, <3>4 DEF CompleteOp, TypeOK
  <2> QED BY <1>3, <2>1, <2>2, <2>3 DEF JournalOps
<1>6. JournalTyped'
  BY <1>5 DEF JournalTyped
<1> QED BY <1>1, <1>2, <1>3, <1>5, <1>6, EvidenceTypedFrame, LeasesTypedFrame DEF StoresKept

(* The run goes on from the receipt.                                        *)
LEMMA CommitInductive ==
    ASSUME Inductive, Commit PROVE Inductive'
<1>1. At("commit") /\ UNCHANGED <<cur, evidenceVars, leases>> /\ Stay /\ Advance(Subject)
      /\ Conclude(Subject)
  BY DEF Commit, Stay
<1>2. RunTyped
  BY TypeParts DEF Inductive
<1>3. StoresKept /\ Known(cur)' /\ Subject \in JournalOps
  BY <1>1, ConcludeKeeps
<1>4. /\ pc' \in Steps \X (JournalOps \cup {None}) /\ phase' \in Phases \cup {None}
      /\ Located'
  BY <1>1, <1>2, <1>3, AdvanceKeeps DEF RunTyped
<1>5. RunTyped'
  BY <1>1, <1>2, <1>4 DEF RunTyped, Stay
<1> QED BY <1>3, <1>4, <1>5, InductiveParts

(* The steps of a seal. *)
LEMMA SealPlaces ==
    ASSUME Inductive, Step \in Sealing, UNCHANGED <<journalVars, leases>>, Stay
    PROVE  /\ Inductive /\ TypeOK /\ JournalInv /\ EvidenceInv /\ LeaseInv /\ Located
           /\ UNCHANGED <<journalVars, cur>> /\ UNCHANGED <<entries, pending, head, cur, leases>>
           /\ Subject = "seal" /\ ClaimedHere /\ Allocated(cur) /\ cur \in Numbers
           /\ pending # None /\ pending.number = cur /\ pending.op = "seal"
           /\ Known(cur) /\ Active(cur) /\ phase \in Phases \cup {None}
           /\ Len(Events(cur)) > Receipts(cur)
<1>1. TypeOK /\ JournalInv /\ EvidenceInv /\ LeaseInv /\ Located
  BY DEF Inductive
<1>2. UNCHANGED <<journalVars, cur>> /\ UNCHANGED <<entries, pending, head, cur, leases>>
  BY DEF Stay, journalVars
<1>3. Len(Events(cur)) > Receipts(cur)
  BY <1>1 DEF Located
<1> QED BY <1>1, <1>2, <1>3, ClaimedPlaces DEF ClaimedHere, TypeOK

(* A seal goes on to its next step. *)
LEMMA SealGoesOn ==
    ASSUME Inductive, Step \in Sealing, UNCHANGED <<journalVars, leftLocks, leases>>, Stay,
           NEW next \in {"attestation", "authorized", "attest", "verify", "commit"},
           Goto(<<next, "seal">>),
           evidence' \in [Numbers -> DirectoryType \cup {None}], EvidenceInv', Allocated(cur)',
           Len(Events(cur))' > Receipts(cur),
           next = "attest" => Unsealed(cur)' /\ PriorSeal(cur)' = head,
           next \in {"verify", "commit"} =>
              Attested(cur)' /\ evidence'[cur].attestation.previous = head
    PROVE  Inductive'
<1>1. /\ UNCHANGED <<entries, pending, head, cur>> /\ phase \in Phases \cup {None}
      /\ Subject = "seal" /\ ClaimedHere
  BY SealPlaces
<1>2. pc' = <<next, "seal">> /\ phase' = phase
  BY DEF Goto
<1>3. Step' = next /\ Subject' = "seal"
  BY <1>2 DEF Step, Subject
<1>4. ClaimedHere'
  BY <1>1, <1>3 DEF ClaimedHere
<1>5. Receipts(cur)' = Receipts(cur)
  BY <1>1 DEF Receipts, Known
<1>6. Located'
  BY <1>1, <1>2, <1>3, <1>4, <1>5 DEF Located, At, Sealing, Running
<1>7. pc' \in Steps \X (JournalOps \cup {None})
  BY <1>2 DEF Steps, JournalOps
<1> QED BY <1>1, <1>2, <1>6, <1>7, EvidenceStep

(* It goes on without a change of the evidence, or fails. *)
LEMMA SealUnchanged ==
    ASSUME Inductive, Step \in Sealing, OnlyRun, Stay,
           \/ Throw
           \/ \E next \in {"attestation", "authorized", "verify", "commit"} :
                 /\ Goto(<<next, "seal">>)
                 /\ next \in {"verify", "commit"} =>
                       Attested(cur) /\ evidence[cur].attestation.previous = head
    PROVE  Inductive'
<1>1. CASE Throw
  BY <1>1, ThrowStep DEF Sealing, Resting, Handling
<1>2. ASSUME NEW next \in {"attestation", "authorized", "verify", "commit"},
             Goto(<<next, "seal">>),
             next \in {"verify", "commit"} =>
                Attested(cur) /\ evidence[cur].attestation.previous = head
      PROVE  Inductive'
  <2>1. /\ UNCHANGED <<journalVars, leftLocks, leases>> /\ UNCHANGED evidence
        /\ UNCHANGED <<journalVars, leases>>
    BY DEF OnlyRun, evidenceVars
  <2>2. /\ UNCHANGED <<journalVars, evidence, cur>> /\ TypeOK /\ EvidenceInv /\ Allocated(cur)
        /\ Len(Events(cur)) > Receipts(cur) /\ UNCHANGED cur /\ UNCHANGED journalVars
    BY <2>1, SealPlaces
  <2>3. EvidenceInv' /\ evidence' \in [Numbers -> DirectoryType \cup {None}]
    BY <2>1, <2>2, EvidenceFrame DEF TypeOK
  <2>4. Events(cur)' = Events(cur) /\ Allocated(cur)' /\ (Attested(cur) => Attested(cur)')
    BY <2>1, <2>2 DEF Events, Allocated, Attested
  <2> QED BY <1>2, <2>1, <2>2, <2>3, <2>4, SealGoesOn
<1> QED BY <1>1, <1>2

(* The first step of a seal: its artifacts.                                 *)
LEMMA SealArtifactsInductive ==
    ASSUME Inductive, WriteSealArtifacts PROVE Inductive'
<1>1. /\ Step \in Sealing /\ UNCHANGED <<journalVars, leftLocks, leases>> /\ Stay
      /\ UNCHANGED <<journalVars, leases>> /\ At("artifacts")
  BY DEF WriteSealArtifacts, At, Sealing
<1>2. /\ TypeOK /\ JournalInv /\ EvidenceInv /\ UNCHANGED <<journalVars, cur>>
      /\ Allocated(cur) /\ Len(Events(cur)) > Receipts(cur)
  BY <1>1, SealPlaces
<1>3. CASE ~evidence[cur].artifacts /\ MayMutate(cur)
  <2>1. WriteArtifacts(cur) /\ Goto(<<"attestation", "seal">>)
    BY <1>3 DEF WriteSealArtifacts
  <2>2. /\ evidence' \in [Numbers -> DirectoryType \cup {None}] /\ Allocated(cur)'
        /\ EvidenceInv' /\ Events(cur)' = Events(cur)
    BY <1>2, <2>1, WriteArtifactsKeeps
  <2> QED BY <1>1, <1>2, <2>1, <2>2, SealGoesOn
<1>4. CASE evidence[cur].artifacts \/ ~MayMutate(cur)
  <2>1. UNCHANGED evidence /\ (Goto(<<"attestation", "seal">>) \/ Throw)
    BY <1>4 DEF WriteSealArtifacts
  <2>2. OnlyRun
    BY <1>1, <2>1 DEF OnlyRun, evidenceVars
  <2> QED BY <1>1, <2>1, <2>2, SealUnchanged
<1> QED BY <1>3, <1>4

(* A seal that is repeated looks for its attestation.                       *)
LEMMA LookForAttestationInductive ==
    ASSUME Inductive, LookForAttestation PROVE Inductive'
<1>1. Step \in Sealing /\ OnlyRun /\ Stay
  BY DEF LookForAttestation, At, Sealing
<1>2. CASE Attested(cur) /\ evidence[cur].attestation.previous = head
  <2>1. Goto(<<"commit", "seal">>)
    BY <1>2 DEF LookForAttestation
  <2> QED BY <1>1, <1>2, <2>1, SealUnchanged
<1>3. CASE ~(Attested(cur) /\ evidence[cur].attestation.previous = head)
  <2>1. Goto(<<"authorized", "seal">>) \/ Throw
    BY <1>3 DEF LookForAttestation
  <2> QED BY <1>1, <2>1, SealUnchanged
<1> QED BY <1>2, <1>3

(* A seal is verified before the journal is told.                           *)
LEMMA VerifySealInductive ==
    ASSUME Inductive, VerifySeal PROVE Inductive'
<1>1. Step \in Sealing /\ OnlyRun /\ Stay /\ Goto(<<"commit", "seal">>)
  BY DEF VerifySeal, At, Sealing
<1>2. Attested(cur) /\ evidence[cur].attestation.previous = head
  BY DEF VerifySeal, Inductive, Located
<1> QED BY <1>1, <1>2, SealUnchanged

(* The event of a seal follows that of its operation and leaves the        *)
(* attestations. *)
LEMMA SealEventKeeps ==
    ASSUME Inductive, At("authorized"), MaySeal(cur, head), AppendEvent(cur, "experiment-sealed"),
           UNCHANGED <<journalVars, leases>>, Stay
    PROVE  /\ evidence' \in [Numbers -> DirectoryType \cup {None}]
           /\ Allocated(cur)' /\ EvidenceInv' /\ Len(Events(cur))' > Receipts(cur)
           /\ Unsealed(cur)' /\ PriorSeal(cur)' = head
<1>1. Step \in Sealing /\ Unsealed(cur) /\ PriorSeal(cur) = head
  BY DEF At, Sealing, MaySeal, MayMutate
<1>2. /\ TypeOK /\ JournalInv /\ EvidenceInv /\ UNCHANGED <<journalVars, cur>>
      /\ UNCHANGED cur /\ cur \in Numbers
      /\ Allocated(cur) /\ Len(Events(cur)) > Receipts(cur)
      /\ pending # None /\ pending.number = cur /\ pending.op = "seal"
  BY <1>1, SealPlaces
<1>3. "experiment-sealed" \in EventNames /\ "experiment-sealed" \notin JournalOps
  BY DEF EventNames, JournalOps, Operations, BudgetOps
<1>4. Len(Events(cur)) \in Nat /\ Receipts(cur) \in Nat /\ evidence[cur] \in DirectoryType
  BY <1>2, DirectoryOf
<1>5. /\ evidence' \in [Numbers -> DirectoryType \cup {None}]
      /\ evidence'[cur] = [evidence[cur] EXCEPT !.events = Append(@, "experiment-sealed")]
      /\ Allocated(cur)' /\ Len(Events(cur)') > Receipts(cur)
      /\ EvidenceInv'
  BY <1>2, <1>3, <1>4, AppendKeeps
<1>6. evidence'[cur].attestation = evidence[cur].attestation
  BY <1>4, <1>5, ZenonT(40) DEF DirectoryType
<1>7. \A m \in Numbers : m # cur => evidence'[m] = evidence[m]
  BY <1>2 DEF TypeOK, AppendEvent
<1>8. \A m \in Numbers : Attested(m)' <=> Attested(m)
  <2>1. ASSUME NEW m \in Numbers, m = cur PROVE Attested(m)' <=> Attested(m)
    BY <1>2, <1>5, <1>6, <2>1 DEF Attested, Allocated
  <2>2. ASSUME NEW m \in Numbers, m # cur PROVE Attested(m)' <=> Attested(m)
    BY <1>7, <2>2 DEF Attested, Allocated
  <2> QED BY <2>1, <2>2
<1>9. Unsealed(cur)'
  BY <1>1, <1>2, <1>5, <1>6 DEF Unsealed, Attested, Allocated
<1>10. PriorSeal(cur)' = PriorSeal(cur)
  <2>1. ASSUME NEW n, n = cur PROVE PriorSeal(n)' = PriorSeal(cur)
    <3>1. PriorSeal(n)' = PriorSeal(n)
      BY <1>8, PriorSealFrame
    <3> QED BY <2>1, <3>1
  <2>2. \A n : n = cur => PriorSeal(n)' = PriorSeal(cur)
    BY <2>1
  <2> QED BY <1>2, <2>2 DEF PriorSeal
<1> QED BY <1>1, <1>2, <1>5, <1>9, <1>10

(* The event that authorizes the attestation.                               *)
LEMMA AppendSealEventInductive ==
    ASSUME Inductive, AppendSealEvent PROVE Inductive'
<1>1. /\ Step \in Sealing /\ UNCHANGED <<journalVars, leftLocks, leases>> /\ Stay
      /\ UNCHANGED <<journalVars, leases>> /\ At("authorized")
  BY DEF AppendSealEvent, At, Sealing
<1>2. CASE MaySeal(cur, head)
  <2>1. AppendEvent(cur, "experiment-sealed") /\ Goto(<<"attest", "seal">>)
    BY <1>2 DEF AppendSealEvent
  <2> QED BY <1>1, <1>2, <2>1, SealEventKeeps, SealGoesOn
<1>3. CASE ~MaySeal(cur, head)
  <2>1. UNCHANGED evidence /\ Throw
    BY <1>3 DEF AppendSealEvent
  <2>2. OnlyRun
    BY <1>1, <2>1 DEF OnlyRun, evidenceVars
  <2> QED BY <1>1, <2>1, <2>2, SealUnchanged
<1> QED BY <1>2, <1>3

(* The attestation names the head of the chain of seals.                    *)
LEMMA InstallAttestationInductive ==
    ASSUME Inductive, InstallAttestation PROVE Inductive'
<1>1. /\ Step \in Sealing /\ UNCHANGED <<journalVars, leftLocks, leases>> /\ Stay
      /\ UNCHANGED <<journalVars, leases>> /\ At("attest")
      /\ Attest(cur, PriorSeal(cur)) /\ Goto(<<"verify", "seal">>)
  BY DEF InstallAttestation, At, Sealing
<1>2. /\ TypeOK /\ JournalInv /\ EvidenceInv /\ UNCHANGED <<journalVars, cur>>
      /\ Len(Events(cur)) > Receipts(cur)
      /\ pending # None /\ pending.number = cur /\ pending.op = "seal"
  BY <1>1, SealPlaces
<1>3. Unsealed(cur) /\ PriorSeal(cur) = head
  BY <1>1 DEF Inductive, Located
<1>4. /\ evidence' \in [Numbers -> DirectoryType \cup {None}]
      /\ Attested(cur)' /\ evidence'[cur].attestation.previous = head
      /\ Events(cur)' = Events(cur) /\ EvidenceInv'
  BY <1>1, <1>2, <1>3, AttestKeeps
<1>5. Allocated(cur)'
  BY <1>4 DEF Attested
<1> QED BY <1>1, <1>2, <1>4, <1>5, SealGoesOn

(* A step that only changes the leases. *)
LEMMA LeaseStep ==
    ASSUME Inductive, LeasesKept, LeaseInv', UNCHANGED <<journalVars, evidenceVars>>,
           UNCHANGED cur, RunTyped', Located'
    PROVE  Inductive' /\ LeasesKept
<1>1. /\ TypeOK /\ JournalInv /\ EvidenceInv
      /\ JournalTyped /\ EvidenceTyped
  BY TypeParts DEF Inductive
<1>2. /\ UNCHANGED journalVars /\ UNCHANGED evidenceVars
      /\ UNCHANGED <<journalVars, cur>> /\ UNCHANGED <<journalVars, evidence>>
  BY DEF evidenceVars
<1>3. JournalTyped' /\ EvidenceTyped' /\ JournalInv' /\ EvidenceInv'
  BY <1>1, <1>2, JournalTypedFrame, EvidenceTypedFrame, JournalFrame, EvidenceFrame
<1>4. LeasesTyped'
  BY DEF LeasesKept, LeasesTyped
<1> QED BY <1>3, <1>4, InductiveParts DEF StoresKept

(* What the evaluation steps rely on. *)
LEMMA EvaluationPlaces ==
    ASSUME Inductive, UNCHANGED <<journalVars, evidenceVars>>, UNCHANGED cur
    PROVE  /\ TypeOK /\ JournalInv /\ LeaseInv /\ Located /\ RunTyped
           /\ UNCHANGED <<entries, cur>> /\ UNCHANGED <<entries, cur>>
           /\ Known(cur)' = Known(cur) /\ cur \in Numbers /\ "diagnostic-budget" \notin Stages
           /\ None \notin JournalOps /\ Stages \subseteq JournalOps
           /\ "diagnostic-budget" \in JournalOps /\ "validation-budget" \in JournalOps
           /\ "validation-budget" \notin Stages
           /\ Step \in {"prepare", "claim", "dispose", "failEvaluation", "abandon"} \cup Running =>
                 Subject \in Stages /\ Known(cur)
<1>1. TypeOK /\ JournalInv /\ LeaseInv /\ Located /\ RunTyped
  BY TypeParts DEF Inductive
<1>2. UNCHANGED <<entries, cur>>
  BY DEF journalVars
<1>3. /\ "diagnostic-budget" \notin Stages /\ Stages \subseteq JournalOps
      /\ "diagnostic-budget" \in JournalOps /\ "validation-budget" \in JournalOps
      /\ "validation-budget" \notin Stages /\ None \notin JournalOps
  BY DEF Stages, JournalOps, Operations, BudgetOps
<1> QED BY <1>1, <1>2, <1>3 DEF Known, Located, RunTyped

(* A lease is prepared, or found where an earlier process left it.          *)
LEMMA PrepareInductive ==
    ASSUME Inductive, PrepareLease PROVE Inductive' /\ LeasesKept
<1> DEFINE s == Subject
<1>1. /\ At("prepare")
      /\ UNCHANGED <<journalVars, evidenceVars>> /\ UNCHANGED cur
      /\ UNCHANGED <<stop, unattended, faults>>
  BY DEF PrepareLease
<1>2. s \in Stages /\ Known(cur) /\ TypeOK /\ JournalInv /\ LeaseInv /\ RunTyped
  BY <1>1, EvaluationPlaces DEF At
<1>3. CASE MayPrepare(cur, s)
  <2>1. /\ Prepare(cur, s) /\ Goto(IF s = "repair" THEN <<"claim", s>> ELSE <<"start", s>>)
        /\ holds' = IF s = "validation" THEN "unstarted" ELSE holds
    BY <1>3 DEF PrepareLease
  <2>2. LeasesKept /\ LeaseInv'
    BY <1>1, <1>2, <1>3, <2>1, EvaluationPlaces, PrepareKeeps
  <2>3. /\ pc' = <<IF s = "repair" THEN "claim" ELSE "start", s>> /\ phase' = phase
        /\ Step' = (IF s = "repair" THEN "claim" ELSE "start") /\ Subject' = s
    BY <2>1 DEF Goto, Step, Subject
  <2> HIDE DEF s
  <2>4. RunTyped'
    BY <1>1, <1>2, <2>1, <2>3, EvaluationPlaces DEF RunTyped, Steps
  <2>5. Located'
    BY <1>1, <1>2, <2>3, EvaluationPlaces DEF Located, At, Sealing, Running
  <2> QED BY <1>1, <2>2, <2>4, <2>5, LeaseStep
<1>4. CASE ~MayPrepare(cur, s)
  <2>1. UNCHANGED <<leases, holds>> /\ Throw
    BY <1>4 DEF PrepareLease
  <2>2. OnlyRun /\ Stay
    BY <1>1, <2>1 DEF OnlyRun, Stay
  <2> QED BY <1>1, <2>1, <2>2, ThrowStep DEF At, Resting, Handling
<1> QED BY <1>3, <1>4

(* The start of the validation stage.                                       *)
LEMMA StartInductive ==
    ASSUME Inductive, StartValidation PROVE Inductive'
<1>1. /\ At("start") /\ OnlyRun /\ UNCHANGED cur /\ UNCHANGED <<stop, unattended, faults>>
      /\ UNCHANGED <<journalVars, evidenceVars>>
      /\ holds' = "started" /\ pc' = <<"claim", "validation">> /\ phase' = phase
  BY DEF StartValidation, OnlyRun, Goto
<1>2. Step' = "claim" /\ Subject' = "validation" /\ "validation" \in Stages
  BY <1>1 DEF Step, Subject, Stages
<1>3. StoresKept
  BY <1>1, StoresFrame
<1>4. RunTyped'
  BY <1>1, <1>2, EvaluationPlaces DEF RunTyped, Steps
<1>5. Known(cur)
  BY <1>1 DEF Inductive, Located, At
<1>6. Located'
  BY <1>1, <1>2, <1>5, EvaluationPlaces DEF Located, At, Sealing, Running
<1> QED BY <1>3, <1>4, <1>6, InductiveParts

(* A prepared lease is claimed.                                             *)
LEMMA ClaimInductive ==
    ASSUME Inductive, Claim PROVE Inductive' /\ LeasesKept
<1>1. /\ At("claim") /\ UNCHANGED <<journalVars, evidenceVars>> /\ Stay /\ UNCHANGED cur
  BY DEF Claim, Stay
<1>2. PICK s \in Stages : s = Subject
  BY <1>1, EvaluationPlaces DEF At
<1>3. Known(cur) /\ TypeOK /\ JournalInv /\ LeaseInv /\ RunTyped
  BY <1>1, EvaluationPlaces DEF At
<1>4. CASE MayClaim(cur, s)
  <2>1. ClaimLease(cur, s) /\ Goto(<<"bind", s>>)
    BY <1>2, <1>4 DEF Claim
  <2>2. LeasesKept /\ LeaseInv' /\ Leased(cur, s)' /\ Status(cur, s)' = "running"
    BY <1>1, <1>2, <1>3, <1>4, <2>1, EvaluationPlaces, ClaimLeaseKeeps
  <2>3. pc' = <<"bind", s>> /\ phase' = phase /\ Step' = "bind" /\ Subject' = s
    BY <2>1 DEF Goto, Step, Subject
  <2>4. Leased(cur, Subject)' /\ Status(cur, Subject)' = "running"
    BY <1>1, <2>2, <2>3 DEF Leased, Status, Lease
  <2>5. RunTyped'
    BY <1>1, <1>2, <1>3, <2>3, EvaluationPlaces DEF RunTyped, Steps, Stay
  <2>6. Located'
    BY <1>1, <1>2, <1>3, <2>3, <2>4, EvaluationPlaces DEF Located, At, Sealing, Running
  <2> QED BY <1>1, <2>2, <2>5, <2>6, LeaseStep
<1>5. CASE ~MayClaim(cur, s)
  <2>1. UNCHANGED leases /\ Throw
    BY <1>2, <1>5 DEF Claim
  <2>2. OnlyRun
    BY <1>1, <2>1 DEF OnlyRun
  <2> QED BY <1>1, <2>1, <2>2, ThrowStep DEF At, Resting, Handling
<1> QED BY <1>4, <1>5

(* A running lease is bound to its request.                                 *)
LEMMA BindInductive ==
    ASSUME Inductive, Bind PROVE Inductive' /\ LeasesKept
<1>1. /\ At("bind") /\ UNCHANGED <<journalVars, evidenceVars>> /\ Stay /\ UNCHANGED cur
      /\ BindRequest(cur, Subject) /\ Goto(<<"evaluate", Subject>>) /\ Step \in Running
  BY DEF Bind, Stay, At, Running
<1>2. PICK s \in Stages : s = Subject
  BY <1>1, EvaluationPlaces DEF At
<1>3. Known(cur) /\ TypeOK /\ JournalInv /\ LeaseInv /\ Located /\ RunTyped
  BY <1>1, EvaluationPlaces
<1>4. Leased(cur, s) /\ Status(cur, s) = "running"
  BY <1>1, <1>2, <1>3 DEF Located
<1>5. LeasesKept /\ LeaseInv' /\ Leased(cur, s)' /\ Status(cur, s)' = "running"
  BY <1>1, <1>2, <1>3, <1>4, EvaluationPlaces, BindRequestKeeps
<1>6. pc' = <<"evaluate", s>> /\ phase' = phase /\ Step' = "evaluate" /\ Subject' = s
  BY <1>1, <1>2 DEF Goto, Step, Subject
<1>7. Leased(cur, Subject)' /\ Status(cur, Subject)' = "running"
  BY <1>1, <1>5, <1>6 DEF Leased, Status, Lease
<1>8. RunTyped'
  BY <1>1, <1>2, <1>3, <1>6, EvaluationPlaces DEF RunTyped, Steps, Stay
<1>9. Located'
  BY <1>1, <1>2, <1>3, <1>6, <1>7, EvaluationPlaces DEF Located, At, Sealing, Running
<1> QED BY <1>1, <1>5, <1>8, <1>9, LeaseStep

(* The evaluation of a running lease answers.                               *)
LEMMA EvaluateInductive ==
    ASSUME Inductive, Evaluate PROVE Inductive' /\ LeasesKept
<1>1. /\ At("evaluate") /\ UNCHANGED <<journalVars, evidenceVars>> /\ Stay /\ UNCHANGED cur
      /\ Goto(IF Subject = "repair" THEN <<"dispose", "repair">> ELSE <<"begin", "validation-budget">>)
      /\ Step \in Running
  BY DEF Evaluate, Stay, At, Running
<1>2. PICK s \in Stages : s = Subject
  BY <1>1, EvaluationPlaces DEF At
<1>3. Known(cur) /\ TypeOK /\ JournalInv /\ LeaseInv /\ Located /\ RunTyped
  BY <1>1, EvaluationPlaces
<1>4. Leased(cur, s) /\ Status(cur, s) = "running"
  BY <1>1, <1>2, <1>3 DEF Located
<1>5. PICK result \in Inputs(s) : RecordResult(cur, s, result)
  BY <1>2 DEF Evaluate
<1>6. LeasesKept /\ LeaseInv' /\ Leased(cur, s)' /\ Lease(cur, s)'.result # None
  BY <1>1, <1>2, <1>3, <1>4, <1>5, EvaluationPlaces, RecordResultKeeps
<1>7. CASE s = "repair"
  <2>1. /\ pc' = <<"dispose", "repair">> /\ phase' = phase
        /\ Step' = "dispose" /\ Subject' = "repair" /\ Subject' = s
    BY <1>1, <1>2, <1>7 DEF Goto, Step, Subject
  <2>2. Leased(cur, Subject)'
    BY <1>1, <1>6, <2>1 DEF Leased, Lease
  <2>3. RunTyped'
    BY <1>1, <1>2, <1>3, <2>1, EvaluationPlaces DEF RunTyped, Steps, Stay
  <2>4. Located'
    BY <1>1, <1>2, <1>3, <2>1, <2>2, EvaluationPlaces DEF Located, At, Sealing, Running
  <2> QED BY <1>1, <1>6, <2>3, <2>4, LeaseStep
<1>8. CASE s # "repair"
  <2>1. /\ pc' = <<"begin", "validation-budget">> /\ phase' = phase
        /\ Step' = "begin" /\ Subject' = "validation-budget"
    BY <1>1, <1>2, <1>8 DEF Goto, Step, Subject
  <2>2. RunTyped'
    BY <1>1, <1>2, <1>3, <2>1, EvaluationPlaces DEF RunTyped, Steps, Stay
  <2>3. Located'
    BY <1>1, <1>2, <1>3, <2>1, EvaluationPlaces DEF Located, At, Sealing, Running
  <2> QED BY <1>1, <1>6, <2>2, <2>3, LeaseStep
<1> QED BY <1>7, <1>8

(* A lease is disposed of as decided after its result.                      *)
LEMMA DisposeDecidedInductive ==
    ASSUME Inductive, DisposeDecided PROVE Inductive' /\ LeasesKept
<1>1. /\ At("dispose") /\ UNCHANGED <<journalVars, evidenceVars>> /\ UNCHANGED cur
      /\ UNCHANGED <<stop, unattended, faults>>
  BY DEF DisposeDecided
<1>2. PICK s \in Stages : s = Subject
  BY <1>1, EvaluationPlaces DEF At
<1>3. Known(cur) /\ TypeOK /\ JournalInv /\ LeaseInv /\ Located /\ RunTyped
  BY <1>1, EvaluationPlaces DEF At
<1>4. CASE MayDispose(cur, s, "decided")
  <2>1. /\ Dispose(cur, s, "decided") /\ Goto(<<"begin", s>>)
        /\ holds' = IF s = "validation" THEN None ELSE holds
    BY <1>2, <1>4 DEF DisposeDecided
  <2>2. "decided" \in Outcomes
    BY DEF Outcomes
  <2>3. LeasesKept /\ LeaseInv' /\ Leased(cur, s)' /\ Lease(cur, s)'.result # None
    BY <1>1, <1>3, <1>4, <2>1, <2>2, EvaluationPlaces, DisposeKeeps
  <2>4. pc' = <<"begin", s>> /\ phase' = phase /\ Step' = "begin" /\ Subject' = s
    BY <2>1 DEF Goto, Step, Subject
  <2>5. Leased(cur, Subject)' /\ Lease(cur, Subject)'.result # None
    BY <1>1, <2>3, <2>4 DEF Leased, Lease
  <2>6. RunTyped'
    BY <1>1, <1>3, <2>1, <2>4, EvaluationPlaces DEF RunTyped, Steps
  <2>7. Located'
    BY <1>1, <1>3, <2>4, <2>5, EvaluationPlaces DEF Located, At, Sealing, Running
  <2> QED BY <1>1, <2>3, <2>6, <2>7, LeaseStep
<1>5. CASE ~MayDispose(cur, s, "decided")
  <2>1. UNCHANGED <<leases, holds>> /\ Throw
    BY <1>2, <1>5 DEF DisposeDecided
  <2>2. OnlyRun /\ Stay
    BY <1>1, <2>1 DEF OnlyRun, Stay
  <2> QED BY <1>1, <2>1, <2>2, ThrowStep DEF At, Resting, Handling
<1> QED BY <1>4, <1>5

(* The steps of a release are for a validation that may be released.       *)
LEMMA ReleasePlaces ==
    ASSUME Inductive, Step \in {"release", "publish"}
    PROVE  /\ TypeOK /\ JournalInv /\ LeaseInv /\ RunTyped /\ Known(cur)
           /\ Released(entries[cur])
           /\ At("publish") => Decided(cur, "validation") /\ Diagnostic(cur) = "releasing"
BY TypeParts DEF Inductive, Located

(* The release of the brief begins.                                         *)
LEMMA ClaimReleaseInductive ==
    ASSUME Inductive, ClaimRelease PROVE Inductive' /\ LeasesKept
<1>1. /\ At("release") /\ UNCHANGED <<journalVars, evidenceVars>> /\ Stay /\ UNCHANGED cur
      /\ Step \in {"release", "publish"}
  BY DEF ClaimRelease, Stay, At
<1>2. /\ TypeOK /\ JournalInv /\ LeaseInv /\ RunTyped /\ Known(cur)
      /\ Released(entries[cur])
  BY <1>1, ReleasePlaces
<1>3. CASE MayClaimRelease(cur)
  <2>1. SetDiagnostic(cur, "releasing") /\ Goto(<<"publish", None>>)
    BY <1>3 DEF ClaimRelease
  <2>2. /\ LeasesKept /\ LeaseInv'
        /\ Decided(cur, "validation")' /\ Diagnostic(cur)' = "releasing"
    BY <1>1, <1>2, <1>3, <2>1, EvaluationPlaces, SetDiagnosticKeeps DEF MayClaimRelease
  <2>3. pc' = <<"publish", None>> /\ phase' = phase /\ Step' = "publish" /\ Subject' = None
    BY <2>1 DEF Goto, Step, Subject
  <2>4. RunTyped'
    BY <1>1, <1>2, <2>3 DEF RunTyped, Steps, Stay
  <2>5. Released(entries[cur])'
    BY <1>1, <1>2, EvaluationPlaces DEF Released
  <2> HIDE DEF Released
  <2>6. Located'
    BY <1>1, <1>2, <2>2, <2>3, <2>5, EvaluationPlaces DEF Located, At, Sealing, Running
  <2> QED BY <1>1, <2>2, <2>4, <2>6, LeaseStep
<1>4. CASE ~MayClaimRelease(cur)
  <2>1. UNCHANGED leases /\ Throw
    BY <1>4 DEF ClaimRelease
  <2>2. OnlyRun
    BY <1>1, <2>1 DEF OnlyRun
  <2> QED BY <1>1, <2>1, <2>2, ThrowStep DEF At, Resting, Handling
<1> QED BY <1>3, <1>4

(* The brief is published, which releases the diagnostic.                   *)
LEMMA PublishInductive ==
    ASSUME Inductive, Publish PROVE Inductive' /\ LeasesKept
<1>1. /\ At("publish") /\ UNCHANGED <<journalVars, evidenceVars>> /\ Stay /\ UNCHANGED cur
      /\ SetDiagnostic(cur, "released") /\ Goto(<<"begin", "diagnostic-budget">>)
      /\ Step \in {"release", "publish"}
  BY DEF Publish, Stay, At
<1>2. /\ TypeOK /\ JournalInv /\ LeaseInv /\ RunTyped /\ Known(cur)
      /\ Released(entries[cur]) /\ Decided(cur, "validation") /\ Diagnostic(cur) = "releasing"
  BY <1>1, ReleasePlaces
<1>3. /\ LeasesKept /\ LeaseInv'
      /\ Decided(cur, "validation")' /\ Diagnostic(cur)' = "released"
  BY <1>1, <1>2, EvaluationPlaces, SetDiagnosticKeeps
<1>4. /\ pc' = <<"begin", "diagnostic-budget">> /\ phase' = phase /\ Step' = "begin"
      /\ Subject' = "diagnostic-budget"
  BY <1>1 DEF Goto, Step, Subject
<1>5. Charged(cur)'
  BY <1>3 DEF Charged, Decided
<1>6. RunTyped'
  BY <1>1, <1>2, <1>4, EvaluationPlaces DEF RunTyped, Steps, Stay
<1>7. Located'
  BY <1>1, <1>2, <1>4, <1>5, EvaluationPlaces DEF Located, At, Sealing, Running
<1> QED BY <1>1, <1>3, <1>6, <1>7, LeaseStep

(* A release that is refused burns the diagnostic.                          *)
LEMMA ReleaseRejectedInductive ==
    ASSUME Inductive, ReleaseRejected PROVE Inductive' /\ LeasesKept
<1>1. /\ At("publish") /\ UNCHANGED <<journalVars, evidenceVars>> /\ UNCHANGED cur
      /\ SetDiagnostic(cur, "burned") /\ Throw /\ Step \in {"release", "publish"}
      /\ UNCHANGED <<cur, holds, stop, unattended>>
      /\ faults < MaxFaults /\ faults' = faults + 1
  BY DEF ReleaseRejected, At
<1>2. /\ TypeOK /\ JournalInv /\ LeaseInv /\ RunTyped /\ Known(cur)
      /\ Released(entries[cur]) /\ Decided(cur, "validation") /\ Diagnostic(cur) = "releasing"
  BY <1>1, ReleasePlaces
<1>3. LeasesKept /\ LeaseInv'
  BY <1>1, <1>2, EvaluationPlaces, SetDiagnosticKeeps
<1>4. /\ pc' \in Steps \X (JournalOps \cup {None}) /\ phase' \in Phases \cup {None}
      /\ Located'
  BY <1>1, EvaluationPlaces, ThrowKeeps DEF At, Resting, Handling
<1>5. RunTyped'
  BY <1>1, <1>2, <1>4 DEF RunTyped
<1> QED BY <1>1, <1>3, <1>4, <1>5, LeaseStep

(* The lease of an evaluation that failed is ended.                         *)
LEMMA FailLeaseInductive ==
    ASSUME Inductive, FailLease PROVE Inductive' /\ LeasesKept
<1>1. /\ At("failEvaluation") /\ UNCHANGED <<journalVars, evidenceVars>> /\ Stay /\ UNCHANGED cur
  BY DEF FailLease, Stay
<1>2. PICK s \in Stages : s = Subject
  BY <1>1, EvaluationPlaces DEF At
<1>3. Known(cur) /\ TypeOK /\ JournalInv /\ LeaseInv /\ Located /\ RunTyped
  BY <1>1, EvaluationPlaces DEF At
<1>4. /\ FailEvaluation(cur, s) /\ Leased(cur, s)
      /\ Goto(IF s = "repair" THEN <<"abandon", s>> ELSE <<"catch", None>>)
  BY <1>1, <1>2, <1>3 DEF FailLease, Located
<1>5. LeasesKept /\ LeaseInv'
  BY <1>1, <1>3, <1>4, EvaluationPlaces, FailEvaluationKeeps
<1>6. /\ pc' = (IF s = "repair" THEN <<"abandon", s>> ELSE <<"catch", None>>) /\ phase' = phase
      /\ Step' = (IF s = "repair" THEN "abandon" ELSE "catch")
      /\ Subject' = (IF s = "repair" THEN s ELSE None)
  BY <1>4 DEF Goto, Step, Subject
<1>7. RunTyped'
  BY <1>1, <1>3, <1>6, EvaluationPlaces DEF RunTyped, Steps, Stay
<1>8. Located'
  BY <1>1, <1>3, <1>6, EvaluationPlaces DEF Located, At, Sealing, Running
<1> QED BY <1>1, <1>5, <1>7, <1>8, LeaseStep

(* A handler's step to a place that needs no more than the record.         *)
LEMMA HandlerStep ==
    ASSUME Inductive, LeasesKept, LeaseInv', UNCHANGED <<journalVars, evidenceVars>>, Known(cur),
           UNCHANGED <<cur, holds, stop, unattended, faults>>,
           NEW next \in {"catch", "interrupt", "thrown"}, Goto(<<next, None>>)
    PROVE  Inductive' /\ LeasesKept
<1>1. pc' = <<next, None>> /\ phase' = phase /\ Step' = next /\ Subject' = None
  BY DEF Goto, Step, Subject
<1>2. UNCHANGED cur
  OBVIOUS
<1>3. RunTyped'
  BY <1>1, <1>2, EvaluationPlaces DEF RunTyped, Steps
<1>4. Located'
  BY <1>1, <1>2, EvaluationPlaces DEF Located, At, Sealing, Running
<1> QED BY <1>2, <1>3, <1>4, LeaseStep

(* The lease of a repair is abandoned.                                      *)
LEMMA AbandonRepairInductive ==
    ASSUME Inductive, AbandonRepair PROVE Inductive' /\ LeasesKept
<1>1. /\ At("abandon") /\ UNCHANGED <<journalVars, evidenceVars>> /\ Stay /\ UNCHANGED cur
      /\ Goto(<<"catch", None>>) /\ UNCHANGED <<cur, holds, stop, unattended, faults>>
  BY DEF AbandonRepair, Stay
<1>2. Known(cur) /\ TypeOK /\ JournalInv /\ LeaseInv /\ UNCHANGED <<entries, cur>>
  BY <1>1, EvaluationPlaces DEF At
<1>3. LeasesKept /\ LeaseInv'
  <2>1. "repair" \in Stages /\ "started-abandoned" \in Outcomes
    BY DEF Stages, Outcomes
  <2>2. CASE MayDispose(cur, "repair", "started-abandoned")
    <3>1. Dispose(cur, "repair", "started-abandoned")
      BY <2>2 DEF AbandonRepair
    <3> QED BY <1>2, <2>1, <2>2, <3>1, DisposeKeeps
  <2>3. CASE ~MayDispose(cur, "repair", "started-abandoned")
    <3>1. UNCHANGED leases
      BY <2>3 DEF AbandonRepair
    <3> QED BY <1>2, <3>1, LeasesUnchanged
  <2> QED BY <2>2, <2>3
<1> QED BY <1>1, <1>2, <1>3, HandlerStep

(* The catch block decides what has to be undone.                           *)
LEMMA CatchInductive ==
    ASSUME Inductive, Catch PROVE Inductive' /\ LeasesKept
<1>1. /\ At("catch") /\ UNCHANGED <<journalVars, evidenceVars>> /\ Stay /\ UNCHANGED cur
      /\ UNCHANGED <<cur, holds, stop, unattended, faults>>
  BY DEF Catch, Stay
<1>2. TypeOK /\ JournalInv /\ LeaseInv /\ Located /\ UNCHANGED <<entries, cur>>
  BY <1>1, EvaluationPlaces
<1>3. Known(cur)
  BY <1>1, <1>2 DEF Located, At
<1>4. CASE UNCHANGED leases /\ (Goto(<<"interrupt", None>>) \/ Goto(<<"thrown", None>>))
  <2>1. LeasesKept /\ LeaseInv'
    BY <1>2, <1>4, LeasesUnchanged
  <2> QED BY <1>1, <1>3, <1>4, <2>1, HandlerStep
<1>5. CASE /\ MayDispose(cur, "validation", QuarantineOutcome)
           /\ Dispose(cur, "validation", QuarantineOutcome) /\ Goto(<<"interrupt", None>>)
  <2>1. PICK outcome \in Outcomes : outcome = QuarantineOutcome
    BY DEF QuarantineOutcome, Outcomes
  <2>2. "validation" \in Stages
    BY DEF Stages
  <2>3. LeasesKept /\ LeaseInv'
    BY <1>2, <1>5, <2>1, <2>2, DisposeKeeps
  <2> QED BY <1>1, <1>3, <1>5, <2>3, HandlerStep
<1> QED BY <1>4, <1>5 DEF Catch

(* The journal's entry is interrupted with its claim dropped.               *)
LEMMA InterruptionKeeps ==
    ASSUME Inductive, At("interrupt"), InterruptOp(cur, phase), ~SealRecoverable(cur),
           UNCHANGED <<cur, evidenceVars, leases>>
    PROVE  StoresKept /\ Known(cur)' /\ entries'[cur].status = "interrupted"
<1>1. UNCHANGED evidenceVars /\ UNCHANGED leases /\ UNCHANGED <<cur, evidence, leases>>
  BY DEF evidenceVars
<1>2. /\ TypeOK /\ JournalInv /\ EvidenceInv /\ LeaseInv /\ Located /\ Known(cur)
      /\ JournalTyped /\ EvidenceTyped /\ LeasesTyped
  BY TypeParts DEF Inductive, Located, At
<1>3. PICK why \in Phases \cup {None} : why = phase
  BY <1>2 DEF TypeOK
<1>4. /\ entries' \in Seq(EntryType) /\ Latest' = Latest
      /\ entries'[cur] = InterruptedEntry(entries[cur], why)
      /\ JournalInv' /\ EvidenceInv' /\ LeaseInv'
  BY <1>1, <1>2, <1>3, InterruptOpKeeps
<1>5. entries[cur] \in EntryType
  BY <1>2, EntriesAre DEF Known
<1>6. entries'[cur].status = "interrupted"
  BY <1>4, <1>5 DEF InterruptedEntry, EntryType
<1>7. Known(cur)'
  <2>1. DOMAIN entries' = 1 .. Latest' /\ cur \in 1 .. Latest
    BY <1>2, <1>4, EntriesAre DEF Latest, Known
  <2> QED BY <1>1, <1>4, <2>1 DEF Known
<1>8. JournalTyped'
  BY <1>2, <1>4 DEF JournalTyped, InterruptOp
<1> QED BY <1>1, <1>2, <1>4, <1>6, <1>7, <1>8, EvidenceTypedFrame, LeasesTypedFrame DEF StoresKept

(* An interruption that is recorded is followed by its event.               *)
LEMMA InterruptInductive ==
    ASSUME Inductive, Interrupt PROVE Inductive'
<1>1. /\ At("interrupt") /\ UNCHANGED evidenceVars /\ UNCHANGED leases /\ Stay
      /\ UNCHANGED <<cur, evidence, leases>> /\ UNCHANGED cur
  BY DEF Interrupt, Stay, evidenceVars
<1>2. /\ TypeOK /\ JournalInv /\ EvidenceInv /\ LeaseInv /\ Located
      /\ RunTyped /\ JournalTyped /\ EvidenceTyped /\ LeasesTyped
  BY TypeParts DEF Inductive
<1>3. Known(cur) /\ None \notin JournalOps /\ "diagnostic-budget" \in JournalOps
  BY <1>1, <1>2 DEF Located, At, JournalOps, Operations, BudgetOps
<1>4. ASSUME StoresKept, Known(cur)', NEW next \in {"interruptEvent", "thrown"},
             Goto(<<next, None>>), next = "interruptEvent" => entries'[cur].status = "interrupted"
      PROVE  Inductive'
  <2>1. pc' = <<next, None>> /\ phase' = phase /\ Step' = next /\ Subject' = None
    BY <1>4 DEF Goto, Step, Subject
  <2>2. RunTyped'
    BY <1>1, <1>2, <2>1 DEF RunTyped, Steps, Stay
  <2>3. Located'
    BY <1>1, <1>3, <1>4, <2>1 DEF Located, At, Sealing, Running
  <2> QED BY <1>4, <2>2, <2>3, InductiveParts
<1>5. ASSUME UNCHANGED journalVars,
             \/ Goto(<<"thrown", None>>)
             \/ Goto(<<"interruptEvent", None>>) /\ entries[cur].status = "interrupted"
      PROVE  Inductive'
  <2>1. StoresKept
    BY <1>1, <1>5, StoresFrame DEF OnlyRun
  <2>2. Known(cur)' /\ UNCHANGED <<entries, cur>>
    BY <1>1, <1>3, <1>5 DEF Known, journalVars
  <2> QED BY <1>4, <1>5, <2>1, <2>2
<1>6. CASE entries[cur].status = "interrupted"
  <2>1. UNCHANGED journalVars /\ (Goto(<<"thrown", None>>) \/ Goto(<<"interruptEvent", None>>))
    BY <1>6 DEF Interrupt
  <2> QED BY <1>5, <1>6, <2>1
<1>7. CASE entries[cur].status # "interrupted" /\ MayInterrupt(cur) /\ ~SealRecoverable(cur)
  <2>1. InterruptOp(cur, phase) /\ Goto(<<"interruptEvent", None>>)
    BY <1>7 DEF Interrupt
  <2>2. StoresKept /\ Known(cur)' /\ entries'[cur].status = "interrupted"
    BY <1>1, <1>7, <2>1, InterruptionKeeps
  <2> QED BY <1>4, <2>1, <2>2
<1>8. CASE entries[cur].status # "interrupted" /\ ~(MayInterrupt(cur) /\ ~SealRecoverable(cur))
  <2>1. UNCHANGED journalVars /\ Goto(<<"thrown", None>>)
    BY <1>8 DEF Interrupt
  <2> QED BY <1>5, <2>1
<1> QED BY <1>6, <1>7, <1>8

(* The event of an interruption is for a record that ended. *)
LEMMA InterruptEventKeeps ==
    ASSUME Inductive, At("interruptEvent"), EventLeft(cur, "interrupt"),
           AppendEvent(cur, "interrupt"), UNCHANGED <<journalVars, cur>>
    PROVE  /\ evidence' \in [Numbers -> DirectoryType \cup {None}] /\ EvidenceInv'
<1>1. TypeOK /\ JournalInv /\ EvidenceInv /\ Located
  BY DEF Inductive
<1>2. /\ Known(cur) /\ ~Active(cur) /\ Allocated(cur)
  BY <1>1 DEF Located, At, Active, EventLeft, MayMutate, Unsealed
<1>3. "interrupt" \in EventNames /\ "interrupt" \notin JournalOps
  BY DEF EventNames, JournalOps, Operations, BudgetOps
<1> QED BY <1>1, <1>2, <1>3, AppendKeeps

(* The event of an interruption follows its entry.                          *)
LEMMA InterruptEventInductive ==
    ASSUME Inductive, InterruptEvent PROVE Inductive'
<1>1. /\ At("interruptEvent") /\ UNCHANGED <<journalVars, leftLocks, leases>> /\ Stay
      /\ UNCHANGED <<journalVars, cur>> /\ Goto(<<"thrown", None>>)
      /\ EnsureEvent(cur, "interrupt")
  BY DEF InterruptEvent, Stay
<1>2. TypeOK /\ EvidenceInv /\ None \notin JournalOps /\ "diagnostic-budget" \in JournalOps
  BY DEF Inductive, JournalOps, Operations, BudgetOps
<1>3. evidence' \in [Numbers -> DirectoryType \cup {None}] /\ EvidenceInv'
  <2>1. CASE EventLeft(cur, "interrupt")
    BY <1>1, <2>1, InterruptEventKeeps DEF EnsureEvent
  <2>2. CASE ~EventLeft(cur, "interrupt")
    <3>1. UNCHANGED evidence
      BY <1>1, <2>2 DEF EnsureEvent
    <3> QED BY <1>1, <1>2, <3>1, EvidenceFrame DEF TypeOK
  <2> QED BY <2>1, <2>2
<1>4. pc' = <<"thrown", None>> /\ phase' = phase /\ Step' = "thrown" /\ Subject' = None
  BY <1>1 DEF Goto, Step, Subject
<1>5. Located'
  BY <1>2, <1>4 DEF Located, At, Sealing, Running
<1>6. pc' \in Steps \X (JournalOps \cup {None}) /\ phase' \in Phases \cup {None}
  BY <1>2, <1>4 DEF Steps, TypeOK
<1> QED BY <1>1, <1>3, <1>5, <1>6, EvidenceStep
---------------------------------------------------------------------------
(* The coordinator *)

(* A place where nothing is relied on. *)
LEMMA RestingStep ==
    ASSUME Inductive, OnlyRun, UNCHANGED cur, RunTyped',
           \/ pc' = <<"begin", "create">>
           \/ \E next \in Resting \cup {"thrown"} : pc' = <<next, None>>
    PROVE  Inductive'
<1>1. StoresKept
  BY StoresFrame
<1>2. None \notin JournalOps /\ "diagnostic-budget" \in JournalOps /\ "create" \in JournalOps
      /\ "create" \notin Stages
  BY DEF JournalOps, Operations, BudgetOps, Stages
<1>3. CASE pc' = <<"begin", "create">>
  <2>1. Step' = "begin" /\ Subject' = "create"
    BY <1>3 DEF Step, Subject
  <2> QED BY <1>1, <1>2, <1>3, <2>1, InductiveParts DEF Located, At, Sealing, Running
<1>4. CASE \E next \in Resting \cup {"thrown"} : pc' = <<next, None>>
  <2>1. Step' \in Resting \cup {"thrown"} /\ Subject' = None
    BY <1>4 DEF Step, Subject
  <2>2. Step' \notin Sealing \cup Running
        \cup {"begin", "allocate", "event", "commit", "prepare", "claim", "dispose",
              "failEvaluation", "abandon", "release", "publish", "start", "catch", "interrupt",
              "interruptEvent", "done"}
    BY <2>1 DEF Resting, Sealing, Running
  <2>3. pc' # <<"commit", "seal">> /\ pc' # <<"dispose", "repair">>
    BY <2>2 DEF Step
  <2>4. Located'
    BY <1>2, <2>1, <2>2, <2>3 DEF Located, At, Sealing, Running
  <2> QED BY <1>1, <2>4, InductiveParts
<1> QED BY <1>3, <1>4

(* The next experiment starts when the journal knows the one before.       *)
LEMMA NextExperimentKeeps ==
    ASSUME Inductive, NextExperiment, OnlyRun, Known(cur),
           unattended' \subseteq Numbers, UNCHANGED faults
    PROVE  Inductive'
<1>1. /\ TypeOK /\ JournalInv /\ EvidenceInv /\ LeaseInv
      /\ RunTyped /\ JournalTyped /\ EvidenceTyped /\ LeasesTyped
  BY TypeParts DEF Inductive
<1>2. CASE cur = MaxExperiments
  <2>1. pc' = <<"finished", None>> /\ UNCHANGED <<cur, holds, phase, stop>>
    BY <1>2 DEF NextExperiment
  <2>2. RunTyped'
    BY <1>1, <2>1 DEF RunTyped, Steps
  <2> QED BY <2>1, <2>2, RestingStep DEF Resting
<1>3. CASE cur # MaxExperiments
  <2>1. /\ pc' = <<"begin", "create">> /\ cur' = cur + 1 /\ holds' = None /\ phase' = None
        /\ stop' = IF stop = "requested" THEN "spent" ELSE stop
    BY <1>3 DEF NextExperiment
  <2>2. cur' \in Numbers /\ cur = Latest /\ cur \in Nat
    BY <1>1, <1>3, <2>1, KnownIsLatest DEF Numbers
  <2>3. RunTyped'
    BY <1>1, <2>1, <2>2 DEF RunTyped, Steps, JournalOps
  <2>4. UNCHANGED journalVars /\ UNCHANGED evidenceVars /\ UNCHANGED leases
        /\ UNCHANGED <<entries, pending, head, evidence>>
    BY DEF OnlyRun, journalVars, evidenceVars
  <2>5. Latest' = Latest /\ Latest' \in {cur' - 1, cur'}
    BY <2>1, <2>2, <2>4 DEF Latest
  <2>6. Justified'
    <3>1. ~(pending # None /\ pending.op = "create")
      BY <1>1, <2>2 DEF JournalInv, Justified
    <3> QED BY <1>1, <2>4, <2>5, <3>1 DEF JournalInv, Justified, Active, Known, Done, Released
  <2>7. JournalInv'
    BY <1>1, <2>4, <2>5, <2>6 DEF JournalInv, Active, Sealed, Known, Done, Released
  <2>8. EvidenceInv' /\ LeaseInv'
    <3>1. UNCHANGED <<journalVars, evidence>> /\ UNCHANGED <<entries, leases>>
      BY <2>4
    <3> QED BY <1>1, <3>1, EvidenceFrame, LeaseFrame
  <2>9. JournalTyped' /\ EvidenceTyped' /\ LeasesTyped'
    BY <1>1, <2>4, JournalTypedFrame, EvidenceTypedFrame, LeasesTypedFrame
  <2>10. Located'
    <3>1. Step' = "begin" /\ Subject' = "create" /\ "create" \in JournalOps /\ "create" \notin Stages
      BY <2>1 DEF Step, Subject, JournalOps, Stages
    <3> QED BY <2>1, <3>1 DEF Located, At, Sealing, Running
  <2> QED BY <2>3, <2>7, <2>8, <2>9, <2>10, InductiveParts DEF StoresKept
<1> QED BY <1>2, <1>3

(* A process that gives up goes on to the next experiment, or is stuck.     *)
LEMMA GiveUpKeeps ==
    ASSUME Inductive, GiveUp, OnlyRun, unattended' \subseteq Numbers, UNCHANGED faults
    PROVE  Inductive'
<1>1. RunTyped
  BY TypeParts DEF Inductive
<1>2. CASE Known(cur) /\ ~Sealed(cur)
  BY <1>2, NextExperimentKeeps DEF GiveUp
<1>3. CASE ~(Known(cur) /\ ~Sealed(cur))
  <2>1. pc' = <<"stuck", None>> /\ UNCHANGED <<cur, holds, phase, stop>>
    BY <1>3 DEF GiveUp
  <2>2. RunTyped'
    BY <1>1, <2>1 DEF RunTyped, Steps
  <2> QED BY <2>1, <2>2, RestingStep DEF Resting
<1> QED BY <1>2, <1>3

(* The end of a run, with or without an error, and the next start.          *)
LEMMA CoordinatorInductive ==
    ASSUME Inductive, Complete \/ Thrown \/ Restart PROVE Inductive'
<1>1. RunTyped
  BY TypeParts DEF Inductive
<1>2. CASE Complete
  <2>1. Known(cur)
    BY <1>2 DEF Complete, At, Inductive, Located
  <2> QED BY <1>1, <1>2, <2>1, NextExperimentKeeps DEF Complete, RunTyped
<1>3. CASE Thrown
  BY <1>1, <1>3, GiveUpKeeps DEF Thrown, RunTyped
<1>4. CASE Restart
  <2>1. CASE stop = "requested"
    <3>1. GiveUp /\ unattended' = unattended \cup {cur} /\ OnlyRun /\ UNCHANGED faults
      BY <1>4, <2>1 DEF Restart
    <3>2. unattended' \subseteq Numbers
      BY <1>1, <3>1 DEF RunTyped
    <3> QED BY <3>1, <3>2, GiveUpKeeps
  <2>2. CASE stop # "requested"
    <3>1. /\ pc' = <<"begin", "create">> /\ OnlyRun /\ UNCHANGED faults /\ UNCHANGED cur
          /\ UNCHANGED <<cur, holds, phase, stop, unattended>>
      BY <1>4, <2>2 DEF Restart
    <3>2. RunTyped'
      BY <1>1, <3>1 DEF RunTyped, Steps, JournalOps
    <3> QED BY <3>1, <3>2, RestingStep
  <2> QED BY <2>1, <2>2
<1> QED BY <1>2, <1>3, <1>4

---------------------------------------------------------------------------
(* The environment *)

(* The places depend on nothing else. *)
LEMMA LocatedFrame ==
    ASSUME Located, UNCHANGED <<pc, cur, entries, pending, head, evidence, leases>>
    PROVE  Located'
<1>1. Located
  OBVIOUS
<1>2. UNCHANGED <<pc, cur, entries, pending, head, evidence, leases>>
  OBVIOUS
<1>3. Step' = Step /\ Subject' = Subject
  BY <1>2 DEF Step, Subject
<1>4. \A n, s : (Leased(n, s)' <=> Leased(n, s)) /\ Lease(n, s)' = Lease(n, s)
  BY <1>2 DEF Leased, Lease
<1>5. (Known(cur)' <=> Known(cur)) /\ Receipts(cur)' = Receipts(cur)
      /\ (ClaimedHere' <=> ClaimedHere) /\ (Allocated(cur)' <=> Allocated(cur))
      /\ Events(cur)' = Events(cur) /\ (Attested(cur)' <=> Attested(cur))
      /\ (Unsealed(cur)' <=> Unsealed(cur))
  BY <1>2, <1>3 DEF Known, Receipts, ClaimedHere, Allocated, Events, Attested, Unsealed
<1>6. PriorSeal(cur)' = PriorSeal(cur)
  <2>1. ASSUME NEW n, n = cur PROVE PriorSeal(n)' = PriorSeal(cur)
    <3>1. PriorSeal(n)' = PriorSeal(n)
      BY <1>2, PriorSealFrame DEF Attested, Allocated
    <3> QED BY <2>1, <3>1
  <2>2. \A n : n = cur => PriorSeal(n)' = PriorSeal(cur)
    BY <2>1
  <2> QED BY <1>2, <2>2 DEF PriorSeal
<1>7. /\ (Charged(cur)' <=> Charged(cur)) /\ Diagnostic(cur)' = Diagnostic(cur)
      /\ (Decided(cur, "validation")' <=> Decided(cur, "validation"))
      /\ (Leased(cur, Subject)' <=> Leased(cur, Subject))
      /\ Lease(cur, Subject)' = Lease(cur, Subject)
      /\ Status(cur, Subject)' = Status(cur, Subject)
  BY <1>2, <1>3 DEF Charged, Diagnostic, Decided, Status, Leased, Lease
<1>8. Released(entries[cur])' <=> Released(entries[cur])
  BY <1>2 DEF Released
<1> HIDE DEF Released
<1> QED BY <1>1, <1>2, <1>3, <1>5, <1>6, <1>7, <1>8 DEF Located, At

(* A stop request changes no store.                                         *)
LEMMA RequestStopInductive ==
    ASSUME Inductive, RequestStop PROVE Inductive'
<1>1. /\ OnlyRun /\ UNCHANGED cur /\ UNCHANGED <<pc, cur, holds, phase, unattended, faults>>
      /\ stop' = "requested" /\ UNCHANGED leases
      /\ UNCHANGED <<entries, pending, head, evidence>>
  BY DEF RequestStop, OnlyRun, journalVars, evidenceVars
<1>2. StoresKept
  BY <1>1, StoresFrame
<1>3. RunTyped'
  BY <1>1, TypeParts DEF Inductive, RunTyped
<1>4. Located'
  BY <1>1, LocatedFrame DEF Inductive
<1> QED BY <1>2, <1>3, <1>4, InductiveParts

(* A call that fails changes no store.                                      *)
LEMMA CallFailsInductive ==
    ASSUME Inductive, CallFails PROVE Inductive'
<1>1. /\ OnlyRun /\ UNCHANGED cur /\ UNCHANGED <<cur, holds, stop>> /\ Throw
      /\ faults < MaxFaults /\ faults' = faults + 1
      /\ Step \notin Resting \cup Handling \cup {"thrown", "done", "failEvaluation", "abandon"}
      /\ unattended' \in {unattended, unattended \cup {cur}}
  BY DEF CallFails, Unheard
<1>2. StoresKept
  BY <1>1, StoresFrame
<1>3. UNCHANGED <<entries, cur>> /\ UNCHANGED leases
  BY <1>1 DEF OnlyRun, journalVars
<1>4. /\ pc' \in Steps \X (JournalOps \cup {None}) /\ phase' \in Phases \cup {None}
      /\ Located'
  BY <1>1, <1>3, ThrowKeeps
<1>5. RunTyped'
  BY <1>1, <1>4, TypeParts DEF Inductive, RunTyped
<1> QED BY <1>2, <1>4, <1>5, InductiveParts

(* A call that fails after its effect: the store has what it was to have,   *)
(* and the runner throws from where it was.                                 *)
LEMMA AnswerLostInductive ==
    ASSUME Inductive, AnswerLost PROVE Inductive' /\ LeasesKept
<1>1. /\ UNCHANGED evidenceVars /\ UNCHANGED cur /\ UNCHANGED <<cur, holds, stop>> /\ Throw
      /\ faults < MaxFaults /\ faults' = faults + 1 /\ Effect
      /\ unattended' \in {unattended, unattended \cup {cur}}
  BY DEF AnswerLost, Unheard
<1>2. TypeOK /\ JournalInv /\ LeaseInv /\ Located /\ RunTyped
  BY TypeParts DEF Inductive
<1>3. ASSUME pc' \in Steps \X (JournalOps \cup {None}), phase' \in Phases \cup {None}
      PROVE  RunTyped'
  BY <1>1, <1>2, <1>3 DEF RunTyped
<1>4. CASE At("commit") /\ Conclude(Subject) /\ UNCHANGED leases
  <2>1. StoresKept /\ Known(cur)'
    BY <1>1, <1>4, ConcludeKeeps
  <2>2. Step \notin {"bind", "evaluate"} /\ pc # <<"dispose", "repair">>
    BY <1>4 DEF At, Step
  <2>3. /\ pc' \in Steps \X (JournalOps \cup {None}) /\ phase' \in Phases \cup {None}
        /\ Located'
    BY <1>1, <2>1, <2>2, ThrowLands
  <2>4. LeasesKept
    BY <1>2, <1>4, LeasesStay
  <2> QED BY <1>3, <2>1, <2>3, <2>4, InductiveParts
<1>5. ASSUME UNCHANGED journalVars, Known(cur), LeasesKept, LeaseInv',
             Step \in {"bind", "evaluate"} \/ pc = <<"dispose", "repair">> =>
                \E s \in Stages : Subject = s /\ Leased(cur, s)'
      PROVE  Inductive' /\ LeasesKept
  <2>1. UNCHANGED <<journalVars, evidenceVars>> /\ Known(cur)'
    BY <1>1, <1>5 DEF Known, journalVars
  <2>2. /\ pc' \in Steps \X (JournalOps \cup {None}) /\ phase' \in Phases \cup {None}
        /\ Located'
    BY <1>1, <1>5, <2>1, ThrowLands
  <2> QED BY <1>1, <1>3, <1>5, <2>1, <2>2, LeaseStep
<1>6. CASE Step \in {"prepare", "claim", "evaluate", "dispose"} /\ UNCHANGED journalVars
  <2>1. UNCHANGED <<journalVars, evidenceVars>> /\ UNCHANGED <<entries, cur>>
    BY <1>1, <1>6 DEF journalVars
  <2>2. PICK s \in Stages : s = Subject
    BY <1>2, <1>6 DEF Located, Running
  <2>3. Known(cur)
    BY <1>2, <1>6 DEF Located, Running
  <2>4. CASE At("prepare") /\ MayPrepare(cur, s) /\ Prepare(cur, s)
    <3>1. LeasesKept /\ LeaseInv'
      BY <1>2, <2>1, <2>4, PrepareKeeps
    <3> QED BY <1>5, <1>6, <2>3, <2>4, <3>1 DEF At, Step
  <2>5. CASE At("claim") /\ MayClaim(cur, s) /\ ClaimLease(cur, s)
    <3>1. LeasesKept /\ LeaseInv'
      BY <1>2, <2>1, <2>5, ClaimLeaseKeeps
    <3> QED BY <1>5, <1>6, <2>3, <2>5, <3>1 DEF At, Step
  <2>6. CASE At("evaluate") /\ \E result \in Inputs(s) : RecordResult(cur, s, result)
    <3>1. PICK result \in Inputs(s) : RecordResult(cur, s, result)
      BY <2>6
    <3>2. Leased(cur, s) /\ Status(cur, s) = "running"
      BY <1>2, <2>2, <2>6 DEF Located, At, Running
    <3>3. LeasesKept /\ LeaseInv' /\ Leased(cur, s)'
      BY <1>2, <2>1, <3>1, <3>2, RecordResultKeeps
    <3> QED BY <1>5, <1>6, <2>2, <2>3, <3>3
  <2>7. CASE At("dispose") /\ MayDispose(cur, s, "decided") /\ Dispose(cur, s, "decided")
    <3>1. "decided" \in Outcomes
      BY DEF Outcomes
    <3>2. LeasesKept /\ LeaseInv' /\ Leased(cur, s)'
      BY <1>2, <2>1, <2>7, <3>1, DisposeKeeps
    <3> QED BY <1>5, <1>6, <2>2, <2>3, <3>2
  <2> QED BY <1>1, <1>6, <2>2, <2>4, <2>5, <2>6, <2>7 DEF Effect, At
<1> QED BY <1>1, <1>4, <1>6 DEF Effect, At

(* A call of the catch block that fails changes no store either.            *)
LEMMA HandlerFailsInductive ==
    ASSUME Inductive, HandlerFails PROVE Inductive'
<1>1. /\ OnlyRun /\ UNCHANGED cur /\ UNCHANGED <<cur, holds, stop>>
      /\ faults < MaxFaults /\ faults' = faults + 1
      /\ unattended' \in {unattended, unattended \cup {cur}}
      /\ \/ pc' = <<"thrown", None>>
         \/ pc' = <<"catch", None>> /\ Step \in {"failEvaluation", "abandon"}
      /\ phase' = phase
  BY DEF HandlerFails, Goto
<1>2. StoresKept
  BY <1>1, StoresFrame
<1>3. RunTyped'
  BY <1>1, TypeParts DEF Inductive, RunTyped, Steps
<1>4. CASE pc' = <<"thrown", None>>
  BY <1>1, <1>3, <1>4, RestingStep
<1>5. CASE pc' = <<"catch", None>> /\ Step \in {"failEvaluation", "abandon"}
  <2>1. Known(cur)
    BY <1>5 DEF Inductive, Located
  <2>2. Known(cur)' /\ None \notin JournalOps /\ "diagnostic-budget" \in JournalOps
    BY <1>1, <2>1 DEF Known, OnlyRun, journalVars, JournalOps, Operations, BudgetOps
  <2>3. Step' = "catch" /\ Subject' = None
    BY <1>5 DEF Step, Subject
  <2>4. Located'
    BY <1>5, <2>2, <2>3 DEF Located, At, Sealing, Running
  <2> QED BY <1>2, <1>3, <2>4, InductiveParts
<1> QED BY <1>1, <1>4, <1>5

(* So it is when a call of the catch block fails after its effect.          *)
LEMMA HandlerAnswerLostInductive ==
    ASSUME Inductive, HandlerAnswerLost PROVE Inductive' /\ LeasesKept
<1>1. /\ UNCHANGED evidenceVars /\ UNCHANGED cur /\ UNCHANGED <<cur, holds, stop>>
      /\ faults < MaxFaults /\ faults' = faults + 1
      /\ unattended' \in {unattended, unattended \cup {cur}}
  BY DEF HandlerAnswerLost
<1>2. TypeOK /\ JournalInv /\ LeaseInv /\ Located /\ RunTyped
  BY TypeParts DEF Inductive
<1>3. ASSUME NEW next \in {"catch", "thrown"}, Goto(<<next, None>>), Known(cur)'
      PROVE  RunTyped' /\ Located'
  <2>1. pc' = <<next, None>> /\ phase' = phase /\ Step' = next /\ Subject' = None
    BY <1>3 DEF Goto, Step, Subject
  <2>2. None \notin JournalOps /\ "diagnostic-budget" \in JournalOps
    BY DEF JournalOps, Operations, BudgetOps
  <2>3. RunTyped'
    BY <1>1, <1>2, <2>1 DEF RunTyped, Steps
  <2>4. Located'
    BY <1>3, <2>1, <2>2 DEF Located, At, Sealing, Running
  <2> QED BY <2>3, <2>4
<1>4. ASSUME UNCHANGED journalVars, Known(cur)
      PROVE  /\ UNCHANGED <<journalVars, evidenceVars>> /\ UNCHANGED <<entries, cur>>
             /\ Known(cur)'
  BY <1>1, <1>4 DEF Known, journalVars
<1>5. CASE /\ pc = <<"failEvaluation", "repair">> /\ FailEvaluation(cur, "repair")
           /\ Goto(<<"catch", None>>) /\ UNCHANGED journalVars
  <2>1. "repair" \in Stages
    BY DEF Stages
  <2>2. Known(cur) /\ Leased(cur, "repair")
    BY <1>2, <1>5 DEF Located, At, Step, Subject
  <2>3. LeasesKept /\ LeaseInv'
    BY <1>2, <1>4, <1>5, <2>1, <2>2, FailEvaluationKeeps
  <2> QED BY <1>1, <1>3, <1>4, <1>5, <2>2, <2>3, LeaseStep
<1>6. CASE /\ At("catch") /\ MayDispose(cur, "validation", QuarantineOutcome)
           /\ Dispose(cur, "validation", QuarantineOutcome)
           /\ Goto(<<"thrown", None>>) /\ UNCHANGED journalVars
  <2>1. PICK outcome \in Outcomes : outcome = QuarantineOutcome
    BY DEF QuarantineOutcome, Outcomes
  <2>2. "validation" \in Stages
    BY DEF Stages
  <2>3. Known(cur)
    BY <1>2, <1>6 DEF Located, At
  <2>4. LeasesKept /\ LeaseInv'
    BY <1>2, <1>4, <1>6, <2>1, <2>2, <2>3, DisposeKeeps
  <2> QED BY <1>1, <1>3, <1>4, <1>6, <2>3, <2>4, LeaseStep
<1>7. CASE /\ At("interrupt") /\ ~SealRecoverable(cur) /\ InterruptOp(cur, phase)
           /\ Goto(<<"thrown", None>>) /\ UNCHANGED leases
  <2>1. StoresKept /\ Known(cur)'
    BY <1>1, <1>7, InterruptionKeeps
  <2>2. RunTyped' /\ Located'
    BY <1>3, <1>7, <2>1
  <2>3. LeasesKept
    BY <1>2, <1>7, LeasesStay
  <2> QED BY <2>1, <2>2, <2>3, InductiveParts
<1> QED BY <1>5, <1>6, <1>7 DEF HandlerAnswerLost

(* A crash under a lock has made the change of the step or not.            *)
LEMMA MutationKeeps ==
    ASSUME Inductive, UnderLock, Mutation, UNCHANGED <<journalVars, leases>>, UNCHANGED cur
    PROVE  evidence' \in [Numbers -> DirectoryType \cup {None}] /\ EvidenceInv'
<1>1. /\ TypeOK /\ JournalInv /\ EvidenceInv /\ LeaseInv /\ Located
      /\ UNCHANGED <<journalVars, cur>>
  BY DEF Inductive
<1>2. CASE At("allocate") /\ MayAllocate(cur)
  <2>1. Allocate(cur)
    BY <1>2 DEF Mutation, At
  <2>2. Subject = "create" /\ ClaimedHere /\ ~Allocated(cur)
    BY <1>2, ClaimedPlaces DEF MayAllocate
  <2> QED BY <1>1, <2>1, <2>2, AllocateKeeps DEF ClaimedHere
<1>3. CASE At("event") /\ EventLeft(cur, Subject)
  <2>1. AppendEvent(cur, Subject)
    BY <1>3 DEF Mutation, At
  <2>2. ClaimedHere /\ Allocated(cur) /\ Subject \in JournalOps
    BY <1>3, ClaimedPlaces DEF At
  <2>3. pending # None /\ pending.number = cur /\ pending.op = Subject
    BY <2>2 DEF ClaimedHere
  <2>4. Len(Events(cur)) = Receipts(cur)
    <3>1. ~(Len(Events(cur)) > Receipts(cur))
      BY <1>1, <1>3, <2>2, <2>3, ClaimedEventNext DEF EventLeft
    <3> QED BY <1>1, <2>2, <3>1, DirectoryOf
  <2>5. PICK event \in EventNames : event = Subject
    BY <2>2 DEF EventNames
  <2> QED BY <1>1, <2>1, <2>2, <2>3, <2>4, <2>5, AppendKeeps
<1>4. CASE At("interruptEvent") /\ EventLeft(cur, "interrupt")
  <2>1. AppendEvent(cur, "interrupt")
    BY <1>4 DEF Mutation, At
  <2> QED BY <1>1, <1>4, <2>1, InterruptEventKeeps
<1>5. CASE At("artifacts") /\ MayMutate(cur)
  <2>1. WriteArtifacts(cur)
    BY <1>5 DEF Mutation, At
  <2>2. Allocated(cur)
    BY <1>5 DEF MayMutate, Unsealed
  <2> QED BY <1>1, <2>1, <2>2, WriteArtifactsKeeps
<1>6. CASE At("authorized") /\ MaySeal(cur, head)
  <2>1. AppendEvent(cur, "experiment-sealed")
    BY <1>6 DEF Mutation, At
  <2>2. Allocated(cur) /\ Len(Events(cur)) > Receipts(cur)
        /\ pending # None /\ pending.number = cur /\ pending.op = "seal"
    BY <1>1, <1>6, ClaimedPlaces DEF At, Sealing, ClaimedHere, Located
  <2>3. "experiment-sealed" \in EventNames /\ "experiment-sealed" \notin JournalOps
    BY DEF EventNames, JournalOps, Operations, BudgetOps
  <2>4. Len(Events(cur)) # Receipts(cur)
    BY <1>1, <2>2, DirectoryOf
  <2> QED BY <1>1, <2>1, <2>2, <2>3, <2>4, AppendKeeps
<1>7. CASE At("attest")
  <2>1. Attest(cur, PriorSeal(cur))
    BY <1>7 DEF Mutation, At
  <2>2. /\ Unsealed(cur) /\ PriorSeal(cur) = head
        /\ pending # None /\ pending.number = cur /\ pending.op = "seal"
    BY <1>1, <1>7, ClaimedPlaces DEF At, Sealing, ClaimedHere, Located
  <2> QED BY <1>1, <2>1, <2>2, AttestKeeps
<1>8. CASE Step \in {"attestation", "verify"}
  <2>1. UNCHANGED evidence
    BY <1>8 DEF Mutation, At
  <2> QED BY <1>1, <2>1, EvidenceFrame DEF TypeOK
<1> QED BY <1>2, <1>3, <1>4, <1>5, <1>6, <1>7, <1>8 DEF UnderLock, At

(* A crash loses the runner's place; under a lock it leaves the lock file.  *)
LEMMA CrashInductive ==
    ASSUME Inductive, Crash PROVE Inductive'
<1>1. /\ UNCHANGED <<journalVars, leases>> /\ UNCHANGED <<journalVars, cur>>
      /\ UNCHANGED cur /\ UNCHANGED <<cur, stop, unattended>>
      /\ faults < MaxFaults /\ faults' = faults + 1
      /\ pc' = <<"down", None>> /\ holds' = None /\ phase' = None
      /\ UNCHANGED journalVars /\ UNCHANGED leases /\ UNCHANGED entries
  BY DEF Crash, journalVars
<1>2. /\ TypeOK /\ JournalInv /\ EvidenceInv /\ LeaseInv
      /\ RunTyped /\ JournalTyped /\ EvidenceTyped /\ LeasesTyped
  BY TypeParts DEF Inductive
<1>3. EvidenceTyped' /\ EvidenceInv'
  <2>1. CASE UNCHANGED evidenceVars
    BY <1>1, <1>2, <2>1, EvidenceTypedFrame, EvidenceFrame DEF evidenceVars
  <2>2. CASE UnderLock /\ leftLocks' = leftLocks \cup {LockOfStep}
             /\ (Mutation \/ UNCHANGED evidence)
    <3>1. evidence' \in [Numbers -> DirectoryType \cup {None}] /\ EvidenceInv'
      BY <1>1, <1>2, <2>2, MutationKeeps, EvidenceFrame DEF TypeOK
    <3>2. leftLocks' \subseteq Numbers \cup {Allocation}
      BY <1>2, <2>2 DEF LockOfStep, EvidenceTyped, RunTyped
    <3> QED BY <3>1, <3>2 DEF EvidenceTyped
  <2> QED BY <2>1, <2>2 DEF Crash
<1>4. StoresKept
  BY <1>1, <1>2, <1>3, JournalTypedFrame, LeasesTypedFrame, JournalFrame, LeaseFrame DEF StoresKept
<1>5. RunTyped'
  BY <1>1, <1>2 DEF RunTyped, Steps
<1>6. Step' = "down" /\ Subject' = None /\ None \notin JournalOps /\ "diagnostic-budget" \in JournalOps
  BY <1>1 DEF Step, Subject, JournalOps, Operations, BudgetOps
<1>7. Located'
  BY <1>1, <1>6 DEF Located, At, Sealing, Running
<1> QED BY <1>4, <1>5, <1>7, InductiveParts

---------------------------------------------------------------------------
(* The theorems *)

(* Nothing has been recorded at the start.                                  *)
LEMMA InitInductive ==
    ASSUME Init PROVE Inductive
<1>1. /\ entries = <<>> /\ pending = None /\ head = 0 /\ leftLocks = {}
      /\ evidence = [n \in Numbers |-> None]
      /\ leases = [n \in Numbers |-> [s \in Stages |-> None]]
      /\ pc = <<"begin", "create">> /\ cur = 1 /\ holds = None /\ phase = None
      /\ stop = "no" /\ unattended = {} /\ faults = 0
  BY DEF Init, JournalInit, EvidenceInit, LeasesInit
<1>2. 1 \in Numbers /\ 0 \in 0 .. MaxFaults /\ "create" \in JournalOps
  BY DEF Numbers, JournalOps
<1>3. /\ evidence \in [Numbers -> DirectoryType \cup {None}]
      /\ leases = [n \in Numbers |-> [s \in Stages |-> leases[n][s]]]
      /\ \A n \in Numbers, s \in Stages : leases[n][s] = None
  BY <1>1
<1>4. TypeOK
  BY <1>1, <1>2, <1>3 DEF TypeOK, Steps
<1>5. DOMAIN entries = {} /\ Latest = 0
  BY <1>1 DEF Latest
<1>6. JournalInv
  BY <1>1, <1>5 DEF JournalInv, Justified
<1>7. \A n \in Numbers : ~Allocated(n) /\ ~Attested(n)
  BY <1>1 DEF Allocated, Attested
<1>8. EvidenceInv
  BY <1>5, <1>7 DEF EvidenceInv, WriteAhead, LineageAgrees, Lineage
<1>9. \A n \in Numbers, s \in Stages : ~Leased(n, s)
  BY <1>3 DEF Leased, Lease
<1>10. LeaseInv
  BY <1>5, <1>9 DEF LeaseInv, Stages
<1>11. Step = "begin" /\ Subject = "create" /\ "create" \notin Stages
  BY <1>1 DEF Step, Subject, Stages
<1>12. Located
  BY <1>1, <1>2, <1>11 DEF Located, At, Sealing, Running
<1> QED BY <1>4, <1>6, <1>8, <1>10, <1>12 DEF Inductive

(* Nothing happens.                                                         *)
LEMMA StutterInductive ==
    ASSUME Inductive, UNCHANGED vars PROVE Inductive'
<1>1. /\ OnlyRun /\ UNCHANGED <<pc, cur, entries, pending, head, evidence, leases>>
      /\ UNCHANGED <<pc, cur, holds, phase, stop, unattended, faults>>
  BY DEF vars, runVars, OnlyRun, journalVars, evidenceVars
<1>2. StoresKept
  BY <1>1, StoresFrame
<1>3. RunTyped'
  BY <1>1, TypeParts DEF Inductive, RunTyped
<1>4. Located'
  BY <1>1, LocatedFrame DEF Inductive
<1> QED BY <1>2, <1>3, <1>4, InductiveParts

(* Every step keeps the invariant.                                          *)
LEMMA NextInductive ==
    ASSUME Inductive, [Next]_vars PROVE Inductive'
<1>1. CASE Process
  BY <1>1, BeginInductive, AllocateInductive, RecordEventInductive, CommitInductive,
     SealArtifactsInductive, LookForAttestationInductive, VerifySealInductive,
     AppendSealEventInductive, InstallAttestationInductive, PrepareInductive, StartInductive,
     ClaimInductive, BindInductive, EvaluateInductive, DisposeDecidedInductive,
     ClaimReleaseInductive, PublishInductive, FailLeaseInductive, AbandonRepairInductive,
     CatchInductive, InterruptInductive, InterruptEventInductive, CoordinatorInductive DEF Process
<1>2. CASE Environment
  BY <1>2, RequestStopInductive, CallFailsInductive, AnswerLostInductive,
     HandlerFailsInductive, HandlerAnswerLostInductive, ReleaseRejectedInductive,
     CrashInductive DEF Environment
<1>3. CASE Over \/ UNCHANGED vars
  BY <1>3, StutterInductive DEF Over
<1> QED BY <1>1, <1>2, <1>3 DEF Next

(* Every other step leaves the leases alone. *)
LEMMA NextKeepsLeases ==
    ASSUME Inductive, [Next]_vars PROVE LeasesKept
<1>1. CASE PrepareLease \/ Claim \/ Bind \/ Evaluate \/ DisposeDecided
  BY <1>1, PrepareInductive, ClaimInductive, BindInductive, EvaluateInductive,
     DisposeDecidedInductive
<1>2. CASE ClaimRelease \/ Publish \/ ReleaseRejected
  BY <1>2, ClaimReleaseInductive, PublishInductive, ReleaseRejectedInductive
<1>3. CASE FailLease \/ AbandonRepair \/ Catch \/ AnswerLost \/ HandlerAnswerLost
  BY <1>3, FailLeaseInductive, AbandonRepairInductive, CatchInductive, AnswerLostInductive,
     HandlerAnswerLostInductive
<1>4. CASE UNCHANGED leases
  BY <1>4, LeasesStay DEF Inductive
<1>5. CASE Begin \/ AllocateDirectory \/ RecordEvent \/ Commit \/ WriteSealArtifacts
  BY <1>4, <1>5 DEF Begin, AllocateDirectory, RecordEvent, Commit, WriteSealArtifacts
<1>6. CASE LookForAttestation \/ AppendSealEvent \/ InstallAttestation \/ VerifySeal \/ StartValidation
  BY <1>4, <1>6 DEF LookForAttestation, AppendSealEvent, InstallAttestation, VerifySeal,
                    StartValidation, OnlyRun
<1>7. CASE Interrupt \/ InterruptEvent \/ Complete \/ Thrown \/ Restart
  BY <1>4, <1>7 DEF Interrupt, InterruptEvent, Complete, Thrown, Restart, OnlyRun
<1>8. CASE RequestStop \/ CallFails \/ HandlerFails \/ Crash \/ UNCHANGED vars
  BY <1>4, <1>8 DEF RequestStop, CallFails, HandlerFails, Crash, OnlyRun, vars
<1> QED BY <1>1, <1>2, <1>3, <1>5, <1>6, <1>7, <1>8 DEF Next, Process, Environment, Over

---------------------------------------------------------------------------
(* The promise *)

OutcomeType ==
    [ status : {"active", "sealed", "interrupted"}, before : Nat, after : Nat, spent : Nat,
      stage : {"none", "validation", "pre-validation"}, disposition : Dispositions \cup {"none"} ]
RecordsOf(es) == [n \in DOMAIN es |-> Outcome(es[n])]

(* An entry is seen by the campaign as one of the outcomes.                 *)
LEMMA OutcomeIs ==
    ASSUME NEW e \in EntryType PROVE Outcome(e) \in OutcomeType
BY DEF EntryType, Outcome, OutcomeType

(* What is promised of a journal is one record for each of its own.        *)
LEMMA RecordsAre ==
    ASSUME NEW es \in Seq(EntryType)
    PROVE  /\ RecordsOf(es) \in Seq(OutcomeType) /\ Len(RecordsOf(es)) = Len(es)
           /\ DOMAIN RecordsOf(es) = 1 .. Len(es) /\ Len(es) \in Nat
           /\ \A n \in 1 .. Len(es) : RecordsOf(es)[n] = Outcome(es[n]) /\ es[n] \in EntryType
<1>1. Len(es) \in Nat /\ DOMAIN es = 1 .. Len(es) /\ \A n \in 1 .. Len(es) : es[n] \in EntryType
  BY ElementOfSeq
<1>2. RecordsOf(es) \in [1 .. Len(es) -> OutcomeType]
  BY <1>1, OutcomeIs DEF RecordsOf
<1>3. RecordsOf(es) \in Seq(OutcomeType)
  BY <1>1, <1>2, SeqDef
<1>4. DOMAIN RecordsOf(es) = 1 .. Len(es)
  BY <1>2
<1>5. Len(RecordsOf(es)) = Len(es)
  BY <1>1, <1>3, <1>4, LenProperties
<1> QED BY <1>1, <1>3, <1>4, <1>5 DEF RecordsOf

(* A record that is replaced is replaced in the promise. *)
LEMMA ReplaceRecord ==
    ASSUME NEW es \in Seq(EntryType), NEW n \in 1 .. Len(es), NEW e \in EntryType
    PROVE  RecordsOf([es EXCEPT ![n] = e]) = [RecordsOf(es) EXCEPT ![n] = Outcome(e)]
<1>1. [es EXCEPT ![n] = e] \in Seq(EntryType) /\ DOMAIN es = 1 .. Len(es)
  BY ExceptSeq, LenProperties
<1> QED BY <1>1 DEF RecordsOf

(* A new entry is a new outcome.                                            *)
LEMMA AppendRecord ==
    ASSUME NEW es \in Seq(EntryType), NEW e \in EntryType
    PROVE  RecordsOf(Append(es, e)) = Append(RecordsOf(es), Outcome(e))
<1> DEFINE new == RecordsOf(Append(es, e))
           old == Append(RecordsOf(es), Outcome(e))
<1>1. /\ Append(es, e) \in Seq(EntryType) /\ Len(Append(es, e)) = Len(es) + 1
      /\ \A i \in 1 .. Len(es) : Append(es, e)[i] = es[i]
      /\ Append(es, e)[Len(es) + 1] = e
  BY AppendProperties
<1>2. /\ new \in Seq(OutcomeType) /\ Len(new) = Len(es) + 1 /\ Len(es) \in Nat
      /\ \A i \in 1 .. Len(es) + 1 : new[i] = Outcome(Append(es, e)[i])
  BY <1>1, RecordsAre
<1>3. /\ RecordsOf(es) \in Seq(OutcomeType) /\ Len(RecordsOf(es)) = Len(es)
      /\ \A i \in 1 .. Len(es) : RecordsOf(es)[i] = Outcome(es[i])
      /\ Outcome(e) \in OutcomeType
  BY RecordsAre, OutcomeIs
<1>4. /\ old \in Seq(OutcomeType) /\ Len(old) = Len(es) + 1
      /\ \A i \in 1 .. Len(es) : old[i] = RecordsOf(es)[i]
      /\ old[Len(es) + 1] = Outcome(e)
  BY <1>3, AppendProperties
<1>5. ASSUME NEW i \in 1 .. Len(es) + 1 PROVE new[i] = old[i]
  <2>1. i \in 1 .. Len(es) \/ i = Len(es) + 1
    BY <1>2
  <2> QED BY <1>1, <1>2, <1>3, <1>4, <2>1
<1> QED BY <1>2, <1>4, <1>5, SeqEqual

(* The champion that the journal goes on from is the one it promised.      *)
LEMMA ChampionPromised ==
    ASSUME entries \in Seq(EntryType)
    PROVE  ChampionOf = Promise!ChampionNow /\ ChampionOf \in Nat
<1>1. /\ RecordsOf(entries) \in Seq(OutcomeType) /\ Len(RecordsOf(entries)) = Len(entries)
      /\ \A n \in 1 .. Len(entries) : RecordsOf(entries)[n] = Outcome(entries[n])
      /\ \A n \in 1 .. Len(entries) : entries[n] \in EntryType
  BY RecordsAre
<1>2. /\ RecordsOf(entries) = <<>> <=> entries = <<>>
      /\ entries # <<>> => Len(entries) \in 1 .. Len(entries)
  BY <1>1, EmptySeq
<1>3. entries # <<>> => RecordsOf(entries)[Len(entries)].after = entries[Len(entries)].after
  <2>1. \A e : Outcome(e).after = e.after
    BY DEF Outcome
  <2> QED BY <1>1, <1>2, <2>1
<1>4. ChampionOf \in Nat
  BY <1>1, <1>2 DEF ChampionOf, EntryType
<1> QED BY <1>1, <1>2, <1>3, <1>4 DEF ChampionOf, Promise!ChampionNow, RecordsOf

(* A creation appends an open experiment.                                   *)
LEMMA CreatePromised ==
    ASSUME TypeOK, JournalInv, pending # None, pending.op = "create",
           CompleteCreate(cur, 0)
    PROVE  Promise!OutcomeNext
<1> DEFINE e == [ status |-> "active", done |-> <<"create">>, before |-> ChampionOf,
                  after |-> ChampionOf, spent |-> 0, gates |-> None, repair |-> None,
                  validation |-> None, disposition |-> None, previous |-> None,
                  interruptedIn |-> None ]
           rs == RecordsOf(entries)
<1>1. /\ entries' = Append(entries, e) /\ entries \in Seq(EntryType)
      /\ \A n \in DOMAIN entries : ~Active(n)
  BY DEF CompleteCreate, JournalInv, Justified, TypeOK
<1>2. ChampionOf = Promise!ChampionNow /\ ChampionOf \in Nat
  BY <1>1, ChampionPromised
<1>3. "create" \in JournalOps /\ <<"create">> \in Seq(JournalOps)
  BY DEF JournalOps
<1>4. e \in EntryType
  BY <1>2, <1>3 DEF EntryType
<1>5. Outcome(e) = [ status |-> "active", before |-> ChampionOf, after |-> ChampionOf,
                     spent |-> 0, stage |-> "none", disposition |-> "none" ]
  BY DEF Outcome
<1>6. /\ rs \in Seq(OutcomeType) /\ Len(rs) = Len(entries) /\ Len(entries) \in Nat
      /\ DOMAIN rs = 1 .. Len(entries) /\ Outcome(e) \in OutcomeType
      /\ \A n \in 1 .. Len(entries) : rs[n] = Outcome(entries[n])
  BY <1>1, <1>4, RecordsAre, OutcomeIs
<1>7. \A n \in DOMAIN rs : rs[n].status # "active"
  BY <1>1, <1>6, LenProperties DEF Outcome, Active, Known
<1>8. RecordsOf(entries)' = Append(rs, Outcome(e))
  <2>1. RecordsOf(entries)' = RecordsOf(Append(entries, e))
    BY <1>1 DEF RecordsOf
  <2> QED BY <1>1, <1>4, <2>1, AppendRecord
<1>9. /\ Len(RecordsOf(entries)') = Len(rs) + 1
      /\ RecordsOf(entries)'[Len(rs) + 1].spent = 0
  <2>1. /\ Len(Append(rs, Outcome(e))) = Len(rs) + 1
        /\ Append(rs, Outcome(e))[Len(rs) + 1] = Outcome(e)
    BY <1>6, AppendProperties
  <2> QED BY <1>5, <1>8, <2>1
<1> HIDE DEF e
<1>10. Promise!CreateRecord(Len(rs) + 1, Promise!ChampionNow, 0)
  BY <1>2, <1>5, <1>7, <1>8 DEF Promise!CreateRecord, Promise!MayCreate, RecordsOf
<1> QED BY <1>9, <1>10 DEF Promise!OutcomeNext, RecordsOf

(* An operation of an open experiment only spends.                          *)
LEMMA SpendPromised ==
    ASSUME entries \in Seq(EntryType), Active(cur), NEW op \in JournalOps, NEW input,
           Advanced(entries[cur], op, input) \in EntryType,
           entries' = [entries EXCEPT ![cur] = Advanced(entries[cur], op, input)]
    PROVE  Promise!OutcomeNext
<1> DEFINE e == entries[cur]
           f == Advanced(e, op, input)
           rs == RecordsOf(entries)
<1>1. /\ cur \in 1 .. Len(entries) /\ e \in EntryType /\ e.status = "active" /\ Cost(op) \in Nat
      /\ f \in EntryType
  BY LenProperties, ElementOfSeq DEF Active, Known, Cost
<1>2. rs \in Seq(OutcomeType) /\ rs[cur] = Outcome(e) /\ cur \in DOMAIN rs /\ Len(rs) = Len(entries)
  BY <1>1, RecordsAre
<1>3. RecordsOf(entries') = [rs EXCEPT ![cur] = Outcome(f)]
  BY <1>1, ReplaceRecord
<1>4. /\ f.status = "active" /\ f.before = e.before /\ f.after = e.after
      /\ f.spent = e.spent + Cost(op) /\ f.disposition = e.disposition
  BY <1>1 DEF Advanced, EntryType
<1>5. Outcome(f) = [rs[cur] EXCEPT !.spent = e.spent + Cost(op)]
  BY <1>1, <1>2, <1>4 DEF Outcome
<1>6. rs[cur].spent = e.spent /\ Outcome(f).spent = e.spent + Cost(op) /\ rs[cur].status = "active"
  BY <1>1, <1>2, <1>4 DEF Outcome
<1>7. e.spent \in Nat
  BY <1>1 DEF EntryType
<1> HIDE DEF e, f
<1>8. Outcome(f).spent \in Nat /\ Outcome(f).spent >= rs[cur].spent
      /\ rs[cur].spent + (Outcome(f).spent - rs[cur].spent) = e.spent + Cost(op)
  BY <1>1, <1>6, <1>7
<1>9. RecordsOf(entries)' = [rs EXCEPT ![cur] = Outcome(f)]
  BY <1>3 DEF RecordsOf
<1>10. RecordsOf(entries)'[cur] = Outcome(f) /\ Len(RecordsOf(entries)') = Len(rs)
  <2>1. Outcome(f) \in OutcomeType
    BY <1>1, OutcomeIs
  <2> QED BY <1>2, <1>9, <2>1, ExceptSeq, LenProperties
<1>11. RecordsOf(entries)' = [rs EXCEPT ![cur].spent = @ + (Outcome(f).spent - rs[cur].spent)]
  BY <1>5, <1>8, <1>9
<1>12. Promise!SpendRecord(cur, Outcome(f).spent - rs[cur].spent)
  BY <1>2, <1>6, <1>11 DEF Promise!SpendRecord, Promise!IsOpen, Promise!Opened, RecordsOf
<1> QED BY <1>2, <1>8, <1>10, <1>12 DEF Promise!OutcomeNext, RecordsOf

(* A champion is one that a validation promoted. *)
LEMMA SealPromised ==
    ASSUME entries \in Seq(EntryType), Active(cur), cur \in Nat,
           SealedEntry(cur, entries[cur]) \in EntryType,
           entries' = [entries EXCEPT ![cur] = SealedEntry(cur, entries[cur])]
    PROVE  Promise!OutcomeNext
<1> DEFINE e == entries[cur]
           f == SealedEntry(cur, e)
           rs == RecordsOf(entries)
           stage == IF e.validation # None THEN "validation" ELSE "pre-validation"
<1>1. /\ cur \in 1 .. Len(entries) /\ e \in EntryType /\ e.status = "active" /\ f \in EntryType
  BY LenProperties, ElementOfSeq DEF Active, Known
<1>2. rs \in Seq(OutcomeType) /\ rs[cur] = Outcome(e) /\ cur \in DOMAIN rs
  BY <1>1, RecordsAre
<1>3. RecordsOf(entries') = [rs EXCEPT ![cur] = Outcome(f)]
  BY <1>1, ReplaceRecord
<1>4. /\ f.status = "sealed" /\ f.before = e.before /\ f.spent = e.spent
      /\ f.validation = e.validation /\ f.disposition = Expected(e)
      /\ f.after = IF Expected(e) = "promoted" THEN cur ELSE e.after
  BY <1>1 DEF SealedEntry, EntryType
<1>5. /\ Expected(e) \in Dispositions /\ Expected(e) # None
      /\ Expected(e) = "promoted" => stage = "validation"
  BY <1>1 DEF Expected, EntryType, ValidationResults, RepairResults, Dispositions
<1>6. /\ Outcome(f) = [rs[cur] EXCEPT !.status = "sealed", !.stage = stage,
                                      !.disposition = Expected(e),
                                      !.after = IF Expected(e) = "promoted" THEN cur ELSE @]
      /\ rs[cur].status = "active"
  <2>1. Outcome(e) = [ status |-> "active", before |-> e.before, after |-> e.after,
                       spent |-> e.spent, stage |-> "none",
                       disposition |-> Outcome(e).disposition ]
    BY <1>1 DEF Outcome
  <2>2. Outcome(f) = [ status |-> "sealed", before |-> e.before,
                       after |-> IF Expected(e) = "promoted" THEN cur ELSE e.after,
                       spent |-> e.spent, stage |-> stage, disposition |-> Expected(e) ]
    BY <1>4, <1>5 DEF Outcome
  <2> DEFINE a == IF Expected(e) = "promoted" THEN cur ELSE e.after
             d == Outcome(e).disposition
  <2>3. rs[cur].status = "active" /\ rs[cur].after = e.after
    BY <1>2, <2>1
  <2>4. Outcome(f) = [ status |-> "sealed", before |-> e.before, after |-> a,
                       spent |-> e.spent, stage |-> stage, disposition |-> Expected(e) ]
    BY <2>2
  <2>5. rs[cur] = [ status |-> "active", before |-> e.before, after |-> e.after,
                    spent |-> e.spent, stage |-> "none", disposition |-> d ]
    BY <1>2, <2>1
  <2>6. a = IF Expected(e) = "promoted" THEN cur ELSE rs[cur].after
    BY <2>3
  <2> HIDE DEF e, f, stage, a, d, rs
  <2>7. Outcome(f) = [rs[cur] EXCEPT !.status = "sealed", !.stage = stage,
                                     !.disposition = Expected(e), !.after = a]
    <3>1. PICK q1 : q1 = [rs[cur] EXCEPT !.status = "sealed"]
      OBVIOUS
    <3>2. PICK q2 : q2 = [q1 EXCEPT !.stage = stage]
      OBVIOUS
    <3>3. PICK q3 : q3 = [q2 EXCEPT !.disposition = Expected(e)]
      OBVIOUS
    <3>4. PICK q4 : q4 = [q3 EXCEPT !.after = a]
      OBVIOUS
    <3>5. q1 = [ status |-> "sealed", before |-> e.before, after |-> e.after,
                 spent |-> e.spent, stage |-> "none", disposition |-> d ]
      BY <2>5, <3>1
    <3>6. q2 = [ status |-> "sealed", before |-> e.before, after |-> e.after,
                 spent |-> e.spent, stage |-> stage, disposition |-> d ]
      BY <3>2, <3>5
    <3>7. q3 = [ status |-> "sealed", before |-> e.before, after |-> e.after,
                 spent |-> e.spent, stage |-> stage, disposition |-> Expected(e) ]
      BY <3>3, <3>6
    <3>8. q4 = Outcome(f)
      BY <2>4, <3>4, <3>7
    <3>9. q4 = [rs[cur] EXCEPT !.status = "sealed", !.stage = stage,
                               !.disposition = Expected(e), !.after = a]
      BY <3>1, <3>2, <3>3, <3>4
    <3> QED BY <3>8, <3>9
  <2> QED BY <2>3, <2>6, <2>7
<1>7. stage \in Promise!EvaluationStages /\ Expected(e) \in Promise!Dispositions
  BY <1>5 DEF Promise!EvaluationStages, Promise!Dispositions, Dispositions
<1> HIDE DEF e, f, stage
<1>8. RecordsOf(entries)' = [rs EXCEPT ![cur] = Outcome(f)]
  BY <1>3 DEF RecordsOf
<1>9. RecordsOf(entries)' =
         [rs EXCEPT ![cur].status = "sealed", ![cur].stage = stage,
                    ![cur].disposition = Expected(e),
                    ![cur].after = IF Expected(e) = "promoted" THEN cur ELSE @]
  BY <1>2, <1>6, <1>8
<1>10. Promise!SealRecord(cur, stage, Expected(e))
  BY <1>2, <1>5, <1>6, <1>9
  DEF Promise!SealRecord, Promise!IsOpen, Promise!Opened, RecordsOf, stage
<1> QED BY <1>2, <1>7, <1>10 DEF Promise!OutcomeNext, RecordsOf

(* An open experiment is interrupted.                                       *)
LEMMA InterruptPromised ==
    ASSUME entries \in Seq(EntryType), Active(cur), NEW why,
           InterruptedEntry(entries[cur], why) \in EntryType,
           entries' = [entries EXCEPT ![cur] = InterruptedEntry(entries[cur], why)]
    PROVE  Promise!OutcomeNext
<1> DEFINE e == entries[cur]
           f == InterruptedEntry(e, why)
           rs == RecordsOf(entries)
<1>1. /\ cur \in 1 .. Len(entries) /\ e \in EntryType /\ e.status = "active" /\ f \in EntryType
  BY LenProperties, ElementOfSeq DEF Active, Known
<1>2. rs \in Seq(OutcomeType) /\ rs[cur] = Outcome(e) /\ cur \in DOMAIN rs
  BY <1>1, RecordsAre
<1>3. RecordsOf(entries') = [rs EXCEPT ![cur] = Outcome(f)]
  BY <1>1, ReplaceRecord
<1>4. /\ f.status = "interrupted" /\ f.before = e.before /\ f.after = e.after
      /\ f.spent = e.spent /\ f.disposition = e.disposition
  BY <1>1 DEF InterruptedEntry, EntryType
<1>5. Outcome(f) = [rs[cur] EXCEPT !.status = "interrupted"] /\ rs[cur].status = "active"
  BY <1>1, <1>2, <1>4 DEF Outcome
<1> HIDE DEF e, f
<1>6. RecordsOf(entries)' = [rs EXCEPT ![cur] = Outcome(f)]
  BY <1>3 DEF RecordsOf
<1>7. RecordsOf(entries)' = [rs EXCEPT ![cur].status = "interrupted"]
  BY <1>5, <1>6
<1>8. Promise!InterruptRecord(cur)
  BY <1>2, <1>5, <1>7 DEF Promise!InterruptRecord, Promise!IsOpen, Promise!Opened, RecordsOf
<1> QED BY <1>2, <1>8 DEF Promise!OutcomeNext, RecordsOf

(* A step of the runner is one of the journal, or none.                    *)
LEMMA NextPromised ==
    ASSUME Inductive, Inductive', [Next]_vars
    PROVE  Promise!OutcomeNext \/ UNCHANGED RecordsOf(entries)
<1>1. /\ TypeOK /\ JournalInv /\ Located /\ entries \in Seq(EntryType)
      /\ entries' \in Seq(EntryType)
  BY DEF Inductive, TypeOK
<1>2. CASE UNCHANGED entries
  BY <1>2 DEF RecordsOf
<1>3. ASSUME NEW e, Known(cur), entries' = [entries EXCEPT ![cur] = e]
      PROVE  e \in EntryType
  <2>1. cur \in 1 .. Len(entries) /\ entries \in [1 .. Len(entries) -> EntryType]
    BY <1>1, <1>3, LenProperties DEF Known
  <2>2. DOMAIN entries' = 1 .. Len(entries) /\ entries'[cur] = e
    BY <1>3, <2>1
  <2>3. \A i \in DOMAIN entries' : entries'[i] \in EntryType
    BY <1>1, LenProperties
  <2> QED BY <2>1, <2>2, <2>3
<1>4. ASSUME At("commit"), Conclude(Subject)
      PROVE  Promise!OutcomeNext
  <2>1. At("commit")
    BY <1>4
  <2>2. ClaimedHere /\ pending # None /\ pending.op = Subject
    BY <1>1, <2>1 DEF Located, At, ClaimedHere
  <2>3. CASE Subject = "create"
    <3>1. CompleteCreate(cur, 0)
      BY <1>4, <2>3 DEF Conclude
    <3> QED BY <1>1, <2>2, <2>3, <3>1, CreatePromised
  <2>4. Subject # "create" => Known(cur) /\ Active(cur) /\ cur \in Nat
    BY <2>2, ClaimedPlaces DEF Numbers
  <2>5. CASE Subject = "seal"
    <3>1. entries' = [entries EXCEPT ![cur] = SealedEntry(cur, entries[cur])]
      BY <1>4, <2>5 DEF Conclude, CompleteSeal
    <3>2. SealedEntry(cur, entries[cur]) \in EntryType
      BY <1>3, <2>4, <2>5, <3>1
    <3> QED BY <1>1, <2>4, <2>5, <3>1, <3>2, SealPromised
  <2>6. CASE Subject \notin {"create", "seal"}
    <3>1. entries' = [entries EXCEPT ![cur] = Advanced(entries[cur], Subject, pending.input)]
      BY <1>4, <2>6 DEF Conclude, CompleteOp
    <3>2. Advanced(entries[cur], Subject, pending.input) \in EntryType
      BY <1>3, <2>4, <2>6, <3>1
    <3>3. Subject \in JournalOps
      BY <2>2, ClaimedPlaces
    <3> QED BY <1>1, <2>4, <2>6, <3>1, <3>2, <3>3, SpendPromised
  <2> QED BY <2>3, <2>5, <2>6
<1>5. ASSUME InterruptOp(cur, phase)
      PROVE  Promise!OutcomeNext
  <2>1. Active(cur) /\ entries' = [entries EXCEPT ![cur] = InterruptedEntry(entries[cur], phase)]
    BY <1>5 DEF InterruptOp, MayInterrupt
  <2>2. InterruptedEntry(entries[cur], phase) \in EntryType
    BY <1>3, <2>1 DEF Active
  <2> QED BY <1>1, <2>1, <2>2, InterruptPromised
<1>6. CASE Begin
  BY <1>2, <1>6 DEF Begin, BeginOp, journalVars
<1>7. CASE UNCHANGED journalVars
  BY <1>2, <1>7 DEF journalVars
<1>8. CASE AllocateDirectory \/ RecordEvent \/ WriteSealArtifacts \/ LookForAttestation
           \/ AppendSealEvent \/ InstallAttestation \/ VerifySeal
  BY <1>7, <1>8 DEF AllocateDirectory, RecordEvent, WriteSealArtifacts, LookForAttestation,
                    AppendSealEvent, InstallAttestation, VerifySeal, OnlyRun
<1>9. CASE PrepareLease \/ StartValidation \/ Claim \/ Bind \/ Evaluate \/ DisposeDecided
           \/ ClaimRelease \/ Publish \/ ReleaseRejected
  BY <1>7, <1>9 DEF PrepareLease, StartValidation, Claim, Bind, Evaluate, DisposeDecided,
                    ClaimRelease, Publish, ReleaseRejected, OnlyRun
<1>10. CASE FailLease \/ AbandonRepair \/ Catch \/ InterruptEvent
            \/ Complete \/ Thrown \/ Restart
  BY <1>7, <1>10 DEF FailLease, AbandonRepair, Catch, InterruptEvent, Complete, Thrown, Restart,
                     OnlyRun
<1>11. CASE RequestStop \/ CallFails \/ HandlerFails \/ Crash
  BY <1>7, <1>11 DEF RequestStop, CallFails, HandlerFails, Crash, OnlyRun
<1>12. CASE UNCHANGED vars
  BY <1>2, <1>12 DEF vars
<1>13. CASE Commit \/ Interrupt
  BY <1>4, <1>5, <1>7, <1>13 DEF Commit, Interrupt
<1>14. CASE AnswerLost \/ HandlerAnswerLost
  BY <1>4, <1>5, <1>7, <1>14 DEF AnswerLost, Effect, HandlerAnswerLost
<1> QED BY <1>6, <1>8, <1>9, <1>10, <1>11, <1>12, <1>13, <1>14
        DEF Next, Process, Environment, Over

(* The inductive invariant, for any number of experiments and of faults.   *)
THEOREM RunInductive == Spec => []Inductive
BY InitInductive, NextInductive, PTL DEF Spec

(* The states of the run, the journal, the evidence and the leases.        *)
THEOREM RunTypeOK == Spec => []TypeOK
<1>1. Inductive => TypeOK
  BY DEF Inductive
<1> QED BY <1>1, RunInductive, PTL

(* The evidence is ahead of the journal by the claimed operation at most,  *)
(* whatever crashed or was abandoned in between.                           *)
THEOREM RunWriteAhead == Spec => []WriteAhead
<1>1. Inductive => WriteAhead
  BY DEF Inductive, EvidenceInv
<1> QED BY <1>1, RunInductive, PTL

(* The seal chains of the journal and of the evidence store agree.         *)
THEOREM RunLineageAgrees == Spec => []LineageAgrees
<1>1. Inductive => LineageAgrees
  BY DEF Inductive, EvidenceInv
<1> QED BY <1>1, RunInductive, PTL

(* Every state passes the validation of the journal's next transaction.    *)
THEOREM RunJournalReadable == Spec => []JournalReadable
<1>1. Inductive => JournalReadable
  <2>1. ASSUME Inductive PROVE JournalReadable
    <3>1. TypeOK /\ JournalInv /\ DOMAIN entries = 1 .. Latest /\ Latest \in Nat
      BY <2>1, EntriesAre DEF Inductive
    <3>2. pending # None => IF pending.op = "create" THEN pending.number = Len(entries) + 1
                                                     ELSE Known(pending.number)
      BY <3>1 DEF JournalInv, Justified, Latest, Active
    <3>3. \A n, m \in DOMAIN entries : Active(n) /\ Active(m) => n = m
      BY <3>1 DEF JournalInv, Active
    <3> QED BY <3>1, <3>2, <3>3 DEF JournalReadable, Readable, JournalInv
  <2> QED BY <2>1
<1> QED BY <1>1, RunInductive, PTL

(* A brief that was released is charged, and nothing is charged that was   *)
(* not released.                                                           *)
THEOREM RunReleaseCharged == Spec => []ReleaseCharged
<1>1. Inductive => ReleaseCharged
  <2>1. ASSUME Inductive, NEW n \in DOMAIN entries
        PROVE  /\ Done(n, "diagnostic-budget") => Charged(n)
               /\ Sealed(n) /\ Charged(n) => Done(n, "diagnostic-budget")
    <3>1. JournalInv /\ LeaseInv /\ TypeOK /\ n \in Numbers
      BY <2>1, KnownIsLatest DEF Inductive
    <3>2. Charged(n) => Released(entries[n])
      BY <3>1 DEF LeaseInv, Charged
    <3> QED BY <3>1, <3>2 DEF JournalInv, LeaseInv
  <2> QED BY <2>1 DEF ReleaseCharged, Charged
<1> QED BY <1>1, RunInductive, PTL

(* A lease that was started is never prepared again, and one that was      *)
(* disposed keeps its outcome and its result.                              *)
THEOREM RunOneUse == Spec => OneUse
<1>1. Inductive /\ [Next]_vars =>
        [\A n \in Numbers, s \in Stages : Leased(n, s) =>
           /\ Status(n, s) # "prepared" => Status(n, s)' # "prepared"
           /\ Status(n, s) = "disposed" =>
                 /\ Lease(n, s)'.outcome = Lease(n, s).outcome
                 /\ Lease(n, s)'.result = Lease(n, s).result]_vars
  BY NextKeepsLeases DEF LeasesKept
<1> QED BY <1>1, RunInductive, PTL DEF Spec, OneUse

(* The journal keeps its promise to the campaign through every crash, stop *)
(* and failing call of a run.                                              *)
THEOREM RunKeepsPromise == Spec => KeepsPromise
<1>1. Init => Promise!OutcomeInit
  <2>1. Init => entries = <<>>
    BY DEF Init, JournalInit
  <2> QED BY <2>1, RecordsAre, EmptySeq DEF Promise!OutcomeInit
<1>2. Inductive /\ Inductive' /\ [Next]_vars =>
        [Promise!OutcomeNext]_[n \in DOMAIN entries |-> Outcome(entries[n])]
  BY NextPromised DEF RecordsOf
<1> QED BY <1>1, <1>2, RunInductive, PTL DEF Spec, KeepsPromise, Promise!OutcomeSpec

=============================================================================
