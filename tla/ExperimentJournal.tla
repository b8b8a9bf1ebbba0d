---------------------------- MODULE ExperimentJournal ----------------------------
(***************************************************************************)
(* The journal of the experiments (orchestrator/experiment-journal.ts).     *)
(* Every operation is claimed in the durable state, leaves its event in the *)
(* evidence store, and is committed with a receipt; a call repeated after a *)
(* crash is recognised by its receipt or goes on from its claim.  The       *)
(* commitment of an operation to its inputs is its name here: the callers   *)
(* repeat an operation with the inputs it was claimed with.                 *)
(*                                                                          *)
(* An experiment's phase is the last operation in "done", the sequence of   *)
(* its receipts.  Names of experiments are their numbers.                   *)
(***************************************************************************)
EXTENDS Experiments, Sequences, FiniteSets

VARIABLES
    entries,    \* experiment n is entries[n]
    pending,    \* the claimed operation [number, op, input], or None
    head        \* the last sealed experiment, 0 before

journalVars == <<entries, pending, head>>

Dispositions == {"promoted", "rejected", "inconclusive"}
RepairResults == {"passed", "rejected", "inconclusive"}

BudgetOps == {"gates-budget", "repair-budget", "pre-validation-budget",
              "validation-budget", "diagnostic-budget"}
Operations == {"proposal", "gates", "repair", "validation", "analysis"} \cup BudgetOps
JournalOps == Operations \cup {"create", "seal"}

(* What an operation reports: the result of a gate, a repair or a            *)
(* validation, and whether a validation releases evidence.                   *)
GateResults == {"passed", "failed"}
ValidationResults == [disposition : Dispositions, released : BOOLEAN]
Inputs(op) ==
    CASE op = "gates" -> GateResults
      [] op = "repair" -> RepairResults
      [] op = "validation" -> ValidationResults
      [] OTHER -> {None}

(* The phases of the runner that an interruption can name. *)
Phases == {"create", "optimizer-proposal", "cloud-correctness-gates", "repair",
           "fresh-validation", "consume-validation", "optimizer-analysis", "diagnostic-release"}

(* A record of the journal, and a claim. *)
EntryType ==
    [ status : {"active", "sealed", "interrupted"}, done : Seq(JournalOps),
      before : Nat, after : Nat, spent : Nat, gates : GateResults \cup {None},
      repair : RepairResults \cup {None}, validation : ValidationResults \cup {None},
      disposition : Dispositions \cup {None}, previous : Nat \cup {None},
      interruptedIn : Phases \cup {None} ]
ClaimType(op) == [number : Nat, op : {op}, input : Inputs(op)]

ASSUME JournalAssumption ==
    /\ None \notin JournalOps \cup Phases \cup Dispositions
    /\ None \notin GateResults \cup RepairResults \cup ValidationResults
    /\ \A op \in JournalOps : None \notin ClaimType(op)

----------------------------------------------------------------------------
Known(n) == n \in DOMAIN entries
Active(n) == Known(n) /\ entries[n].status = "active"
Sealed(n) == Known(n) /\ entries[n].status = "sealed"
Done(n, op) == Known(n) /\ \E i \in DOMAIN entries[n].done : entries[n].done[i] = op
Phase(n) == entries[n].done[Len(entries[n].done)]
Claimed(n, op, input) == pending = [number |-> n, op |-> op, input |-> input]

ChampionOf == IF entries = <<>> THEN 0 ELSE entries[Len(entries)].after

GatesPassed(e) == e.gates = "passed"
(* expectedDisposition. *)
Expected(e) ==
    IF e.validation # None THEN e.validation.disposition
    ELSE IF e.repair \notin {None, "passed"} THEN e.repair
    ELSE "rejected"
Released(e) == e.validation # None /\ e.validation.released

(* The phases an operation is allowed in, and what it demands of them. *)
ExpectedPhases ==
    [ op \in Operations |->
        CASE op = "proposal" -> {"create"}
          [] op = "gates" -> {"proposal"}
          [] op = "gates-budget" -> {"gates"}
          [] op = "repair" -> {"gates-budget"}
          [] op = "repair-budget" -> {"repair"}
          [] op = "pre-validation-budget" -> {"gates-budget", "repair-budget"}
          [] op = "validation-budget" -> {"pre-validation-budget"}
          [] op = "validation" -> {"validation-budget"}
          [] op = "analysis" -> {"gates-budget", "repair-budget", "validation"}
          [] op = "diagnostic-budget" -> {"analysis"} ]

Demanded(n, op) ==
    LET e == entries[n] IN
    CASE op = "repair" -> n # 1 /\ GatesPassed(e)
      [] op = "pre-validation-budget" -> GatesPassed(e) /\ (n > 1 => e.repair = "passed")
      [] op = "analysis" -> /\ Phase(n) = "gates-budget" => ~GatesPassed(e)
                            /\ Phase(n) = "repair-budget" => e.repair # "passed"
      [] op = "diagnostic-budget" -> Released(e)
      [] OTHER -> TRUE

ValidCreate(n, champion) ==
    /\ n = Len(entries) + 1
    /\ champion = ChampionOf
    /\ \A m \in DOMAIN entries : entries[m].status # "active"
ValidOperation(n, op) ==
    /\ Active(n)
    /\ Phase(n) \in ExpectedPhases[op]
    /\ Demanded(n, op)
ValidSeal(n) ==
    /\ Active(n)
    /\ Phase(n) \in {"analysis", "diagnostic-budget"}
    /\ Released(entries[n]) <=> Done(n, "diagnostic-budget")

Valid(n, op) == CASE op = "create" -> ValidCreate(n, ChampionOf)
                  [] op = "seal" -> ValidSeal(n)
                  [] OTHER -> ValidOperation(n, op)

----------------------------------------------------------------------------
(* begin: claim the operation, or go on with the claim.                      *)
MayBegin(n, op, input) ==
    /\ ~Done(n, op)
    /\ pending = None \/ Claimed(n, op, input)
    /\ Valid(n, op)

BeginOp(n, op, input) ==
    /\ MayBegin(n, op, input)
    /\ pending' = [number |-> n, op |-> op, input |-> input]
    /\ UNCHANGED <<entries, head>>

(* complete: the claim becomes a receipt. *)
CompleteCreate(n, used) ==
    /\ Claimed(n, "create", None) /\ ~Known(n)
    /\ entries' = Append(entries,
          [ status |-> "active", done |-> <<"create">>, before |-> ChampionOf,
            after |-> ChampionOf, spent |-> used, gates |-> None, repair |-> None,
            validation |-> None, disposition |-> None, previous |-> None,
            interruptedIn |-> None ])
    /\ pending' = None
    /\ UNCHANGED head

Cost(op) == IF op \in {"gates-budget", "repair-budget", "validation-budget"} THEN 1 ELSE 0

Advanced(e, op, input) ==
    [e EXCEPT !.done = Append(@, op), !.spent = @ + Cost(op),
              !.gates = IF op = "gates" THEN input ELSE @,
              !.repair = IF op = "repair" THEN input ELSE @,
              !.validation = IF op = "validation" THEN input ELSE @]

CompleteOp(n, op, input) ==
    /\ Known(n) /\ Claimed(n, op, input) /\ ~Done(n, op)
    /\ entries' = [entries EXCEPT ![n] = Advanced(@, op, input)]
    /\ pending' = None
    /\ UNCHANGED head

(* Fault: the champion moves whatever the disposition. *)
SealedEntry_Moves(n, e) == [e EXCEPT !.status = "sealed", !.done = Append(@, "seal"),
                                     !.disposition = Expected(e), !.previous = head,
                                     !.after = n]

(* The champion moves to a promoted candidate with the seal. *)
SealedEntry(n, e) ==
    [e EXCEPT !.status = "sealed", !.done = Append(@, "seal"),
              !.disposition = Expected(e), !.previous = head,
              !.after = IF Expected(e) = "promoted" THEN n ELSE @]
CompleteSeal(n) ==
    /\ Known(n) /\ Claimed(n, "seal", None) /\ ~Done(n, "seal")
    /\ entries' = [entries EXCEPT ![n] = SealedEntry(n, @)]
    /\ pending' = None /\ head' = n

(* interrupt: the claim of the experiment, if any, is abandoned. *)
(* Fault: any experiment of the journal may be interrupted. *)
MayInterrupt_Sealed(n) == Known(n) /\ (pending # None => pending.number = n)
MayInterrupt(n) == Active(n) /\ (pending # None => pending.number = n)
InterruptedEntry(e, phase) == [e EXCEPT !.status = "interrupted", !.interruptedIn = phase]
(* Fault: the claim stays. *)
InterruptOp_KeepsClaim(n, phase) ==
    /\ MayInterrupt(n)
    /\ entries' = [entries EXCEPT ![n] = InterruptedEntry(@, phase)]
    /\ UNCHANGED <<pending, head>>
InterruptOp(n, phase) ==
    /\ MayInterrupt(n)
    /\ entries' = [entries EXCEPT ![n] = InterruptedEntry(@, phase)]
    /\ pending' = None
    /\ UNCHANGED head

----------------------------------------------------------------------------
JournalInit == entries = <<>> /\ pending = None /\ head = 0

JournalNext ==
    \/ \E n \in 1 .. Len(entries) + 1, op \in JournalOps :
          \E input \in Inputs(op) : BeginOp(n, op, input)
    \/ CompleteCreate(Len(entries) + 1, 0)
    \/ \E n \in DOMAIN entries :
          \/ \E op \in Operations : \E input \in Inputs(op) : CompleteOp(n, op, input)
          \/ CompleteSeal(n)
          \/ \E phase \in Phases : InterruptOp(n, phase)

JournalSpec == JournalInit /\ [][JournalNext]_journalVars

----------------------------------------------------------------------------
(* What every transaction asserts of the state it read before it goes on     *)
(* (assertDurableExperimentJournalState): a state an operation commits must   *)
(* pass it, or the journal accepts nothing any more.                          *)
Readable ==
    /\ pending # None => IF pending.op = "create" THEN pending.number = Len(entries) + 1
                                                  ELSE Known(pending.number)
    /\ \A n, m \in DOMAIN entries : Active(n) /\ Active(m) => n = m
    /\ \A n \in DOMAIN entries :
          /\ entries[n].before = IF n = 1 THEN 0 ELSE entries[n - 1].after
          /\ Sealed(n) => Released(entries[n]) <=> Done(n, "diagnostic-budget")
          /\ Sealed(n) => entries[n].after = IF entries[n].disposition = "promoted"
                                             THEN n ELSE entries[n].before
    /\ IF head = 0 THEN \A n \in DOMAIN entries : ~Sealed(n)
       ELSE Sealed(head) /\ \A n \in DOMAIN entries : Sealed(n) => n <= head

(* The journal keeps what JournalOutcome promises to the campaign.           *)
Outcome(e) == [ status |-> e.status, before |-> e.before, after |-> e.after,
                spent |-> e.spent,
                stage |-> IF e.status # "sealed" THEN "none"
                          ELSE IF e.validation # None THEN "validation" ELSE "pre-validation",
                disposition |-> IF e.disposition = None THEN "none" ELSE e.disposition ]
Promise == INSTANCE JournalOutcome WITH records <- [n \in DOMAIN entries |-> Outcome(entries[n])]
KeepsPromise == Promise!OutcomeSpec
=============================================================================
