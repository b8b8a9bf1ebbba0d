----------------------------- MODULE JournalOutcome -----------------------------
(***************************************************************************)
(* What the experiment journal promises to the campaign, without its        *)
(* phases, claims and evidence: experiments are numbered without a gap, one *)
(* at a time is open, an open one only spends, and it ends once, sealed     *)
(* with a disposition or interrupted.  ExperimentJournal implements it.     *)
(***************************************************************************)
EXTENDS Integers, Sequences

VARIABLE records        \* experiment n is records[n]

Dispositions == {"promoted", "rejected", "inconclusive"}
EvaluationStages == {"pre-validation", "validation"}

(* The champion the next experiment must start from. *)
ChampionNow == IF records = <<>> THEN 0 ELSE records[Len(records)].after

Opened(n) == n \in DOMAIN records
IsSealed(n) == Opened(n) /\ records[n].status = "sealed"
IsOpen(n) == Opened(n) /\ records[n].status = "active"

OutcomeInit == records = <<>>

MayCreate(n, champion) ==
    /\ n = Len(records) + 1
    /\ champion = ChampionNow
    /\ \A m \in DOMAIN records : records[m].status # "active"
CreateRecord(n, champion, used) ==
    /\ MayCreate(n, champion)
    /\ records' = Append(records,
          [ status |-> "active", before |-> champion, after |-> champion,
            spent |-> used, stage |-> "none", disposition |-> "none" ])

SpendRecord(n, amount) ==
    /\ IsOpen(n)
    /\ records' = [records EXCEPT ![n].spent = @ + amount]

(* Only a validated experiment is promoted, and it becomes the champion. *)
SealRecord(n, stage, disposition) ==
    /\ IsOpen(n)
    /\ disposition = "promoted" => stage = "validation"
    /\ records' = [records EXCEPT
          ![n].status = "sealed", ![n].stage = stage,
          ![n].disposition = disposition,
          ![n].after = IF disposition = "promoted" THEN n ELSE @]

InterruptRecord(n) ==
    /\ IsOpen(n)
    /\ records' = [records EXCEPT ![n].status = "interrupted"]

OutcomeNext ==
    \/ /\ Len(records') = Len(records) + 1
       /\ CreateRecord(Len(records) + 1, ChampionNow, records'[Len(records) + 1].spent)
    \/ \E n \in DOMAIN records :
          \/ /\ Len(records') = Len(records)
             /\ records'[n].spent \in Nat
             /\ records'[n].spent >= records[n].spent
             /\ SpendRecord(n, records'[n].spent - records[n].spent)
          \/ \E stage \in EvaluationStages, d \in Dispositions : SealRecord(n, stage, d)
          \/ InterruptRecord(n)

OutcomeSpec == OutcomeInit /\ [][OutcomeNext]_records
=============================================================================
