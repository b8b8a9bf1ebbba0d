------------------------ MODULE TrustedEvaluation_proofs ------------------------
(***************************************************************************)
(* The proofs about TrustedEvaluation: for any controllers and any number  *)
(* of overlapping calls of each, the ledger and the recovery record agree, *)
(* and the evaluator keeps the promise of OneUseRequest; and if each works *)
(* on one call at a time, nothing is left that could release.              *)
(*                                                                         *)
(* The argument: whoever acts for the claim is a live call of its owner,   *)
(* for a claim only changes hands when its owner is terminated; the call   *)
(* that acquired it is alone, for a takeover marks the claim; and the      *)
(* record only moves on from what any call has read of it.                 *)
(***************************************************************************)
EXTENDS TrustedEvaluation, TLAPS

(* The calls that act for the claim: the first evaluation in its body, a   *)
(* release that is being finished, the catch block.                        *)
Alone == {"bind", "run", "derive", "destroy", "create"}
Finishing == {"finalize", "consume", "finalized", "mark-consumed", "mark-finalized", "issue"}
Ending == {"mark-completed", "mark-inspected"}
Undoing == {"orphan", "abandon", "mark-abandoned", "mark-cleaned"}
Acting == Alone \cup Finishing \cup {"complete", "check", "inspect"} \cup Ending \cup Undoing
          \cup {"cleanup", "discard", "fail-record", "consume-claim"}
TakingOver == {"takeover", "rotate"}
Places == Acting \cup TakingOver \cup {"idle", "down", "lookup", "answer"}

(* What a call knows of the record is what the record was. *)
Behind(r) ==
    /\ Consistent(r) /\ record # None
    /\ r.envelope # None => record.envelope = r.envelope
    /\ r.status # "open" => record.status # "open"
    /\ r.status \in {"completed", "failed"} => record = r

Working(c, l) ==
    /\ claim.owner = Controller(c)
    /\ l.recovering <=> claim.recovered # None
    /\ l.recovering \/ l.finalization => l.record # None
    /\ ~l.recovering => claim.status # "consumed" /\ (~l.checkpoint => record = None)

IsIssued(l) == l.record # None /\ l.record.status = "result-issued" /\ l.envelope = l.record.envelope
IsAnswer(l) == claim.status = "completed" /\ claim.envelope = l.envelope

(* What a call may rely on at a place. *)
Ready(c, p, l) ==
    /\ p \in Places
    /\ p = "down" <=> Controller(c) \in terminated
    /\ p \notin {"idle", "down"} => claim # None
    /\ l.record # None => Behind(l.record)
    /\ p \in Acting => Working(c, l)
    /\ p \in Alone => ~l.recovering /\ ~l.checkpoint /\ runs = IF p \in {"bind", "run"} THEN 0 ELSE 1
    /\ p \in Alone \cup Finishing \cup TakingOver \cup {"check", "complete"} => ~l.attempted
    /\ p \in Finishing => l.record # None /\ l.record.status = "open"
    /\ p = "check" => /\ l.record.status \in {"open", "result-issued"}
                      /\ l.recovering /\ l.envelope = l.record.envelope
    /\ p \in {"complete", "inspect"} \cup Ending => IsIssued(l)
    /\ p \in Ending \cup {"answer"} => IsAnswer(l)
    /\ p \in Undoing => l.record # None
    /\ p = "consume-claim" => record = None \/ record.status = "failed"
    /\ p \in TakingOver => l.recovering /\ l.record # None /\ l.envelope = l.record.envelope
    /\ p = "rotate" => /\ l.token <= claim.token
                       /\ l.token = claim.token => claim.owner \in terminated
    /\ p = "answer" => (l.recovering => l.record # None)

First(c) == pc[c] \in Acting /\ ~local[c].recovering

(* The ledger, the record and the runs. *)
Story ==
    /\ claim \in Claims(Records) \cup {None} /\ runs \in Nat
    /\ record \in Records \cup {None} /\ (record # None => Consistent(record))
    /\ claim # None /\ claim.status = "completed" =>
          record # None /\ record.status # "open" /\ record.envelope = claim.envelope
    /\ claim # None /\ claim.status = "completed" => claim.envelope # None
    /\ claim # None /\ claim.status = "consumed" => record = None \/ record.status = "failed"
    /\ record # None /\ record.status = "completed" => claim # None /\ claim.status = "completed"
    /\ claim = None => record = None /\ runs = 0
    /\ record # None => runs = 1

Typed ==
    /\ terminated \subseteq Controllers
    /\ preparation \in Preparations
    /\ bundle \in {"absent", "visible", "orphaned"}
    /\ raw \in {"none", "held", "destroyed"}
    /\ answers \subseteq Envelopes
    /\ faults \in 0 .. MaxFaults

CallsInv ==
    /\ pc \in [Calls -> Places] /\ local \in [Calls -> Locals]
    /\ \A c \in Calls : Ready(c, pc[c], local[c])
    /\ \A c, d \in Calls : First(c) /\ First(d) => c = d

Inductive == Story /\ Typed /\ CallsInv

USE BoundAssumption, NoneAssumption

---------------------------------------------------------------------------
(* Calls *)

(* Where a step leaves the call that takes it, and the others. *)
Lands(c, l) ==
    \E p \in Places, m \in Locals :
        /\ Go(c, p, m) /\ Ready(c, p, m)'
        /\ p \in Acting => m.recovering = l.recovering /\ pc[c] \in Acting \cup TakingOver
OthersStay(c) ==
    \A d \in Calls : d # c => \A q, m : q = pc[d] /\ m = local[d] => Ready(d, q, m)'

(* What is known of the call that takes a step.                             *)
LEMMA CallOf ==
    ASSUME Inductive, NEW c \in Calls, NEW l, l = local[c], NEW p, p = pc[c]
    PROVE  l \in Locals /\ p \in Places /\ Ready(c, p, l) /\ Controller(c) \in Controllers
BY DEF Inductive, CallsInv, Calls, Controller

(* A call moves to a place it is ready for, and the others stay ready.      *)
LEMMA CallsMove ==
    ASSUME Inductive, NEW c \in Calls, NEW l, l = local[c], Lands(c, l), OthersStay(c)
    PROVE  CallsInv'
<1>1. PICK p \in Places, m \in Locals :
         /\ Go(c, p, m) /\ Ready(c, p, m)'
         /\ p \in Acting => m.recovering = l.recovering /\ pc[c] \in Acting \cup TakingOver
  BY DEF Lands
<1>2. /\ pc \in [Calls -> Places] /\ local \in [Calls -> Locals]
      /\ \A d \in Calls : Ready(d, pc[d], local[d])
      /\ \A d, e \in Calls : First(d) /\ First(e) => d = e
  BY DEF Inductive, CallsInv
<1>3. /\ pc' = [pc EXCEPT ![c] = p] /\ local' = [local EXCEPT ![c] = m]
  BY <1>1 DEF Go
<1>4. /\ pc' \in [Calls -> Places] /\ local' \in [Calls -> Locals]
      /\ pc'[c] = p /\ local'[c] = m
      /\ \A d \in Calls : d # c => pc'[d] = pc[d] /\ local'[d] = local[d]
  BY <1>2, <1>3
<1>5. ASSUME NEW d \in Calls PROVE Ready(d, pc[d], local[d])'
  <2>1. PICK q, k : q = pc'[d] /\ k = local'[d]
    OBVIOUS
  <2>2. Ready(d, q, k)'
    <3>1. CASE d = c
      BY <1>1, <1>4, <2>1, <3>1
    <3>2. CASE d # c
      BY <1>4, <2>1, <3>2 DEF OthersStay
    <3> QED BY <3>1, <3>2
  <2> QED BY <2>1, <2>2 DEF Ready, Working, IsIssued, IsAnswer
<1>6. ASSUME NEW d \in Calls PROVE First(d)' => First(d)
  <2>1. CASE d = c
    <3>1. Ready(c, pc[c], l)
      BY <1>2
    <3> QED BY <1>1, <1>4, <2>1, <3>1 DEF First, Ready, TakingOver
  <2>2. CASE d # c
    BY <1>4, <2>2 DEF First
  <2> QED BY <2>1, <2>2
<1> QED BY <1>2, <1>4, <1>5, <1>6 DEF CallsInv

---------------------------------------------------------------------------
(* Steps that leave the claim, the record and the runs alone *)

(* A call's readiness depends on claim, authority, record and runs.         *)
LEMMA SameReady ==
    ASSUME UNCHANGED <<claim, terminated, record, runs>>, NEW d, NEW q, NEW m
    PROVE  Ready(d, q, m)' <=> Ready(d, q, m)
BY DEF Ready, Working, Behind, IsIssued, IsAnswer

(* So does the story, but for the authority.                                *)
LEMMA SameStory ==
    ASSUME Story, UNCHANGED <<claim, record, runs>>
    PROVE  Story'
BY DEF Story

(* A step that writes none of them leaves the other calls ready.            *)
LEMMA SameOthers ==
    ASSUME Inductive, NEW c \in Calls, UNCHANGED <<claim, terminated, record, runs>>
    PROVE  OthersStay(c)
<1>1. ASSUME NEW d \in Calls, NEW q, NEW m, q = pc[d], m = local[d]
      PROVE  Ready(d, q, m)'
  <2>1. Ready(d, q, m)
    BY <1>1 DEF Inductive, CallsInv
  <2> QED BY <2>1, SameReady
<1> QED BY <1>1 DEF OthersStay

(* A fault is counted. *)
LEMMA FaultsCounted ==
    ASSUME Typed, Ok \/ Trouble
    PROVE  faults' \in 0 .. MaxFaults
BY DEF Typed, Ok, Trouble

---------------------------------------------------------------------------
(* The catch block *)

(* What it needs of the call that enters it. *)
Caught(c, l) ==
    /\ l \in Locals
    /\ claim # None /\ Controller(c) \notin terminated
    /\ l.record # None => Behind(l.record)
    /\ Working(c, l)
Enters(c, l, m) ==
    l = local[c] /\ m.recovering = l.recovering /\ pc[c] \in Acting \cup TakingOver

(* A call starts knowing nothing.                                           *)
LEMMA NoCallIs ==
    /\ NoCall \in Locals /\ NoCall.record = None /\ NoCall.recovering = FALSE
    /\ NoCall.attempted = FALSE /\ NoCall.checkpoint = FALSE /\ NoCall.finalization = FALSE
BY DEF NoCall, Locals

(* A call that throws is over.                                              *)
LEMMA ThrowLands ==
    ASSUME NEW c \in Calls, NEW l, Controller(c) \notin terminated', Throw(c)
    PROVE  Lands(c, l)
<1>1. NoCall \in Locals /\ NoCall.record = None
  BY DEF NoCall, Locals
<1>2. Ready(c, "idle", NoCall)'
  BY <1>1 DEF Ready, Places, Acting, Alone, Finishing, Ending, Undoing, TakingOver
<1>3. "idle" \in Places /\ "idle" \notin Acting
  BY DEF Places, Acting, Alone, Finishing, Ending, Undoing
<1> QED BY <1>1, <1>2, <1>3 DEF Throw, Lands

(* Where a caught call may go. *)
LEMMA CaughtReady ==
    ASSUME NEW c, NEW m, Caught(c, m)', NEW p,
           \/ p \in {"cleanup", "discard", "fail-record"}
           \/ p \in Undoing /\ m.record # None
           \/ p = "inspect" /\ IsIssued(m)
    PROVE  Ready(c, p, m)' /\ p \in Places /\ p \in Acting
BY DEF Caught, Ready, Places, Acting, Alone, Finishing, Ending, Undoing, TakingOver

(* The catch block begins to undo what was prepared.                        *)
LEMMA UndoLands ==
    ASSUME NEW c \in Calls, NEW l, NEW m, Enters(c, l, m), Caught(c, m)', Undo(c, m)
    PROVE  Lands(c, l)
<1>1. PICK p : p = IF m.known /\ HasFinalization(m) THEN "orphan" ELSE "cleanup"
  OBVIOUS
<1>2. Go(c, p, m) /\ m \in Locals
  BY <1>1 DEF Undo, Caught
<1>3. p = "orphan" => m.record # None
  BY <1>1 DEF Caught, Working, HasFinalization, Locals
<1>4. Ready(c, p, m)' /\ p \in Places /\ p \in Acting
  <2>1. \/ p \in {"cleanup", "discard", "fail-record"}
        \/ p \in Undoing /\ m.record # None
    BY <1>1, <1>3 DEF Undoing
  <2> QED BY <2>1, CaughtReady
<1> QED BY <1>2, <1>4 DEF Lands, Enters

(* An error leads to the catch block, or to an inspection of the claim.     *)
LEMMA RaiseLands ==
    ASSUME NEW c \in Calls, NEW l, NEW m, Enters(c, l, m), Caught(c, m)',
           m.attempted => IsIssued(m), Raise(c, m)
    PROVE  Lands(c, l)
<1>1. CASE m.attempted
  <2>1. Go(c, "inspect", m) /\ m \in Locals
    BY <1>1 DEF Raise, Caught
  <2>2. Ready(c, "inspect", m)' /\ "inspect" \in Places /\ "inspect" \in Acting
    BY <1>1, CaughtReady
  <2> QED BY <2>1, <2>2 DEF Lands, Enters
<1>2. CASE ~m.attempted
  <2>1. PICK k : k = [m EXCEPT !.known = m.recovering \/ m.finalizing # "unsafe-to-consume"]
    OBVIOUS
  <2>2. Undo(c, k)
    BY <1>2, <2>1 DEF Raise
  <2>3. /\ k \in Locals /\ k.record = m.record /\ k.recovering = m.recovering
        /\ k.finalization = m.finalization /\ k.checkpoint = m.checkpoint
    BY <2>1 DEF Caught, Locals
  <2>4. Caught(c, k)' /\ Enters(c, l, k)
    BY <2>3 DEF Caught, Working, Enters
  <2> QED BY <2>2, <2>4, UndoLands
<1> QED BY <1>1, <1>2

(* The catch block ends: with the raw results, the record, or the error.    *)
LEMMA FinishLands ==
    ASSUME NEW c \in Calls, NEW l, NEW m, Enters(c, l, m), Caught(c, m)', Finish(c, m)
    PROVE  Lands(c, l)
<1>1. CASE Throw(c)
  BY <1>1, ThrowLands DEF Caught
<1>2. ASSUME NEW p \in {"discard", "fail-record"}, Go(c, p, m)
      PROVE  Lands(c, l)
  <2>1. Ready(c, p, m)' /\ p \in Places /\ p \in Acting /\ m \in Locals
    BY CaughtReady DEF Caught
  <2> QED BY <1>2, <2>1 DEF Lands, Enters
<1> QED BY <1>1, <1>2 DEF Finish

---------------------------------------------------------------------------
(* The recovery record *)

OnRecord == UNCHANGED <<claim, terminated, preparation, bundle, raw, runs>>

(* An advanced record is the one a call meant, and keeps what calls know.  *)
LEMMA Advances ==
    ASSUME Story, NEW prior, Behind(prior), NEW next \in Records,
           MayAdvance(prior, next), Advance(next)
    PROVE  /\ record # None /\ record' = next /\ record' # None /\ Consistent(next)
           /\ record.status \in {"completed", "failed"} => record' = record
           /\ record.status # "open" => record'.status # "open"
           /\ record.envelope # None => record'.envelope = record.envelope
<1>1. /\ record # None /\ Consistent(record) /\ record \in Records
      /\ None \notin Records /\ record' = next
  BY DEF Story, Behind, Advance
<1>2. CASE record = next
  BY <1>1, <1>2
<1>3. CASE record = prior /\ Transition(prior, next)
  BY <1>1, <1>3 DEF Transition, StatusTransition, Statuses, Records
<1> QED BY <1>1, <1>2, <1>3 DEF MayAdvance

(* A record that moves on from what a call has read keeps the story, and    *)
(* everybody's readiness.                                                   *)
LEMMA MarkKeeps ==
    ASSUME Inductive, NEW prior, Behind(prior), NEW next \in Records,
           MayAdvance(prior, next), Advance(next), OnRecord,
           next.status = "completed" => claim # None /\ claim.status = "completed"
    PROVE  /\ Story' /\ Behind(next)' /\ next = record'
           /\ \A d, q, m : Ready(d, q, m) => Ready(d, q, m)'
<1>1. /\ record # None /\ record' = next /\ record' # None /\ Consistent(next)
      /\ record.status \in {"completed", "failed"} => record' = record
      /\ record.status # "open" => record'.status # "open"
      /\ record.envelope # None => record'.envelope = record.envelope
  BY Advances DEF Inductive
<1>2. /\ Story /\ record \in Records /\ Consistent(record)
  BY <1>1 DEF Inductive, Story
<1>3. UNCHANGED <<claim, terminated, runs>>
  BY DEF OnRecord
<1>4. Story'
  <2>1. /\ claim' \in Claims(Records) \cup {None} /\ runs' \in Nat
        /\ record' \in Records \cup {None} /\ (record' # None => Consistent(record'))
        /\ (record' # None => runs' = 1) /\ (claim' = None => record' = None /\ runs' = 0)
    BY <1>1, <1>2, <1>3 DEF Story
  <2>2. claim' # None /\ claim'.status = "completed" =>
            /\ record' # None /\ record'.status # "open" /\ record'.envelope = claim'.envelope
            /\ claim'.envelope # None
    BY <1>1, <1>2, <1>3 DEF Story, Consistent, Records, Statuses
  <2>3. claim' # None /\ claim'.status = "consumed" => record' = None \/ record'.status = "failed"
    BY <1>1, <1>2, <1>3 DEF Story
  <2>4. record' # None /\ record'.status = "completed" => claim' # None /\ claim'.status = "completed"
    BY <1>1, <1>2, <1>3 DEF Story
  <2> QED BY <2>1, <2>2, <2>3, <2>4 DEF Story
<1>5. \A r : Behind(r) => Behind(r)'
  BY <1>1, <1>2 DEF Behind
<1>6. Behind(next)'
  BY <1>1 DEF Behind
<1>7. ASSUME NEW d, NEW q, NEW m, Ready(d, q, m) PROVE Ready(d, q, m)'
  <2>1. m.record # None => Behind(m.record)'
    BY <1>5, <1>7 DEF Ready
  <2>2. Working(d, m) => Working(d, m)'
    BY <1>1, <1>3 DEF Working
  <2>3. q = "consume-claim" => record'.status = "failed"
    BY <1>1, <1>7 DEF Ready
  <2> QED BY <1>1, <1>3, <1>7, <2>1, <2>2, <2>3 DEF Ready, IsAnswer, IsIssued
<1> QED BY <1>1, <1>4, <1>6, <1>7

(* A mark that is done, or that fails, done or not done. *)
LEMMA MarkStep ==
    ASSUME Inductive, NEW c \in Calls, NEW prior, Behind(prior), NEW next \in Records,
           next.status = "completed" => claim # None /\ claim.status = "completed",
           OnRecord, (MayAdvance(prior, next) /\ Advance(next)) \/ UNCHANGED record
    PROVE  /\ Story' /\ OthersStay(c)
           /\ \A d, q, m : Ready(d, q, m) => Ready(d, q, m)'
           /\ MayAdvance(prior, next) /\ Advance(next) => Behind(next)' /\ next = record'
<1>1. Story' /\ \A d, q, m : Ready(d, q, m) => Ready(d, q, m)'
  <2>1. CASE MayAdvance(prior, next) /\ Advance(next)
    BY <2>1, MarkKeeps
  <2>2. CASE UNCHANGED record
    <3>1. UNCHANGED <<claim, terminated, record, runs>>
      BY <2>2 DEF OnRecord
    <3> QED BY <3>1, SameReady, SameStory DEF Inductive
  <2> QED BY <2>1, <2>2
<1>2. OthersStay(c)
  BY <1>1 DEF OthersStay, Inductive, CallsInv
<1>3. MayAdvance(prior, next) /\ Advance(next) => Behind(next)' /\ next = record'
  BY MarkKeeps
<1> QED BY <1>1, <1>2, <1>3

(* A call that stays where it acts is caught there. *)
LEMMA CaughtThen ==
    ASSUME Inductive, NEW c \in Calls, NEW l, l = local[c], NEW p, p = pc[c],
           p \in Acting, \A d, q, m : Ready(d, q, m) => Ready(d, q, m)'
    PROVE  /\ Caught(c, l)' /\ Enters(c, l, l) /\ Ready(c, p, l)
           /\ l \in Locals /\ Controller(c) \in Controllers
<1>1. Ready(c, p, l) /\ Ready(c, p, l)' /\ l \in Locals /\ Controller(c) \in Controllers
  BY CallOf
<1>2. p # "down" /\ p \notin {"idle", "down"}
  BY DEF Acting, Alone, Finishing, Ending, Undoing
<1> QED BY <1>1, <1>2 DEF Caught, Enters, Ready

(* What the catch block changes of its variables does not matter to them. *)
LEMMA CaughtSame ==
    ASSUME NEW c, NEW l, NEW m \in Locals, Caught(c, l)',
           m.recovering = l.recovering, m.checkpoint = l.checkpoint,
           m.finalization = l.finalization,
           m.record = l.record
    PROVE  Caught(c, m)'
BY DEF Caught, Working

(* The catch block may go on with a record that has moved on.               *)
LEMMA CaughtMarked ==
    ASSUME NEW c, NEW l, NEW m \in Locals, Caught(c, l)',
           m.recovering = l.recovering, m.checkpoint = l.checkpoint,
           m.finalization = l.finalization,
           Behind(m.record)', m.record # None
    PROVE  Caught(c, m)'
BY DEF Caught, Working

(* The catch block may note what it has done.                               *)
LEMMA CaughtWith ==
    ASSUME NEW c, NEW l, NEW k, Caught(c, k)', Enters(c, l, k), NEW b \in BOOLEAN, NEW m,
           m \in {[k EXCEPT !.known = b], [k EXCEPT !.orphaned = b], [k EXCEPT !.clean = b]}
    PROVE  /\ Caught(c, m)' /\ Enters(c, l, m) /\ m \in Locals
           /\ m.record = k.record /\ m.recovering = k.recovering
<1>1. /\ m \in Locals /\ m.record = k.record /\ m.recovering = k.recovering
      /\ m.finalization = k.finalization /\ m.checkpoint = k.checkpoint
  BY DEF Caught, Locals
<1>2. Caught(c, m)'
  BY <1>1, CaughtSame
<1> QED BY <1>1, <1>2 DEF Enters

(* What is known after a step that writes no claim, record or run.          *)
LEMMA QuietStep ==
    ASSUME Inductive, NEW c \in Calls, NEW l, l = local[c], NEW p, p = pc[c], p \in Acting,
           UNCHANGED <<claim, terminated, record, runs>>
    PROVE  /\ Story' /\ OthersStay(c) /\ Caught(c, l)' /\ Enters(c, l, l) /\ Ready(c, p, l)
           /\ l \in Locals /\ Controller(c) \in Controllers /\ Controller(c) \notin terminated'
<1>1. \A d, q, m : Ready(d, q, m) => Ready(d, q, m)'
  BY SameReady
<1>2. Story' /\ OthersStay(c)
  BY SameStory, SameOthers DEF Inductive
<1>3. /\ Caught(c, l)' /\ Enters(c, l, l) /\ Ready(c, p, l)
      /\ l \in Locals /\ Controller(c) \in Controllers
  BY <1>1, CaughtThen
<1> QED BY <1>2, <1>3 DEF Caught

(* The parts of a step make the invariant.                                  *)
LEMMA StepDone ==
    ASSUME Inductive, NEW c \in Calls, NEW l, l = local[c],
           Story', Typed', Lands(c, l), OthersStay(c)
    PROVE  Inductive'
BY CallsMove DEF Inductive

---------------------------------------------------------------------------
(* The steps of the catch block *)

(* An uncertain completion is looked up in the ledger.                      *)
LEMMA InspectInductive ==
    ASSUME Inductive, NEW c \in Calls, Inspect(c)
    PROVE  Inductive'
<1>1. PICK l : l = local[c]
  OBVIOUS
<1>2. pc[c] = "inspect" /\ "inspect" \in Acting /\ OnNothing /\ (Ok \/ Trouble)
  BY DEF Inspect, At, Acting, Ok
<1>3. UNCHANGED <<claim, terminated, record, runs>>
  BY <1>2 DEF OnNothing, stores, work
<1>4. /\ Story' /\ OthersStay(c) /\ Caught(c, l)' /\ Enters(c, l, l) /\ Ready(c, "inspect", l)
      /\ l \in Locals /\ Controller(c) \notin terminated'
  BY <1>1, <1>2, <1>3, QuietStep
<1>5. Typed'
  BY <1>2, FaultsCounted DEF Inductive, Typed, OnNothing, stores, work
<1>6. Lands(c, l)
  <2>1. CASE Go(c, "mark-inspected", l) /\ claim.status = "completed" /\ claim.envelope = l.envelope
    <3>1. Ready(c, "mark-inspected", l)
      BY <1>4, <2>1 DEF Ready, Ending, Acting, Places, Alone, Finishing, Undoing, TakingOver, IsAnswer
    <3>2. "mark-inspected" \in Places /\ "mark-inspected" \in Acting
      BY DEF Ending, Acting, Places
    <3> QED BY <1>3, <1>4, <2>1, <3>1, <3>2, SameReady DEF Lands, Enters
  <2>2. ASSUME NEW b \in BOOLEAN, Undo(c, [l EXCEPT !.known = b])
        PROVE  Lands(c, l)
    <3>1. PICK m : m = [l EXCEPT !.known = b]
      OBVIOUS
    <3>2. Caught(c, m)' /\ Enters(c, l, m)
      BY <1>4, <3>1, CaughtWith
    <3>3. Undo(c, m)
      BY <2>2, <3>1
    <3> QED BY <3>2, <3>3, UndoLands
  <2> QED BY <1>1, <2>1, <2>2 DEF Inspect
<1> QED BY <1>1, <1>4, <1>5, <1>6, StepDone

(* The raw results are discarded.                                           *)
LEMMA DiscardInductive ==
    ASSUME Inductive, NEW c \in Calls, Discard(c)
    PROVE  Inductive'
<1>1. PICK l : l = local[c]
  OBVIOUS
<1>2. /\ pc[c] = "discard" /\ "discard" \in Acting /\ OnWork /\ (Ok \/ Trouble)
      /\ UNCHANGED <<preparation, runs>> /\ raw' \in {"held", "destroyed"}
  BY DEF Discard, At, Acting, Ok
<1>3. UNCHANGED <<claim, terminated, record, runs>>
  BY <1>2 DEF OnWork
<1>4. /\ Story' /\ OthersStay(c) /\ Caught(c, l)' /\ Enters(c, l, l)
      /\ l \in Locals /\ Controller(c) \notin terminated'
  BY <1>1, <1>2, <1>3, QuietStep
<1>5. Typed'
  BY <1>2, FaultsCounted DEF Inductive, Typed, OnWork
<1>6. Lands(c, l)
  <2>1. CASE Throw(c)
    BY <1>4, <2>1, ThrowLands
  <2>2. CASE Go(c, "fail-record", l)
    <3>1. Ready(c, "fail-record", l)' /\ "fail-record" \in Places /\ "fail-record" \in Acting
      BY <1>4, CaughtReady
    <3> QED BY <1>4, <2>2, <3>1 DEF Lands, Enters
  <2> QED BY <1>1, <2>1, <2>2 DEF Discard
<1> QED BY <1>1, <1>4, <1>5, <1>6, StepDone

(* The bundle is hidden before the preparation is abandoned.                *)
LEMMA OrphanInductive ==
    ASSUME Inductive, NEW c \in Calls, OrphanBundle(c)
    PROVE  Inductive'
<1>1. PICK l : l = local[c]
  OBVIOUS
<1>2. /\ pc[c] = "orphan" /\ "orphan" \in Acting /\ OnBundle /\ (Ok \/ Trouble)
      /\ bundle' \in {bundle, "orphaned"}
  BY DEF OrphanBundle, Orphan, At, Acting, Undoing
<1>3. UNCHANGED <<claim, terminated, record, runs>>
  BY <1>2 DEF OnBundle, work
<1>4. /\ Story' /\ OthersStay(c) /\ Caught(c, l)' /\ Enters(c, l, l) /\ Ready(c, "orphan", l)
      /\ l \in Locals /\ Controller(c) \notin terminated'
  BY <1>1, <1>2, <1>3, QuietStep
<1>5. Typed'
  BY <1>2, FaultsCounted DEF Inductive, Typed, OnBundle, work
<1>6. Lands(c, l)
  <2>1. CASE Go(c, "abandon", [l EXCEPT !.orphaned = TRUE])
    <3>1. PICK m : m = [l EXCEPT !.orphaned = TRUE]
      OBVIOUS
    <3>2. Caught(c, m)' /\ Enters(c, l, m) /\ m \in Locals /\ m.record = l.record
      BY <1>4, <3>1, CaughtWith
    <3>3. m.record # None /\ "abandon" \in Undoing
      BY <1>4, <3>2 DEF Ready, Undoing
    <3>4. Ready(c, "abandon", m)' /\ "abandon" \in Places /\ "abandon" \in Acting
      BY <3>2, <3>3, CaughtReady
    <3> QED BY <2>1, <3>1, <3>2, <3>4 DEF Lands, Enters
  <2>2. CASE Finish(c, [l EXCEPT !.known = FALSE])
    <3>1. PICK m : m = [l EXCEPT !.known = FALSE]
      OBVIOUS
    <3>2. Caught(c, m)' /\ Enters(c, l, m)
      BY <1>4, <3>1, CaughtWith
    <3>3. Finish(c, m)
      BY <2>2, <3>1
    <3> QED BY <3>2, <3>3, FinishLands
  <2> QED BY <1>1, <2>1, <2>2 DEF OrphanBundle
<1> QED BY <1>1, <1>4, <1>5, <1>6, StepDone

(* After the abandonment the record is marked, or the claim is cleaned.     *)
LEMMA AfterAbandonLands ==
    ASSUME NEW c \in Calls, NEW l, NEW m, Enters(c, l, m), Caught(c, m)', AfterAbandon(c, m)
    PROVE  Lands(c, l)
<1>1. CASE Finish(c, m)
  BY <1>1, FinishLands
<1>2. CASE Go(c, "cleanup", m)
  <2>1. Ready(c, "cleanup", m)' /\ "cleanup" \in Places /\ "cleanup" \in Acting /\ m \in Locals
    BY CaughtReady DEF Caught
  <2> QED BY <1>2, <2>1 DEF Lands, Enters
<1> QED BY <1>1, <1>2 DEF AfterAbandon

(* The preparation is abandoned.                                            *)
LEMMA AbandonInductive ==
    ASSUME Inductive, NEW c \in Calls, AbandonPreparation(c)
    PROVE  Inductive'
<1>1. PICK l : l = local[c]
  OBVIOUS
<1>2. /\ pc[c] = "abandon" /\ "abandon" \in Acting /\ OnPreparation /\ (Ok \/ Trouble)
      /\ preparation' \in {preparation, "abandoned"}
  BY DEF AbandonPreparation, Abandon, Throws, At, Acting, Undoing
<1>3. UNCHANGED <<claim, terminated, record, runs>>
  BY <1>2 DEF OnPreparation, work
<1>4. /\ Story' /\ OthersStay(c) /\ Caught(c, l)' /\ Enters(c, l, l) /\ Ready(c, "abandon", l)
      /\ l \in Locals /\ Controller(c) \notin terminated'
  BY <1>1, <1>2, <1>3, QuietStep
<1>5. Typed'
  BY <1>2, FaultsCounted DEF Inductive, Typed, OnPreparation, work, Preparations
<1>6. Lands(c, l)
  <2>1. CASE Go(c, "mark-abandoned", l)
    <3>1. l.record # None /\ "mark-abandoned" \in Undoing
      BY <1>4 DEF Ready, Undoing
    <3>2. Ready(c, "mark-abandoned", l)' /\ "mark-abandoned" \in Places /\ "mark-abandoned" \in Acting
      BY <1>4, <3>1, CaughtReady
    <3> QED BY <1>4, <2>1, <3>2 DEF Lands, Enters
  <2>2. CASE AfterAbandon(c, [l EXCEPT !.clean = TRUE])
    <3>1. PICK m : m = [l EXCEPT !.clean = TRUE]
      OBVIOUS
    <3>2. Caught(c, m)' /\ Enters(c, l, m)
      BY <1>4, <3>1, CaughtWith
    <3>3. AfterAbandon(c, m)
      BY <2>2, <3>1
    <3> QED BY <3>2, <3>3, AfterAbandonLands
  <2>3. CASE AfterAbandon(c, l)
    BY <1>4, <2>3, AfterAbandonLands
  <2> QED BY <1>1, <2>1, <2>2, <2>3 DEF AbandonPreparation
<1> QED BY <1>1, <1>4, <1>5, <1>6, StepDone

(* What is left of the preparation is consumed or abandoned.                *)
LEMMA CleanupInductive ==
    ASSUME Inductive, NEW c \in Calls, Cleanup(c)
    PROVE  Inductive'
<1>1. PICK l : l = local[c]
  OBVIOUS
<1>2. PICK k : k = [l EXCEPT !.clean = FALSE]
  OBVIOUS
<1>3. /\ pc[c] = "cleanup" /\ "cleanup" \in Acting /\ OnPreparation /\ (Ok \/ Trouble)
      /\ preparation' \in {preparation, "abandoned", "consumed"}
  BY DEF Cleanup, Abandon, ConsumePreparation, At, Acting
<1>4. UNCHANGED <<claim, terminated, record, runs>>
  BY <1>3 DEF OnPreparation, work
<1>5. /\ Story' /\ OthersStay(c) /\ Caught(c, l)' /\ Enters(c, l, l)
  BY <1>1, <1>3, <1>4, QuietStep
<1>6. Typed'
  BY <1>3, FaultsCounted DEF Inductive, Typed, OnPreparation, work, Preparations
<1>7. Caught(c, k)' /\ Enters(c, l, k) /\ k \in Locals /\ k.record = l.record
  BY <1>2, <1>5, CaughtWith
<1>8. Lands(c, l)
  <2>1. ASSUME NEW b \in BOOLEAN, Finish(c, [k EXCEPT !.clean = b])
        PROVE  Lands(c, l)
    <3>1. PICK m : m = [k EXCEPT !.clean = b]
      OBVIOUS
    <3>2. Caught(c, m)' /\ Enters(c, l, m)
      BY <1>7, <3>1, CaughtWith
    <3>3. Finish(c, m)
      BY <2>1, <3>1
    <3> QED BY <3>2, <3>3, FinishLands
  <2>2. CASE Finish(c, k)
    BY <1>7, <2>2, FinishLands
  <2>3. CASE Follows(k) /\ Go(c, "mark-cleaned", k)
    <3>1. k.record # None /\ "mark-cleaned" \in Undoing
      BY <2>3 DEF Follows, Undoing
    <3>2. Ready(c, "mark-cleaned", k)' /\ "mark-cleaned" \in Places /\ "mark-cleaned" \in Acting
      BY <1>7, <3>1, CaughtReady
    <3> QED BY <1>7, <2>3, <3>2 DEF Lands, Enters
  <2>4. NothingLeft(k) \in BOOLEAN
    BY DEF NothingLeft
  <2>5. \/ Follows(k) /\ Go(c, "mark-cleaned", k)
        \/ Finish(c, [k EXCEPT !.clean = TRUE]) \/ Finish(c, [k EXCEPT !.clean = NothingLeft(k)])
        \/ Finish(c, k)
    BY <1>1, <1>2 DEF Cleanup
  <2> QED BY <2>1, <2>2, <2>3, <2>4, <2>5
<1> QED BY <1>1, <1>5, <1>6, <1>8, StepDone

(* A record taken back is a record, completed only if it was before.        *)
LEMMA TakenBackIs ==
    ASSUME NEW r \in Records
    PROVE  /\ TakenBack(r) \in Records
           /\ TakenBack(r).status = "completed" => r.status = "completed"
<1>1. PICK q : q = [r EXCEPT !.behavioral = IF @ = "finalized" THEN "abandoned" ELSE "consumed"]
  OBVIOUS
<1>2. q \in Records /\ q.status = r.status
  BY <1>1 DEF Records, Behaviorals
<1>3. TakenBack(r) = [q EXCEPT !.status = IF @ = "result-issued" THEN "failed" ELSE @]
  BY <1>1 DEF TakenBack, Records
<1> QED BY <1>2, <1>3 DEF Records, Statuses

(* A completed record is one of a completed claim. *)
LEMMA BehindCompleted ==
    ASSUME Story, NEW r, Behind(r), r.status = "completed"
    PROVE  claim # None /\ claim.status = "completed"
BY DEF Story, Behind

(* The marks of what was taken back. *)
LEMMA TakenBackMark ==
    ASSUME Inductive, NEW c \in Calls, NEW l, l = local[c], pc[c] \in Undoing,
           NEW next, next = TakenBack(l.record), OnRecord,
           (MayAdvance(l.record, next) /\ Advance(next)) \/ UNCHANGED record
    PROVE  /\ Story' /\ OthersStay(c) /\ Caught(c, l)' /\ Enters(c, l, l) /\ next \in Records
           /\ MayAdvance(l.record, next) /\ Advance(next) => Behind(next)'
<1>1. Ready(c, pc[c], l) /\ l \in Locals /\ pc[c] \in Acting
  BY CallOf DEF Acting
<1>2. l.record # None /\ l.record \in Records /\ Behind(l.record)
  BY <1>1 DEF Ready, Locals
<1>3. next \in Records /\ (next.status = "completed" => claim # None /\ claim.status = "completed")
  BY <1>2, TakenBackIs, BehindCompleted DEF Inductive
<1>4. /\ Story' /\ OthersStay(c)
      /\ \A d, q, m : Ready(d, q, m) => Ready(d, q, m)'
      /\ MayAdvance(l.record, next) /\ Advance(next) => Behind(next)'
  BY <1>2, <1>3, MarkStep
<1>5. Caught(c, l)' /\ Enters(c, l, l)
  BY <1>1, <1>4, CaughtThen
<1> QED BY <1>3, <1>4, <1>5

(* The call goes on with the record it marked. *)
LEMMA CaughtTakenBack ==
    ASSUME NEW c, NEW l, NEW next \in Records, Caught(c, l)', Enters(c, l, l), Behind(next)',
           NEW m, m = [l EXCEPT !.record = next, !.clean = TRUE]
    PROVE  Caught(c, m)' /\ Enters(c, l, m)
<1>1. PICK k : k = [l EXCEPT !.record = next]
  OBVIOUS
<1>2. /\ k \in Locals /\ k.recovering = l.recovering /\ k.checkpoint = l.checkpoint
      /\ k.finalization = l.finalization /\ k.record = next /\ next # None
  BY <1>1 DEF Caught, Locals
<1>3. Caught(c, k)' /\ Enters(c, l, k)
  BY <1>2, CaughtMarked DEF Enters
<1>4. m \in {[k EXCEPT !.known = TRUE], [k EXCEPT !.orphaned = TRUE], [k EXCEPT !.clean = TRUE]}
  BY <1>1
<1>5. TRUE \in BOOLEAN
  OBVIOUS
<1> QED BY <1>3, <1>4, <1>5, CaughtWith

(* The record is told of the abandonment.                                   *)
LEMMA MarkAbandonedInductive ==
    ASSUME Inductive, NEW c \in Calls, MarkAbandoned(c)
    PROVE  Inductive'
<1>1. PICK l : l = local[c]
  OBVIOUS
<1>2. PICK next : next = TakenBack(l.record)
  OBVIOUS
<1>3. /\ pc[c] \in Undoing /\ OnRecord /\ UNCHANGED answers /\ (Ok \/ Trouble)
      /\ (MayAdvance(l.record, next) /\ Advance(next)) \/ UNCHANGED record
      /\ \/ MayAdvance(l.record, next) /\ Advance(next)
            /\ AfterAbandon(c, [l EXCEPT !.record = next, !.clean = TRUE])
         \/ AfterAbandon(c, l)
  BY <1>1, <1>2 DEF MarkAbandoned, Mark, Throws, OnRecord, At, Undoing
<1>4. /\ Story' /\ OthersStay(c) /\ Caught(c, l)' /\ Enters(c, l, l) /\ next \in Records
      /\ MayAdvance(l.record, next) /\ Advance(next) => Behind(next)'
  BY <1>1, <1>2, <1>3, TakenBackMark
<1>5. Typed'
  BY <1>3, FaultsCounted DEF Inductive, Typed, OnRecord
<1>6. Lands(c, l)
  <2>1. CASE AfterAbandon(c, l)
    BY <1>4, <2>1, AfterAbandonLands
  <2>2. CASE /\ MayAdvance(l.record, next) /\ Advance(next)
             /\ AfterAbandon(c, [l EXCEPT !.record = next, !.clean = TRUE])
    <3>1. PICK m : m = [l EXCEPT !.record = next, !.clean = TRUE]
      OBVIOUS
    <3>2. Caught(c, m)' /\ Enters(c, l, m)
      BY <1>4, <2>2, <3>1, CaughtTakenBack
    <3>3. AfterAbandon(c, m)
      BY <2>2, <3>1
    <3> QED BY <3>2, <3>3, AfterAbandonLands
  <2> QED BY <1>3, <2>1, <2>2
<1> QED BY <1>1, <1>4, <1>5, <1>6, StepDone

(* The record is told of the cleaning.                                      *)
LEMMA MarkCleanedInductive ==
    ASSUME Inductive, NEW c \in Calls, MarkCleaned(c)
    PROVE  Inductive'
<1>1. PICK l : l = local[c]
  OBVIOUS
<1>2. PICK next : next = TakenBack(l.record)
  OBVIOUS
<1>3. /\ pc[c] \in Undoing /\ OnRecord /\ UNCHANGED answers /\ (Ok \/ Trouble)
      /\ (MayAdvance(l.record, next) /\ Advance(next)) \/ UNCHANGED record
      /\ \/ MayAdvance(l.record, next) /\ Advance(next)
            /\ Finish(c, [l EXCEPT !.record = next, !.clean = TRUE])
         \/ Finish(c, l)
  BY <1>1, <1>2 DEF MarkCleaned, Mark, Throws, OnRecord, At, Undoing
<1>4. /\ Story' /\ OthersStay(c) /\ Caught(c, l)' /\ Enters(c, l, l) /\ next \in Records
      /\ MayAdvance(l.record, next) /\ Advance(next) => Behind(next)'
  BY <1>1, <1>2, <1>3, TakenBackMark
<1>5. Typed'
  BY <1>3, FaultsCounted DEF Inductive, Typed, OnRecord
<1>6. Lands(c, l)
  <2>1. CASE Finish(c, l)
    BY <1>4, <2>1, FinishLands
  <2>2. CASE /\ MayAdvance(l.record, next) /\ Advance(next)
             /\ Finish(c, [l EXCEPT !.record = next, !.clean = TRUE])
    <3>1. PICK m : m = [l EXCEPT !.record = next, !.clean = TRUE]
      OBVIOUS
    <3>2. Caught(c, m)' /\ Enters(c, l, m)
      BY <1>4, <2>2, <3>1, CaughtTakenBack
    <3>3. Finish(c, m)
      BY <2>2, <3>1
    <3> QED BY <3>2, <3>3, FinishLands
  <2> QED BY <1>3, <2>1, <2>2
<1> QED BY <1>1, <1>4, <1>5, <1>6, StepDone

(* Where a caught call gives up the claim. *)
LEMMA GivesUp ==
    ASSUME NEW c \in Calls, NEW l, Enters(c, l, l), Caught(c, l)',
           record' = None \/ record'.status = "failed", Go(c, "consume-claim", l)
    PROVE  Lands(c, l)
<1>1. Ready(c, "consume-claim", l)'
  BY DEF Caught, Ready, Places, Acting, Alone, Finishing, Ending, Undoing, TakingOver
<1>2. "consume-claim" \in Places /\ "consume-claim" \in Acting /\ l \in Locals
  BY DEF Places, Acting, Caught
<1> QED BY <1>1, <1>2 DEF Lands, Enters

(* The record fails before its claim is consumed.                           *)
LEMMA FailRecordInductive ==
    ASSUME Inductive, NEW c \in Calls, FailRecord(c)
    PROVE  Inductive'
<1>1. PICK l : l = local[c]
  OBVIOUS
<1>2. PICK exact : exact = IF l.recovering THEN l.record ELSE record
  OBVIOUS
<1>3. PICK next : next = [exact EXCEPT !.status = "failed"]
  OBVIOUS
<1>4. /\ pc[c] = "fail-record" /\ "fail-record" \in Acting /\ (Ok \/ Trouble)
      /\ UNCHANGED <<claim, terminated, preparation, bundle, work>>
  BY DEF FailRecord, Throws, At, Acting
<1>5. Ready(c, "fail-record", l) /\ l \in Locals
  BY <1>1, <1>4, CallOf
<1>6. OnRecord /\ UNCHANGED answers
  BY <1>4 DEF OnRecord, work
<1>7. Typed'
  BY <1>4, <1>6, FaultsCounted DEF Inductive, Typed, OnRecord
<1>8. CASE UNCHANGED record
  <2>1. UNCHANGED <<claim, terminated, record, runs>>
    BY <1>6, <1>8 DEF OnRecord
  <2>2. /\ Story' /\ OthersStay(c) /\ Caught(c, l)' /\ Enters(c, l, l)
        /\ Controller(c) \notin terminated'
    BY <1>1, <1>4, <2>1, QuietStep
  <2>3. CASE Throw(c)
    BY <1>1, <1>7, <2>2, <2>3, ThrowLands, StepDone
  <2>4. CASE Go(c, "consume-claim", l) /\ (record = None \/ record.status = "failed")
    BY <1>1, <1>7, <1>8, <2>2, <2>4, GivesUp, StepDone
  <2>5. ~l.recovering /\ ~l.checkpoint => record = None
    BY <1>4, <1>5 DEF Ready, Working
  <2>6. l.record # None /\ l.record.status = "failed" => record.status = "failed"
    BY <1>5 DEF Ready, Behind
  <2>7. CASE /\ l.record # None /\ MayAdvance(exact, next) /\ Advance(next)
             /\ Go(c, "consume-claim", l) \/ Throw(c)
    <3>1. record' = next /\ next.status = "failed"
      <4>1. exact \in Records
        BY <1>2, <1>5, <2>7 DEF Ready, Behind, Inductive, Story, Locals
      <4> QED BY <1>3, <2>7, <4>1 DEF Advance, Records
    <3> QED BY <1>8, <2>3, <2>4, <2>7, <3>1
  <2> QED BY <1>1, <1>2, <1>3, <2>3, <2>4, <2>5, <2>6, <2>7 DEF FailRecord
<1>9. CASE l.record # None /\ MayAdvance(exact, next) /\ Advance(next)
           /\ (Go(c, "consume-claim", l) \/ Throw(c))
  <2>1. exact \in Records /\ Behind(exact)
    BY <1>2, <1>5, <1>9 DEF Ready, Behind, Inductive, Story, Locals
  <2>2. next \in Records /\ next.status = "failed"
    BY <1>3, <2>1 DEF Records, Statuses
  <2>3. /\ Story' /\ OthersStay(c) /\ record' = next
        /\ \A d, q, m : Ready(d, q, m) => Ready(d, q, m)'
    BY <1>6, <1>9, <2>1, <2>2, MarkStep
  <2>4. Caught(c, l)' /\ Enters(c, l, l) /\ Controller(c) \notin terminated'
    BY <1>1, <1>4, <2>3, CaughtThen DEF Caught
  <2>5. Lands(c, l)
    BY <1>9, <2>2, <2>3, <2>4, GivesUp, ThrowLands
  <2> QED BY <1>1, <1>7, <2>3, <2>5, StepDone
<1> QED BY <1>1, <1>2, <1>3, <1>8, <1>9 DEF FailRecord

---------------------------------------------------------------------------
(* The claim *)

(* Who acts beside another call has taken over. *)
LEMMA OthersRecover ==
    ASSUME Inductive, NEW c \in Calls, pc[c] \in Acting, NEW d \in Calls, d # c,
           NEW q, q = pc[d], NEW m, m = local[d], q \in Acting
    PROVE  m.recovering
<1>1. PICK p, l : p = pc[c] /\ l = local[c]
  OBVIOUS
<1>2. Working(c, l) /\ Working(d, m) /\ l \in Locals /\ m \in Locals
  BY <1>1, CallOf DEF Ready
<1>3. ~(First(c) /\ First(d))
  BY DEF Inductive, CallsInv
<1>4. CASE l.recovering
  BY <1>2, <1>4 DEF Working
<1>5. CASE ~l.recovering
  BY <1>1, <1>3, <1>5 DEF First
<1> QED BY <1>4, <1>5

(* The claim is consumed when its record has failed or never was.           *)
LEMMA ConsumeClaimInductive ==
    ASSUME Inductive, NEW c \in Calls, ConsumeClaim(c)
    PROVE  Inductive'
<1>1. PICK l : l = local[c]
  OBVIOUS
<1>2. /\ pc[c] = "consume-claim" /\ "consume-claim" \in Acting /\ (Ok \/ Trouble)
      /\ OnLedger /\ Throw(c)
  BY DEF ConsumeClaim, Throws, At, Acting
<1>3. UNCHANGED <<terminated, record, runs, raw, answers, preparation, bundle>>
  BY <1>2 DEF OnLedger, stores, work
<1>4. Typed'
  BY <1>2, <1>3, FaultsCounted DEF Inductive, Typed
<1>5. Ready(c, "consume-claim", l) /\ Controller(c) \notin terminated /\ claim # None
  BY <1>1, <1>2, CallOf DEF Ready
<1>6. Lands(c, l)
  BY <1>2, <1>3, <1>5, ThrowLands
<1>7. CASE UNCHANGED claim
  <2>1. UNCHANGED <<claim, terminated, record, runs>>
    BY <1>3, <1>7
  <2> QED BY <1>1, <1>4, <1>6, <2>1, SameStory, SameOthers, StepDone DEF Inductive
<1>8. CASE claim.status # "completed" /\ claim' = [claim EXCEPT !.status = "consumed"]
  <2>1. claim \in Claims(Records)
    BY <1>5 DEF Inductive, Story
  <2>2. /\ claim' \in Claims(Records) /\ claim'.status = "consumed"
        /\ claim'.owner = claim.owner /\ claim'.token = claim.token
        /\ claim'.recovered = claim.recovered /\ claim'.envelope = claim.envelope
        /\ claim' # None
    BY <1>8, <2>1 DEF Claims
  <2>3. record = None \/ record.status = "failed"
    BY <1>5 DEF Ready
  <2>4. Story'
    BY <1>3, <1>5, <2>2, <2>3 DEF Inductive, Story
  <2>5. OthersStay(c)
    <3>1. ASSUME NEW d \in Calls, d # c, NEW q, NEW m, q = pc[d], m = local[d]
          PROVE  Ready(d, q, m)'
      <4>1. Ready(d, q, m) /\ (q \in Acting => m.recovering)
        BY <1>2, <3>1, CallOf, OthersRecover
      <4>2. m.record # None => (Behind(m.record) => Behind(m.record)')
        BY <1>3 DEF Behind
      <4> QED BY <1>3, <1>5, <1>8, <2>2, <4>1, <4>2 DEF Ready, Working, IsAnswer, IsIssued, Ending, Acting
    <3> QED BY <3>1 DEF OthersStay
  <2> QED BY <1>1, <1>4, <1>6, <2>4, <2>5, StepDone
<1> QED BY <1>7, <1>8 DEF ConsumeClaim, MayConsume, ConsumeFailure

---------------------------------------------------------------------------
(* The steps of an evaluation that change neither claim nor record *)

(* The places of the body between which a call goes as it is. *)
LEMMA SameWork ==
    ASSUME NEW c, NEW l, NEW p, NEW q, Ready(c, p, l)',
           \/ p \in Finishing /\ q \in Finishing
           \/ p \in {"derive", "destroy", "create"} /\ q \in {"derive", "destroy", "create"}
    PROVE  /\ Ready(c, q, l)' /\ q \in Places /\ q \in Acting
           /\ ~l.attempted
BY DEF Ready, Places, Acting, Alone, Finishing, Ending, Undoing, TakingOver

(* What is known at the work between the claim and its completion, when     *)
(* neither ledger nor record is written.                                    *)
LEMMA WorkStep ==
    ASSUME Inductive, NEW c \in Calls, NEW l, l = local[c], NEW p, p = pc[c],
           p \in Finishing \cup {"derive", "destroy", "create"}, Ok \/ Trouble,
           UNCHANGED <<claim, terminated, record, runs>>
    PROVE  /\ Story' /\ OthersStay(c) /\ Caught(c, l)' /\ Enters(c, l, l)
           /\ Ready(c, p, l)' /\ ~l.attempted /\ l \in Locals
           /\ Raise(c, l) => Lands(c, l)
           /\ \A q : /\ Go(c, q, l)
                     /\ \/ p \in Finishing /\ q \in Finishing
                        \/ /\ p \in {"derive", "destroy", "create"}
                           /\ q \in {"derive", "destroy", "create"}
                     => Lands(c, l)
<1>1. p \in Acting
  BY DEF Acting, Alone
<1>2. /\ Story' /\ OthersStay(c) /\ Caught(c, l)' /\ Enters(c, l, l) /\ l \in Locals
      /\ Ready(c, p, l)
  BY <1>1, QuietStep
<1>3. Ready(c, p, l)'
  BY <1>2, SameReady
<1>4. ~l.attempted
  BY <1>2 DEF Ready, Alone
<1>5. Raise(c, l) => Lands(c, l)
  BY <1>2, <1>4, RaiseLands
<1>6. ASSUME NEW q, Go(c, q, l),
             \/ p \in Finishing /\ q \in Finishing
             \/ p \in {"derive", "destroy", "create"} /\ q \in {"derive", "destroy", "create"}
      PROVE  Lands(c, l)
  <2>1. Ready(c, q, l)' /\ q \in Places /\ q \in Acting
    BY <1>3, <1>6, SameWork
  <2> QED BY <1>2, <1>6, <2>1 DEF Lands, Enters
<1> QED BY <1>2, <1>3, <1>4, <1>5, <1>6

(* The aggregate is derived, and a release may be prepared with it.         *)
LEMMA DeriveInductive ==
    ASSUME Inductive, NEW c \in Calls, Derive(c)
    PROVE  Inductive'
<1>1. PICK l : l = local[c]
  OBVIOUS
<1>2. /\ pc[c] = "derive" /\ OnWork /\ (Ok \/ Trouble)
      /\ UNCHANGED <<raw, runs>> /\ preparation' \in {preparation, "prepared"}
      /\ Go(c, "destroy", l) \/ Raise(c, l)
  BY <1>1 DEF Derive, Prepare, At
<1>3. UNCHANGED <<claim, terminated, record, runs>>
  BY <1>2 DEF OnWork
<1>4. Story' /\ OthersStay(c) /\ Lands(c, l)
  BY <1>1, <1>2, <1>3, WorkStep
<1>5. Typed'
  BY <1>2, FaultsCounted DEF Inductive, Typed, OnWork, Preparations
<1> QED BY <1>1, <1>4, <1>5, StepDone

(* The raw results are destroyed.                                           *)
LEMMA DestroyInductive ==
    ASSUME Inductive, NEW c \in Calls, Destroy(c)
    PROVE  Inductive'
<1>1. PICK l : l = local[c]
  OBVIOUS
<1>2. /\ pc[c] = "destroy" /\ OnWork /\ (Ok \/ Trouble)
      /\ UNCHANGED <<preparation, runs>> /\ raw' \in {"held", "destroyed"}
      /\ Go(c, "create", l) \/ Raise(c, l)
  BY <1>1 DEF Destroy, At
<1>3. UNCHANGED <<claim, terminated, record, runs>>
  BY <1>2 DEF OnWork
<1>4. Story' /\ OthersStay(c) /\ Lands(c, l)
  BY <1>1, <1>2, <1>3, WorkStep
<1>5. Typed'
  BY <1>2, FaultsCounted DEF Inductive, Typed, OnWork
<1> QED BY <1>1, <1>4, <1>5, StepDone

(* A preparation without a release is consumed.                             *)
LEMMA ConsumeInductive ==
    ASSUME Inductive, NEW c \in Calls, Consume(c)
    PROVE  Inductive'
<1>1. PICK l : l = local[c]
  OBVIOUS
<1>2. /\ pc[c] = "consume" /\ OnPreparation /\ (Ok \/ Trouble)
      /\ preparation' \in {preparation, "consumed"}
      /\ Go(c, "mark-consumed", l) \/ Raise(c, l)
  BY <1>1 DEF Consume, ConsumePreparation, Throws, At
<1>3. UNCHANGED <<claim, terminated, record, runs>>
  BY <1>2 DEF OnPreparation, work
<1>4. Story' /\ OthersStay(c) /\ Lands(c, l)
  BY <1>1, <1>2, <1>3, WorkStep DEF Finishing
<1>5. Typed'
  BY <1>2, FaultsCounted DEF Inductive, Typed, OnPreparation, work, Preparations
<1> QED BY <1>1, <1>4, <1>5, StepDone

(* The finalization is entered in the preparation.                          *)
LEMMA StoreFinalizationInductive ==
    ASSUME Inductive, NEW c \in Calls, StoreFinalization(c)
    PROVE  Inductive'
<1>1. PICK l : l = local[c]
  OBVIOUS
<1>2. /\ pc[c] = "finalized" /\ OnPreparation /\ (Ok \/ Trouble)
      /\ preparation' \in {preparation, "finalized"}
      /\ Go(c, "mark-finalized", l) \/ Raise(c, l)
  BY <1>1 DEF StoreFinalization, Finalize, Throws, At
<1>3. UNCHANGED <<claim, terminated, record, runs>>
  BY <1>2 DEF OnPreparation, work
<1>4. Story' /\ OthersStay(c) /\ Lands(c, l)
  BY <1>1, <1>2, <1>3, WorkStep DEF Finishing
<1>5. Typed'
  BY <1>2, FaultsCounted DEF Inductive, Typed, OnPreparation, work, Preparations
<1> QED BY <1>1, <1>4, <1>5, StepDone

(* The producer finalizes the release, which shows the bundle.              *)
LEMMA ProducerFinalizeInductive ==
    ASSUME Inductive, NEW c \in Calls, ProducerFinalize(c)
    PROVE  Inductive'
<1>1. PICK l : l = local[c]
  OBVIOUS
<1>2. /\ pc[c] = "finalize" /\ OnBundle /\ (Ok \/ Trouble)
      /\ bundle' \in {bundle, "absent", "visible"}
      /\ \/ Go(c, "consume", l)
         \/ Go(c, "finalized", [l EXCEPT !.finalization = TRUE])
         \/ Raise(c, [l EXCEPT !.finalizing = "known-not-committed"])
         \/ Raise(c, [l EXCEPT !.finalizing = "unsafe-to-consume"])
  BY <1>1 DEF ProducerFinalize, Commit, At
<1>3. UNCHANGED <<claim, terminated, record, runs>>
  BY <1>2 DEF OnBundle, work
<1>4. /\ Story' /\ OthersStay(c) /\ Caught(c, l)' /\ Enters(c, l, l)
      /\ Ready(c, "finalize", l)' /\ ~l.attempted /\ l \in Locals
      /\ Go(c, "consume", l) => Lands(c, l)
  BY <1>1, <1>2, <1>3, WorkStep DEF Finishing
<1>5. Typed'
  BY <1>2, FaultsCounted DEF Inductive, Typed, OnBundle, work
<1>6. CASE Go(c, "finalized", [l EXCEPT !.finalization = TRUE])
  <2>1. PICK m : m = [l EXCEPT !.finalization = TRUE]
    OBVIOUS
  <2>2. /\ m \in Locals /\ m.recovering = l.recovering /\ m.record = l.record
        /\ m.checkpoint = l.checkpoint /\ ~m.attempted /\ m.token = l.token
    BY <1>4, <2>1 DEF Locals
  <2>3. Ready(c, "finalized", m)' /\ "finalized" \in Places /\ "finalized" \in Acting
    BY <1>4, <2>2 DEF Ready, Working, Places, Acting, Alone, Finishing, Ending, Undoing, TakingOver
  <2>4. Lands(c, l)
    BY <1>4, <1>6, <2>1, <2>2, <2>3 DEF Lands, Enters
  <2> QED BY <1>1, <1>4, <1>5, <2>4, StepDone
<1>7. ASSUME NEW f \in {"known-not-committed", "unsafe-to-consume"},
             Raise(c, [l EXCEPT !.finalizing = f])
      PROVE  Inductive'
  <2>1. PICK m : m = [l EXCEPT !.finalizing = f]
    OBVIOUS
  <2>2. /\ m \in Locals /\ m.recovering = l.recovering /\ m.record = l.record
        /\ m.checkpoint = l.checkpoint /\ m.finalization = l.finalization /\ ~m.attempted
    BY <1>4, <2>1 DEF Locals
  <2>3. Caught(c, m)' /\ Raise(c, m)
    BY <1>4, <1>7, <2>1, <2>2, CaughtSame
  <2>4. Enters(c, l, m)
    BY <1>4, <2>2 DEF Enters
  <2>5. Lands(c, l)
    BY <2>2, <2>3, <2>4, RaiseLands
  <2> QED BY <1>1, <1>4, <1>5, <2>5, StepDone
<1>8. CASE Go(c, "consume", l)
  BY <1>1, <1>4, <1>5, <1>8, StepDone
<1> QED BY <1>2, <1>6, <1>7, <1>8

---------------------------------------------------------------------------
(* The steps of an evaluation that change the claim, the runs or the record *)

(* The request is bound to the claim, once.                                 *)
LEMMA BindInductive ==
    ASSUME Inductive, NEW c \in Calls, Bind(c)
    PROVE  Inductive'
<1>1. PICK l : l = local[c]
  OBVIOUS
<1>2. /\ pc[c] = "bind" /\ "bind" \in Acting /\ (Ok \/ Trouble) /\ OnLedger
      /\ BindDispositionAttestation \/ UNCHANGED claim
      /\ Go(c, "run", l) \/ Raise(c, l)
  BY <1>1 DEF Bind, At, Acting, Alone
<1>3. UNCHANGED <<terminated, record, runs, raw, answers, preparation, bundle>>
  BY <1>2 DEF OnLedger, stores, work
<1>4. Ready(c, "bind", l) /\ l \in Locals /\ claim # None /\ claim \in Claims(Records)
  BY <1>1, <1>2, CallOf DEF Ready, Inductive, Story
<1>5. /\ claim' \in Claims(Records) /\ claim'.status = claim.status
      /\ claim'.owner = claim.owner /\ claim'.token = claim.token
      /\ claim'.recovered = claim.recovered /\ claim'.envelope = claim.envelope
      /\ claim' # None
  <2>1. CASE UNCHANGED claim
    BY <1>4, <2>1
  <2>2. CASE claim' = [claim EXCEPT !.attested = TRUE]
    <3>1. claim' \in Claims(Records)
      BY <1>4, <2>2 DEF Claims
    <3>2. /\ claim'.status = claim.status /\ claim'.owner = claim.owner
          /\ claim'.token = claim.token /\ claim'.recovered = claim.recovered
          /\ claim'.envelope = claim.envelope
      BY <1>4, <2>2 DEF Claims
    <3> QED BY <3>1, <3>2
  <2> QED BY <1>2, <2>1, <2>2 DEF BindDispositionAttestation
<1>6. \A d, q, m : Ready(d, q, m) => Ready(d, q, m)'
  BY <1>3, <1>4, <1>5 DEF Ready, Working, Behind, IsIssued, IsAnswer
<1>7. Story' /\ OthersStay(c)
  BY <1>3, <1>4, <1>5, <1>6 DEF Inductive, Story, CallsInv, OthersStay
<1>8. Typed'
  BY <1>2, <1>3, FaultsCounted DEF Inductive, Typed
<1>9. Caught(c, l)' /\ Enters(c, l, l) /\ ~l.attempted
  BY <1>1, <1>2, <1>4, <1>6, CaughtThen DEF Ready, Alone
<1>10. Lands(c, l)
  <2>1. CASE Raise(c, l)
    BY <1>9, <2>1, RaiseLands
  <2>2. CASE Go(c, "run", l)
    <3>1. Ready(c, "run", l)
      BY <1>4 DEF Ready, Places, Acting, Alone, Finishing, Ending, Undoing, TakingOver
    <3>2. Ready(c, "run", l)' /\ "run" \in Places /\ "run" \in Acting
      BY <1>6, <3>1 DEF Places, Acting, Alone
    <3> QED BY <1>4, <1>9, <2>2, <3>2 DEF Lands, Enters
  <2> QED BY <1>2, <2>1, <2>2
<1> QED BY <1>1, <1>7, <1>8, <1>10, StepDone

(* The hidden tasks run, in the one call that acquired the claim.           *)
LEMMA RunInductive ==
    ASSUME Inductive, NEW c \in Calls, Run(c)
    PROVE  Inductive'
<1>1. PICK l : l = local[c]
  OBVIOUS
<1>2. /\ pc[c] = "run" /\ "run" \in Acting /\ (Ok \/ Trouble) /\ OnWork /\ UNCHANGED preparation
      /\ runs' \in {runs, runs + 1} /\ raw' \in {raw, "held"}
      /\ (Go(c, "derive", l) /\ runs' = runs + 1) \/ Raise(c, l)
  BY <1>1 DEF Run, At, Acting, Alone
<1>3. UNCHANGED <<claim, terminated, record, bundle, answers>>
  BY <1>2 DEF OnWork
<1>4. Ready(c, "run", l) /\ l \in Locals /\ claim # None
  BY <1>1, <1>2, CallOf DEF Ready
<1>5. runs = 0 /\ record = None /\ ~l.recovering
  BY <1>2, <1>4 DEF Ready, Alone, Working
<1>6. Story'
  BY <1>2, <1>3, <1>4, <1>5 DEF Inductive, Story
<1>7. Typed'
  BY <1>2, <1>3, FaultsCounted DEF Inductive, Typed
<1>8. Caught(c, l)' /\ Enters(c, l, l) /\ ~l.attempted
  BY <1>1, <1>2, <1>3, <1>4 DEF Ready, Caught, Enters, Working, Behind, Acting, Alone
<1>9. OthersStay(c)
  <2>1. ASSUME NEW d \in Calls, d # c, NEW q, NEW m, q = pc[d], m = local[d]
        PROVE  Ready(d, q, m)'
    <3>1. Ready(d, q, m) /\ (q \in Acting => m.recovering)
      BY <1>2, <2>1, CallOf, OthersRecover
    <3> QED BY <1>3, <3>1 DEF Ready, Working, Behind, IsIssued, IsAnswer, Acting
  <2> QED BY <2>1 DEF OthersStay
<1>10. Lands(c, l)
  <2>1. CASE Raise(c, l)
    BY <1>8, <2>1, RaiseLands
  <2>2. CASE Go(c, "derive", l) /\ runs' = runs + 1
    <3>1. runs' = 1
      BY <1>5, <2>2
    <3>2. Ready(c, "derive", l)'
      BY <1>3, <1>4, <3>1 DEF Ready, Working, Behind, IsIssued, IsAnswer,
           Places, Acting, Alone, Finishing, Ending, Undoing, TakingOver
    <3>3. "derive" \in Places /\ "derive" \in Acting
      BY DEF Places, Acting, Alone
    <3> QED BY <1>4, <1>8, <2>2, <3>2, <3>3 DEF Lands, Enters
  <2> QED BY <1>2, <2>1, <2>2
<1> QED BY <1>1, <1>6, <1>7, <1>9, <1>10, StepDone

(* The first record is open and names no result.                            *)
LEMMA OpenRecordIs ==
    ASSUME NEW b \in {"none", "prepared"}
    PROVE  /\ OpenRecord(b) \in Records /\ Consistent(OpenRecord(b))
           /\ OpenRecord(b).status = "open" /\ OpenRecord(b).envelope = None
BY DEF OpenRecord, Records, Statuses, Behaviorals, Consistent

(* The recovery record is created after the run.                            *)
LEMMA CreateInductive ==
    ASSUME Inductive, NEW c \in Calls, Create(c)
    PROVE  Inductive'
<1>1. PICK l : l = local[c]
  OBVIOUS
<1>2. PICK b \in {"none", "prepared"} : b = IF preparation = "missing" THEN "none" ELSE "prepared"
  OBVIOUS
<1>3. PICK open \in Records : open = OpenRecord(b)
  BY OpenRecordIs
<1>4. /\ Consistent(open) /\ open.status = "open" /\ open.envelope = None /\ open # None
  BY <1>3, OpenRecordIs
<1>5. PICK k : k = [l EXCEPT !.checkpoint = TRUE]
  OBVIOUS
<1>6. /\ pc[c] = "create" /\ "create" \in Acting /\ (Ok \/ Trouble)
      /\ UNCHANGED <<claim, terminated, preparation, bundle, raw, runs, answers>>
      /\ record' \in {record, open}
      /\ \/ /\ record' = open
            /\ \E p \in {"issue", "finalize"} : Go(c, p, [k EXCEPT !.record = open])
         \/ Raise(c, k)
  BY <1>1, <1>2, <1>3, <1>5 DEF Create, work, At, Acting, Alone
<1>7. Ready(c, "create", l) /\ l \in Locals /\ claim # None
  BY <1>1, <1>6, CallOf DEF Ready
<1>8. record = None /\ runs = 1 /\ ~l.recovering /\ ~l.attempted /\ claim.status # "consumed"
  BY <1>6, <1>7 DEF Ready, Alone, Working
<1>9. l.record = None /\ ~l.finalization
  BY <1>6, <1>7, <1>8 DEF Ready, Working, Behind
<1>10. Story'
  BY <1>4, <1>6, <1>7, <1>8 DEF Inductive, Story
<1>11. Typed'
  BY <1>6, FaultsCounted DEF Inductive, Typed
<1>12. OthersStay(c)
  <2>1. ASSUME NEW d \in Calls, d # c, NEW q, NEW m, q = pc[d], m = local[d]
        PROVE  Ready(d, q, m)'
    <3>1. Ready(d, q, m) /\ (q \in Acting => m.recovering)
      BY <1>6, <2>1, CallOf, OthersRecover
    <3>2. m.record = None /\ q \notin Acting /\ q \notin TakingOver
      BY <1>8, <3>1 DEF Ready, Behind, Working
    <3> QED BY <1>6, <3>1, <3>2 DEF Ready, IsIssued, IsAnswer, Acting
  <2> QED BY <2>1 DEF OthersStay
<1>13. /\ k \in Locals /\ k.record = None /\ k.checkpoint /\ ~k.recovering /\ ~k.attempted
       /\ ~k.finalization /\ k.recovering = l.recovering
  BY <1>5, <1>7, <1>8, <1>9 DEF Locals
<1>14. Caught(c, k)' /\ Enters(c, l, k)
  <2>1. Controller(c) \notin terminated /\ Working(c, l)
    BY <1>6, <1>7 DEF Ready, Acting, Alone
  <2>2. Working(c, k)'
    BY <1>6, <1>8, <1>13, <2>1 DEF Working
  <2> QED BY <1>1, <1>6, <1>7, <1>13, <2>1, <2>2 DEF Caught, Enters
<1>15. Lands(c, l)
  <2>1. CASE Raise(c, k)
    BY <1>13, <1>14, <2>1, RaiseLands
  <2>2. ASSUME NEW p \in {"issue", "finalize"}, Go(c, p, [k EXCEPT !.record = open]), record' = open
        PROVE  Lands(c, l)
    <3>1. PICK m : m = [k EXCEPT !.record = open]
      OBVIOUS
    <3>2. /\ m \in Locals /\ m.record = open /\ m.checkpoint /\ ~m.recovering /\ ~m.attempted
          /\ m.recovering = l.recovering
      BY <1>13, <3>1 DEF Locals
    <3>3. Behind(m.record)'
      BY <1>4, <2>2, <3>2 DEF Behind
    <3>4. Working(c, m)'
      BY <1>4, <1>14, <3>2, <1>13 DEF Caught, Working
    <3>5. Ready(c, p, m)'
      BY <1>4, <1>14, <3>2, <3>3, <3>4 DEF Caught, Ready, Places, Acting, Alone, Finishing, Ending, Undoing, TakingOver
    <3>6. p \in Places /\ p \in Acting
      BY DEF Places, Acting, Finishing
    <3> QED BY <1>14, <2>2, <3>1, <3>2, <3>5, <3>6 DEF Lands, Enters
  <2> QED BY <1>6, <2>1, <2>2
<1> QED BY <1>1, <1>10, <1>11, <1>12, <1>15, StepDone

(* A mark of a call that acts. *)
LEMMA ActingMark ==
    ASSUME Inductive, NEW c \in Calls, NEW l, l = local[c], NEW p, p = pc[c], p \in Acting,
           l.record # None, NEW next \in Records, OnRecord,
           next.status = "completed" => claim # None /\ claim.status = "completed",
           (MayAdvance(l.record, next) /\ Advance(next)) \/ UNCHANGED record
    PROVE  /\ Story' /\ OthersStay(c) /\ Caught(c, l)' /\ Enters(c, l, l)
           /\ Controller(c) \notin terminated' /\ Ready(c, p, l)'
           /\ MayAdvance(l.record, next) /\ Advance(next) => Behind(next)'
<1>1. Ready(c, p, l) /\ Behind(l.record)
  BY CallOf DEF Ready
<1>2. /\ Story' /\ OthersStay(c)
      /\ \A d, q, m : Ready(d, q, m) => Ready(d, q, m)'
      /\ MayAdvance(l.record, next) /\ Advance(next) => Behind(next)'
  BY <1>1, MarkStep
<1>3. Caught(c, l)' /\ Enters(c, l, l)
  BY <1>2, CaughtThen
<1> QED BY <1>1, <1>2, <1>3 DEF Caught

(* The record is told what became of the preparation.                       *)
LEMMA MarkBehavioralInductive ==
    ASSUME Inductive, NEW c \in Calls, MarkBehavioral(c)
    PROVE  Inductive'
<1>1. PICK l : l = local[c]
  OBVIOUS
<1>2. PICK p : p = pc[c]
  OBVIOUS
<1>3. PICK next : next = [l.record EXCEPT !.behavioral =
                             IF At(c, "mark-consumed") THEN "consumed" ELSE "finalized"]
  OBVIOUS
<1>4. /\ p \in Finishing /\ p \in Acting /\ OnRecord /\ UNCHANGED answers /\ (Ok \/ Trouble)
      /\ (MayAdvance(l.record, next) /\ Advance(next)) \/ UNCHANGED record
      /\ \/ MayAdvance(l.record, next) /\ Advance(next) /\ Go(c, "issue", [l EXCEPT !.record = next])
         \/ Raise(c, l)
  BY <1>1, <1>2, <1>3 DEF MarkBehavioral, Mark, Throws, OnRecord, At, Finishing, Acting
<1>5. /\ Ready(c, p, l) /\ l \in Locals /\ ~l.attempted
      /\ l.record # None /\ l.record \in Records /\ l.record.status = "open"
  BY <1>1, <1>2, <1>4, CallOf DEF Ready, Locals
<1>6. next \in Records /\ next.status = "open" /\ next # None
  BY <1>3, <1>5 DEF Records, Behaviorals
<1>7. /\ Story' /\ OthersStay(c) /\ Caught(c, l)' /\ Enters(c, l, l)
      /\ Controller(c) \notin terminated'
      /\ MayAdvance(l.record, next) /\ Advance(next) => Behind(next)'
  BY <1>1, <1>2, <1>4, <1>5, <1>6, ActingMark
<1>8. Typed'
  BY <1>4, FaultsCounted DEF Inductive, Typed, OnRecord
<1>9. Lands(c, l)
  <2>1. CASE Raise(c, l)
    BY <1>5, <1>7, <2>1, RaiseLands
  <2>2. CASE MayAdvance(l.record, next) /\ Advance(next) /\ Go(c, "issue", [l EXCEPT !.record = next])
    <3>1. PICK m : m = [l EXCEPT !.record = next]
      OBVIOUS
    <3>2. /\ m \in Locals /\ m.record = next /\ m.recovering = l.recovering /\ ~m.attempted
          /\ m.finalization = l.finalization /\ m.checkpoint = l.checkpoint
      BY <1>5, <1>6, <3>1 DEF Locals
    <3>3. Caught(c, m)'
      BY <1>6, <1>7, <2>2, <3>2, CaughtMarked
    <3>4. Ready(c, "issue", m)' /\ "issue" \in Places /\ "issue" \in Acting
      BY <1>6, <3>2, <3>3 DEF Caught, Ready, Places, Acting, Alone, Finishing, Ending, Undoing, TakingOver
    <3> QED BY <1>7, <2>2, <3>1, <3>2, <3>4 DEF Lands, Enters
  <2> QED BY <1>4, <2>1, <2>2
<1> QED BY <1>1, <1>7, <1>8, <1>9, StepDone

(* The result is written to the record before the claim is completed with   *)
(* it.                                                                      *)
LEMMA IssueInductive ==
    ASSUME Inductive, NEW c \in Calls, Issue(c)
    PROVE  Inductive'
<1>1. PICK l : l = local[c]
  OBVIOUS
<1>2. PICK e : e = [by |-> c, named |-> l.record.behavioral = "finalized"]
  OBVIOUS
<1>3. PICK r : r = [l.record EXCEPT !.status = "result-issued"]
  OBVIOUS
<1>4. PICK next : next = [r EXCEPT !.envelope = e]
  OBVIOUS
<1>5. next = [l.record EXCEPT !.status = "result-issued", !.envelope = e]
  BY <1>3, <1>4
<1>6. /\ pc[c] = "issue" /\ "issue" \in Finishing /\ "issue" \in Acting
      /\ OnRecord /\ UNCHANGED answers /\ (Ok \/ Trouble)
      /\ (MayAdvance(l.record, next) /\ Advance(next)) \/ UNCHANGED record
      /\ \/ MayAdvance(l.record, next) /\ Advance(next)
            /\ Go(c, "complete", [l EXCEPT !.record = next, !.envelope = e])
         \/ Raise(c, l)
  BY <1>1, <1>2, <1>5 DEF Issue, Mark, Throws, OnRecord, At, Finishing, Acting
<1>7. /\ Ready(c, "issue", l) /\ l \in Locals /\ ~l.attempted
      /\ l.record # None /\ l.record \in Records
  BY <1>1, <1>6, CallOf DEF Ready, Locals
<1>8. e \in Envelopes
  BY <1>2 DEF Envelopes
<1>9. next \in Records /\ next.status = "result-issued" /\ next.envelope = e /\ next # None
  <2>1. r \in Records /\ r.status = "result-issued"
    BY <1>3, <1>7 DEF Records, Statuses
  <2> QED BY <1>4, <1>8, <2>1 DEF Records
<1>10. /\ Story' /\ OthersStay(c) /\ Caught(c, l)' /\ Enters(c, l, l)
       /\ Controller(c) \notin terminated'
       /\ MayAdvance(l.record, next) /\ Advance(next) => Behind(next)'
  BY <1>1, <1>6, <1>7, <1>9, ActingMark
<1>11. Typed'
  BY <1>6, FaultsCounted DEF Inductive, Typed, OnRecord
<1>12. Lands(c, l)
  <2>1. CASE Raise(c, l)
    BY <1>7, <1>10, <2>1, RaiseLands
  <2>2. CASE /\ MayAdvance(l.record, next) /\ Advance(next)
             /\ Go(c, "complete", [l EXCEPT !.record = next, !.envelope = e])
    <3>1. PICK k : k = [l EXCEPT !.record = next]
      OBVIOUS
    <3>2. /\ k \in Locals /\ k.record = next /\ k.recovering = l.recovering /\ ~k.attempted
          /\ k.finalization = l.finalization /\ k.checkpoint = l.checkpoint
      BY <1>7, <1>9, <3>1 DEF Locals
    <3>3. PICK m : m = [k EXCEPT !.envelope = e]
      OBVIOUS
    <3>4. /\ m \in Locals /\ m.record = next /\ m.recovering = l.recovering /\ ~m.attempted
          /\ m.finalization = l.finalization /\ m.checkpoint = l.checkpoint /\ m.envelope = e
      BY <1>8, <3>2, <3>3 DEF Locals
    <3>5. Go(c, "complete", m)
      BY <2>2, <3>1, <3>3
    <3>6. Caught(c, m)'
      BY <1>9, <1>10, <2>2, <3>4, CaughtMarked
    <3>7. Ready(c, "complete", m)' /\ "complete" \in Places /\ "complete" \in Acting
      BY <1>9, <3>4, <3>6 DEF Caught, Ready, IsIssued, Places, Acting, Alone, Finishing, Ending, Undoing, TakingOver
    <3> QED BY <1>10, <3>4, <3>5, <3>7 DEF Lands, Enters
  <2> QED BY <1>6, <2>1, <2>2
<1> QED BY <1>1, <1>10, <1>11, <1>12, StepDone

(* The claim is completed with the record's result; the call may fail after *)
(* it.                                                                      *)
LEMMA CompleteClaimInductive ==
    ASSUME Inductive, NEW c \in Calls, CompleteClaim(c)
    PROVE  Inductive'
<1>1. PICK l : l = local[c]
  OBVIOUS
<1>2. PICK k : k = [l EXCEPT !.attempted = TRUE]
  OBVIOUS
<1>3. /\ pc[c] = "complete" /\ "complete" \in Acting /\ (Ok \/ Trouble) /\ OnLedger
  BY DEF CompleteClaim, Throws, At, Acting
<1>4. /\ Ready(c, "complete", l) /\ l \in Locals /\ IsIssued(l) /\ Working(c, l)
      /\ claim # None /\ Controller(c) \notin terminated /\ Behind(l.record)
  BY <1>1, <1>3, CallOf DEF Ready, IsIssued
<1>5. /\ k \in Locals /\ k.record = l.record /\ k.envelope = l.envelope /\ k.attempted = TRUE
      /\ k.recovering = l.recovering /\ k.checkpoint = l.checkpoint
      /\ k.finalization = l.finalization
  BY <1>2, <1>4 DEF Locals
<1>6. UNCHANGED <<terminated, record, runs, raw, answers, preparation, bundle>>
  BY <1>3 DEF OnLedger, stores, work
<1>7. Typed'
  BY <1>3, <1>6, FaultsCounted DEF Inductive, Typed
<1>8. IsIssued(k) /\ Enters(c, l, k)
  BY <1>1, <1>3, <1>4, <1>5 DEF IsIssued, Enters
<1>9. CASE UNCHANGED claim /\ Raise(c, k)
  <2>1. UNCHANGED <<claim, terminated, record, runs>>
    BY <1>6, <1>9
  <2>2. Story' /\ OthersStay(c) /\ Caught(c, l)'
    BY <1>1, <1>3, <2>1, QuietStep
  <2>3. Caught(c, k)'
    BY <1>5, <2>2, CaughtSame
  <2>4. Lands(c, l)
    BY <1>8, <1>9, <2>3, RaiseLands
  <2> QED BY <1>1, <1>7, <2>2, <2>4, StepDone
<1>10. CASE InFlight /\ Complete(l.envelope) /\ (Go(c, "mark-completed", k) \/ Raise(c, k))
  <2>1. claim \in Claims(Records) /\ claim.status = "in-flight" /\ Story
    BY <1>10 DEF Inductive, Story, InFlight
  <2>2. l.envelope \in Envelopes /\ l.record \in Records /\ Consistent(l.record)
    BY <1>4 DEF IsIssued, Locals, Behind, Consistent, Records
  <2>3. PICK q : q = [claim EXCEPT !.status = "completed"]
    OBVIOUS
  <2>4. claim' = [q EXCEPT !.envelope = l.envelope]
    BY <1>10, <2>3 DEF Complete
  <2>5. /\ q \in Claims(Records) /\ q.status = "completed" /\ q.owner = claim.owner
        /\ q.token = claim.token /\ q.recovered = claim.recovered
    BY <2>1, <2>3 DEF Claims
  <2>6. /\ claim' \in Claims(Records) /\ claim'.status = "completed" /\ claim'.owner = claim.owner
        /\ claim'.token = claim.token /\ claim'.recovered = claim.recovered
        /\ claim'.envelope = l.envelope
    BY <2>2, <2>4, <2>5 DEF Claims
  <2>7. claim' # None
    BY <2>6
  <2>8. record # None /\ record.status # "open" /\ record.envelope = l.envelope
    BY <1>4, <2>2 DEF Behind, IsIssued
  <2>9. Story'
    BY <1>6, <2>1, <2>2, <2>6, <2>7, <2>8 DEF Story
  <2>10. \A r : Behind(r) => Behind(r)'
    BY <1>6 DEF Behind
  <2>11. OthersStay(c)
    <3>1. ASSUME NEW d \in Calls, d # c, NEW q0, NEW m, q0 = pc[d], m = local[d]
          PROVE  Ready(d, q0, m)'
      <4>1. Ready(d, q0, m)
        BY <3>1, CallOf
      <4>2. Working(d, m) => Working(d, m)'
        BY <1>6, <2>6 DEF Working
      <4> QED BY <1>6, <2>1, <2>6, <2>7, <2>10, <4>1, <4>2 DEF Ready, IsAnswer, IsIssued
    <3> QED BY <3>1 DEF OthersStay
  <2>12. Caught(c, k)'
    <3>1. Working(c, l)'
      BY <1>4, <1>6, <2>6 DEF Working
    <3>2. Caught(c, l)'
      BY <1>4, <1>6, <2>7, <2>10, <3>1 DEF Caught
    <3> QED BY <1>5, <3>2, CaughtSame
  <2>13. Lands(c, l)
    <3>1. CASE Raise(c, k)
      BY <1>8, <2>12, <3>1, RaiseLands
    <3>2. CASE Go(c, "mark-completed", k)
      <4>1. IsAnswer(k)'
        BY <1>5, <2>6 DEF IsAnswer
      <4>2. Ready(c, "mark-completed", k)'
        BY <1>8, <2>12, <4>1 DEF Caught, Ready, IsIssued, Places, Acting, Alone, Finishing, Ending, Undoing, TakingOver
      <4>3. "mark-completed" \in Places /\ "mark-completed" \in Acting
        BY DEF Places, Acting, Ending
      <4> QED BY <1>5, <1>8, <3>2, <4>2, <4>3 DEF Lands, Enters
    <3> QED BY <1>10, <3>1, <3>2
  <2> QED BY <1>1, <1>7, <2>9, <2>11, <2>13, StepDone
<1> QED BY <1>1, <1>2, <1>9, <1>10 DEF CompleteClaim, MayComplete

(* A completed record is a record.                                          *)
LEMMA CompletedIs ==
    ASSUME NEW r \in Records
    PROVE  Completed(r) \in Records /\ Completed(r).status = "completed"
BY DEF Completed, Records, Statuses

(* The record is completed after its claim.                                 *)
LEMMA MarkCompletedInductive ==
    ASSUME Inductive, NEW c \in Calls, MarkCompleted(c)
    PROVE  Inductive'
<1>1. PICK l : l = local[c]
  OBVIOUS
<1>2. PICK p : p = pc[c]
  OBVIOUS
<1>3. PICK next : next = Completed(l.record)
  OBVIOUS
<1>4. /\ p \in Ending /\ p \in Acting /\ OnRecord /\ (Ok \/ Trouble)
      /\ (MayAdvance(l.record, next) /\ Advance(next)) \/ UNCHANGED record
      /\ \/ Answer(c, l.envelope)
         \/ UNCHANGED answers /\ (Raise(c, l) \/ Undo(c, [l EXCEPT !.known = FALSE]))
  BY <1>1, <1>2, <1>3 DEF MarkCompleted, Mark, Throws, OnRecord, At, Ending, Acting
<1>5. /\ Ready(c, p, l) /\ l \in Locals /\ IsIssued(l) /\ IsAnswer(l) /\ claim # None
      /\ l.record # None /\ l.record \in Records /\ Behind(l.record)
  BY <1>1, <1>2, <1>4, CallOf DEF Ready, Ending, IsIssued, Locals
<1>6. next \in Records /\ claim.status = "completed"
  BY <1>3, <1>5, CompletedIs DEF IsAnswer
<1>7. /\ Story' /\ OthersStay(c) /\ Caught(c, l)' /\ Enters(c, l, l)
      /\ Controller(c) \notin terminated'
  BY <1>1, <1>2, <1>4, <1>5, <1>6, ActingMark
<1>8. l.envelope \in Envelopes
  BY <1>5 DEF IsIssued, Locals, Behind, Consistent
<1>9. Typed'
  BY <1>4, <1>8, FaultsCounted DEF Inductive, Typed, OnRecord, Answer
<1>10. Lands(c, l)
  <2>1. CASE Raise(c, l)
    BY <1>5, <1>7, <2>1, RaiseLands
  <2>2. CASE Undo(c, [l EXCEPT !.known = FALSE])
    <3>1. PICK m : m = [l EXCEPT !.known = FALSE]
      OBVIOUS
    <3>2. Caught(c, m)' /\ Enters(c, l, m)
      BY <1>7, <3>1, CaughtWith
    <3>3. Undo(c, m)
      BY <2>2, <3>1
    <3> QED BY <3>2, <3>3, UndoLands
  <2>3. CASE Answer(c, l.envelope)
    BY <1>7, <2>3, ThrowLands DEF Answer
  <2> QED BY <1>4, <2>1, <2>2, <2>3
<1> QED BY <1>1, <1>7, <1>9, <1>10, StepDone

(* A claim is acquired while every call is idle or down. *)
LEMMA AcquireInductive ==
    ASSUME Inductive, NEW c \in Calls, pc[c] = "idle", claim = None, Acquire(Controller(c)),
           OnLedger, Ok \/ Trouble, NEW p, NEW k, Go(c, p, k),
           \/ p = "idle" /\ k = NoCall
           \/ p = "bind" /\ k = [NoCall EXCEPT !.token = 1]
    PROVE  Inductive'
<1>1. UNCHANGED <<terminated, record, runs, raw, answers, preparation, bundle>>
  BY DEF OnLedger, stores, work
<1>2. record = None /\ runs = 0
  BY DEF Inductive, Story
<1>3. Controller(c) \in Controllers /\ Controller(c) \notin terminated
  BY CallOf DEF Ready
<1>4. /\ claim' \in Claims(Records) /\ claim'.status = "in-flight"
      /\ claim'.owner = Controller(c) /\ claim'.recovered = None
  BY <1>3 DEF Acquire, Claims
<1>5. claim' # None
  BY <1>4
<1>6. Story'
  BY <1>1, <1>2, <1>4, <1>5 DEF Story
<1>7. Typed'
  BY <1>1, FaultsCounted DEF Inductive, Typed
<1>8. ASSUME NEW d \in Calls, NEW q, q = pc[d], NEW m, m = local[d]
      PROVE  Ready(d, q, m)' /\ q \in {"idle", "down"}
  <2>1. Ready(d, q, m)
    BY <1>8, CallOf
  <2>2. q \in {"idle", "down"} /\ m.record = None
    BY <1>2, <2>1 DEF Ready, Behind
  <2> QED BY <1>1, <1>5, <2>1, <2>2 DEF Ready, Places, Acting, Alone, Finishing, Ending, Undoing, TakingOver
<1>9. p \in {"idle", "bind"}
  OBVIOUS
<1>10. /\ k \in Locals /\ k.record = None /\ ~k.recovering /\ ~k.checkpoint
       /\ ~k.attempted /\ ~k.finalization
  <2>1. CASE k = NoCall
    BY <2>1, NoCallIs
  <2>2. CASE k = [NoCall EXCEPT !.token = 1]
    BY <2>2, NoCallIs DEF Locals
  <2> QED BY <2>1, <2>2
<1>11. Ready(c, p, k)'
  <2>1. CASE p = "idle"
    BY <1>1, <1>3, <1>10, <2>1 DEF Ready, Places, Acting, Alone, Finishing, Ending, Undoing, TakingOver
  <2>2. CASE p = "bind"
    <3>1. Working(c, k)'
      BY <1>1, <1>2, <1>4, <1>10 DEF Working
    <3> QED BY <1>1, <1>2, <1>3, <1>5, <1>10, <2>2, <3>1
            DEF Ready, Places, Acting, Alone, Finishing, Ending, Undoing, TakingOver
  <2> QED BY <1>9, <2>1, <2>2
<1>12. /\ pc \in [Calls -> Places] /\ local \in [Calls -> Locals] /\ p \in Places
       /\ pc' = [pc EXCEPT ![c] = p] /\ local' = [local EXCEPT ![c] = k]
  BY <1>9 DEF Inductive, CallsInv, Go, Places, Acting, Alone
<1>13. /\ pc' \in [Calls -> Places] /\ local' \in [Calls -> Locals]
       /\ pc'[c] = p /\ local'[c] = k
       /\ \A d \in Calls : d # c => pc'[d] = pc[d] /\ local'[d] = local[d]
  BY <1>10, <1>12
<1>14. ASSUME NEW d \in Calls
       PROVE  Ready(d, pc[d], local[d])' /\ (First(d)' => d = c)
  <2>1. PICK q, m : q = pc'[d] /\ m = local'[d]
    OBVIOUS
  <2>2. Ready(d, q, m)' /\ (d # c => q \in {"idle", "down"})
    <3>1. CASE d = c
      BY <1>11, <1>13, <2>1, <3>1
    <3>2. CASE d # c
      BY <1>8, <1>13, <2>1, <3>2
    <3> QED BY <3>1, <3>2
  <2>3. Ready(d, pc[d], local[d])'
    BY <2>1, <2>2 DEF Ready, Working, IsIssued, IsAnswer
  <2> QED BY <2>1, <2>2, <2>3 DEF First, Acting, Alone, Finishing, Ending, Undoing
<1>15. CallsInv'
  BY <1>13, <1>14 DEF CallsInv
<1> QED BY <1>6, <1>7, <1>15 DEF Inductive

(* A call acquires the claim, or finds it taken.                            *)
LEMMA EvaluateInductive ==
    ASSUME Inductive, NEW c \in Calls, Evaluate(c)
    PROVE  Inductive'
<1>1. PICK l : l = local[c]
  OBVIOUS
<1>2. pc[c] = "idle" /\ OnLedger /\ (Ok \/ Trouble)
  BY DEF Evaluate, At
<1>3. CASE /\ claim = None /\ Acquire(Controller(c))
           /\ Go(c, "bind", [NoCall EXCEPT !.token = 1]) \/ Throw(c)
  <2>1. CASE Throw(c)
    BY <1>2, <1>3, <2>1, AcquireInductive DEF Throw
  <2>2. CASE Go(c, "bind", [NoCall EXCEPT !.token = 1])
    BY <1>2, <1>3, <2>2, AcquireInductive
  <2> QED BY <1>3, <2>1, <2>2
<1>4. ASSUME UNCHANGED claim, NEW p, NEW m, Go(c, p, m),
             \/ p = "lookup" /\ m = NoCall /\ InFlight
             \/ /\ p = "answer" /\ claim # None /\ claim.status = "completed"
                /\ m = [NoCall EXCEPT !.envelope = claim.envelope]
      PROVE  Inductive'
  <2>1. UNCHANGED <<claim, terminated, record, runs>>
    BY <1>2, <1>4 DEF OnLedger, stores, work
  <2>2. Story' /\ OthersStay(c)
    BY <2>1, SameStory, SameOthers DEF Inductive
  <2>3. Typed'
    BY <1>2, FaultsCounted DEF Inductive, Typed, OnLedger, stores, work
  <2>4. claim # None /\ claim.envelope \in Envelopes \cup {None} /\ Controller(c) \notin terminated
    BY <1>1, <1>2, <1>4, CallOf DEF Inductive, Story, Ready, InFlight, Claims
  <2>5. /\ m \in Locals /\ m.record = None /\ ~m.recovering
        /\ p = "answer" => m.envelope = claim.envelope
    <3>1. CASE m = NoCall /\ p = "lookup"
      BY <3>1, NoCallIs
    <3>2. CASE m = [NoCall EXCEPT !.envelope = claim.envelope]
      BY <2>4, <3>2, NoCallIs DEF Locals
    <3> QED BY <1>4, <3>1, <3>2
  <2>6. Ready(c, p, m) /\ p \in Places /\ p \notin Acting
    BY <1>4, <2>4, <2>5 DEF Ready, IsAnswer, Places, Acting, Alone, Finishing, Ending, Undoing, TakingOver
  <2>7. Ready(c, p, m)'
    BY <2>1, <2>6, SameReady
  <2>8. Lands(c, l)
    BY <1>4, <2>5, <2>6, <2>7 DEF Lands
  <2> QED BY <1>1, <2>2, <2>3, <2>8, StepDone
<1> QED BY <1>3, <1>4 DEF Evaluate, MayClaim

---------------------------------------------------------------------------
(* The steps of a takeover *)

(* A call that did not acquire the claim reads it and its record.           *)
LEMMA LookupInductive ==
    ASSUME Inductive, NEW c \in Calls, Lookup(c)
    PROVE  Inductive'
<1>1. PICK l : l = local[c]
  OBVIOUS
<1>2. pc[c] = "lookup" /\ OnNothing /\ (Ok \/ Trouble)
  BY DEF Lookup, At
<1>3. UNCHANGED <<claim, terminated, record, runs>>
  BY <1>2 DEF OnNothing, stores, work
<1>4. Story' /\ OthersStay(c)
  BY <1>3, SameStory, SameOthers DEF Inductive
<1>5. Typed'
  BY <1>2, FaultsCounted DEF Inductive, Typed, OnNothing, stores, work
<1>6. claim # None /\ Controller(c) \notin terminated
  BY <1>1, <1>2, CallOf DEF Ready
<1>7. Lands(c, l)
  <2>1. CASE Throw(c)
    BY <1>3, <1>6, <2>1, ThrowLands
  <2>2. CASE record # None /\ Go(c, "takeover", [NoCall EXCEPT !.record = record,
                                   !.envelope = record.envelope, !.recovering = TRUE])
    <3>1. PICK r \in Records : r = record
      BY <2>2 DEF Inductive, Story
    <3>2. PICK i : i = [NoCall EXCEPT !.record = r]
      OBVIOUS
    <3>3. PICK j : j = [i EXCEPT !.envelope = r.envelope]
      OBVIOUS
    <3>4. PICK m : m = [j EXCEPT !.recovering = TRUE]
      OBVIOUS
    <3>5. i \in Locals /\ i.record = r /\ ~i.attempted
      BY <3>2, NoCallIs DEF Locals
    <3>6. j \in Locals /\ j.record = r /\ j.envelope = r.envelope /\ ~j.attempted
      BY <3>3, <3>5 DEF Locals, Records
    <3>7. m \in Locals /\ m.record = r /\ m.envelope = r.envelope /\ ~m.attempted /\ m.recovering
      BY <3>4, <3>6 DEF Locals
    <3>8. Go(c, "takeover", m)
      BY <2>2, <3>1, <3>2, <3>3, <3>4
    <3>9. Behind(r) /\ r # None
      BY <3>1, <2>2 DEF Behind, Inductive, Story
    <3>10. Ready(c, "takeover", m)
      BY <1>6, <3>7, <3>9 DEF Ready, Places, Acting, Alone, Finishing, Ending, Undoing, TakingOver
    <3>11. Ready(c, "takeover", m)'
      BY <1>3, <3>10, SameReady
    <3>12. "takeover" \in Places /\ "takeover" \notin Acting
      BY DEF Places, Acting, Alone, Finishing, Ending, Undoing, TakingOver
    <3> QED BY <3>7, <3>8, <3>11, <3>12 DEF Lands
  <2> QED BY <2>1, <2>2 DEF Lookup
<1> QED BY <1>1, <1>4, <1>5, <1>7, StepDone

(* Where the recovery continues, its call may. *)
LEMMA ResumeLands ==
    ASSUME NEW c \in Calls, NEW token \in Nat, NEW l, l = local[c], pc[c] \in TakingOver,
           l.recovering, l.record # None, ~l.attempted, l.envelope = l.record.envelope,
           l \in Locals, Caught(c, l)', Resume(c, token)
    PROVE  Lands(c, l)
<1>1. PICK m : m = [l EXCEPT !.token = token]
  OBVIOUS
<1>2. /\ m \in Locals /\ m.record = l.record /\ m.recovering = l.recovering
      /\ m.envelope = l.envelope /\ m.checkpoint = l.checkpoint
      /\ m.finalization = l.finalization /\ ~m.attempted
  BY <1>1 DEF Locals
<1>3. Caught(c, m)'
  BY <1>2, CaughtSame
<1>4. Enters(c, l, m)
  BY <1>2 DEF Enters
<1>5. PICK r \in Records : r = m.record
  BY <1>2 DEF Locals
<1>6. Behind(r)' /\ m.recovering /\ m.record # None /\ m.envelope = r.envelope
  BY <1>2, <1>3, <1>5 DEF Caught
<1>7. /\ Resume(c, token) =
           CASE r.status = "failed" -> Go(c, "consume-claim", m)
             [] r.status = "completed" -> Throw(c)
             [] r.status = "result-issued" /\ r.behavioral # "finalized" -> Go(c, "complete", m)
             [] r.status = "open" /\ r.behavioral = "abandoned" -> Raise(c, m)
             [] r.status = "open" /\ r.behavioral \in {"none", "consumed"} -> Go(c, "issue", m)
             [] OTHER -> Go(c, "check", m)
  BY <1>1, <1>2, <1>5 DEF Resume
<1>8. CASE r.status = "failed" /\ Go(c, "consume-claim", m)
  <2>1. record'.status = "failed"
    BY <1>6, <1>8 DEF Behind
  <2>2. Ready(c, "consume-claim", m)' /\ "consume-claim" \in Places /\ "consume-claim" \in Acting
    BY <1>3, <2>1 DEF Caught, Ready, Places, Acting, Alone, Finishing, Ending, Undoing, TakingOver
  <2> QED BY <1>2, <1>4, <1>8, <2>2 DEF Lands, Enters
<1>9. CASE Throw(c)
  BY <1>3, <1>9, ThrowLands DEF Caught
<1>10. CASE r.status = "result-issued" /\ Go(c, "complete", m)
  <2>1. Ready(c, "complete", m)' /\ "complete" \in Places /\ "complete" \in Acting
    BY <1>2, <1>3, <1>5, <1>6, <1>10
       DEF Caught, Ready, IsIssued, Places, Acting, Alone, Finishing, Ending, Undoing, TakingOver
  <2> QED BY <1>2, <1>4, <1>10, <2>1 DEF Lands, Enters
<1>11. CASE Raise(c, m)
  BY <1>2, <1>3, <1>4, <1>11, RaiseLands
<1>12. CASE r.status = "open" /\ Go(c, "issue", m)
  <2>1. Ready(c, "issue", m)' /\ "issue" \in Places /\ "issue" \in Acting
    BY <1>2, <1>3, <1>5, <1>6, <1>12
       DEF Caught, Ready, Places, Acting, Alone, Finishing, Ending, Undoing, TakingOver
  <2> QED BY <1>2, <1>4, <1>12, <2>1 DEF Lands, Enters
<1>13. CASE r.status \in {"open", "result-issued"} /\ Go(c, "check", m)
  <2>1. Ready(c, "check", m)' /\ "check" \in Places /\ "check" \in Acting
    BY <1>2, <1>3, <1>5, <1>6, <1>13
       DEF Caught, Ready, Places, Acting, Alone, Finishing, Ending, Undoing, TakingOver
  <2> QED BY <1>2, <1>4, <1>13, <2>1 DEF Lands, Enters
<1>14. r.status \in Statuses
  BY DEF Records
<1> QED BY <1>7, <1>8, <1>9, <1>10, <1>11, <1>12, <1>13, <1>14 DEF Statuses

(* A settled claim is answered, or not. *)
LEMMA SettledLands ==
    ASSUME Inductive, NEW c \in Calls, NEW l, l = local[c], NEW p, p = pc[c], p \in TakingOver,
           UNCHANGED <<claim, terminated, record, runs>>, Settled(c) \/ Throw(c)
    PROVE  Lands(c, l)
<1>1. Ready(c, p, l) /\ l \in Locals /\ Controller(c) \notin terminated
  BY CallOf DEF Ready, TakingOver
<1>2. CASE Throw(c)
  BY <1>1, <1>2, ThrowLands
<1>3. CASE Go(c, "answer", l) /\ claim.status = "completed" /\ l.envelope = claim.envelope
  <2>1. Ready(c, "answer", l)
    BY <1>1, <1>3 DEF Ready, IsAnswer, Places, Acting, Alone, Finishing, Ending, Undoing, TakingOver
  <2>2. "answer" \in Places /\ "answer" \notin Acting
    BY DEF Places, Acting, Alone, Finishing, Ending, Undoing
  <2> QED BY <1>1, <1>3, <2>1, <2>2, SameReady DEF Lands
<1> QED BY <1>2, <1>3 DEF Settled

(* A successor finds the claim settled, or asks about its owner.            *)
LEMMA TakeoverInductive ==
    ASSUME Inductive, NEW c \in Calls, Takeover(c)
    PROVE  Inductive'
<1>1. PICK l : l = local[c]
  OBVIOUS
<1>2. pc[c] = "takeover" /\ "takeover" \in TakingOver /\ OnNothing /\ (Ok \/ Trouble)
  BY DEF Takeover, At, TakingOver
<1>3. UNCHANGED <<claim, terminated, record, runs>>
  BY <1>2 DEF OnNothing, stores, work
<1>4. Story' /\ OthersStay(c)
  BY <1>3, SameStory, SameOthers DEF Inductive
<1>5. Typed'
  BY <1>2, FaultsCounted DEF Inductive, Typed, OnNothing, stores, work
<1>6. /\ Ready(c, "takeover", l) /\ l \in Locals /\ claim # None /\ claim \in Claims(Records)
      /\ Controller(c) \notin terminated
      /\ l.recovering /\ l.record # None /\ ~l.attempted /\ l.envelope = l.record.envelope
  BY <1>1, <1>2, CallOf DEF Ready, TakingOver, Inductive, Story
<1>7. Lands(c, l)
  <2>1. CASE Settled(c) \/ Throw(c)
    BY <1>1, <1>2, <1>3, <2>1, SettledLands
  <2>2. CASE HeldByRecovery(Controller(c), l.record) /\ Resume(c, claim.token)
    <3>1. Working(c, l)
      BY <1>6, <2>2 DEF Working, HeldByRecovery
    <3>2. Caught(c, l)
      BY <1>6, <3>1 DEF Caught, Ready
    <3>3. Caught(c, l)'
      BY <1>3, <3>2 DEF Caught, Working, Behind
    <3>4. claim.token \in Nat
      BY <1>6 DEF Claims
    <3> QED BY <1>1, <1>2, <1>6, <2>2, <3>3, <3>4, ResumeLands
  <2>3. CASE MayAuthorize(Controller(c)) /\ Go(c, "rotate", [l EXCEPT !.token = claim.token])
    <3>1. PICK m : m = [l EXCEPT !.token = claim.token]
      OBVIOUS
    <3>2. /\ m \in Locals /\ m.recovering /\ m.record = l.record /\ ~m.attempted
          /\ m.envelope = l.envelope /\ m.token = claim.token /\ claim.token \in Nat
      BY <1>6, <3>1 DEF Locals, Claims
    <3>3. claim.owner \in terminated
      BY <2>3 DEF MayAuthorize
    <3>4. Ready(c, "rotate", m)
      BY <1>6, <3>2, <3>3 DEF Ready, Places, Acting, Alone, Finishing, Ending, Undoing, TakingOver
    <3>5. "rotate" \in Places /\ "rotate" \notin Acting
      BY DEF Places, TakingOver, Acting, Alone, Finishing, Ending, Undoing
    <3> QED BY <1>3, <2>3, <3>1, <3>2, <3>4, <3>5, SameReady DEF Lands
  <2> QED BY <1>1, <2>1, <2>2, <2>3 DEF Takeover
<1> QED BY <1>1, <1>4, <1>5, <1>7, StepDone

(* The claim of a terminated owner changes hands.                           *)
LEMMA RotateClaimInductive ==
    ASSUME Inductive, NEW c \in Calls, RotateClaim(c)
    PROVE  Inductive'
<1>1. PICK l : l = local[c]
  OBVIOUS
<1>2. pc[c] = "rotate" /\ "rotate" \in TakingOver /\ OnLedger /\ (Ok \/ Trouble)
  BY DEF RotateClaim, At, TakingOver
<1>3. UNCHANGED <<terminated, record, runs, raw, answers, preparation, bundle>>
  BY <1>2 DEF OnLedger, stores, work
<1>4. Typed'
  BY <1>2, <1>3, FaultsCounted DEF Inductive, Typed
<1>5. /\ Ready(c, "rotate", l) /\ l \in Locals /\ claim # None /\ claim \in Claims(Records)
      /\ Controller(c) \in Controllers /\ Controller(c) \notin terminated
      /\ l.recovering /\ l.record # None /\ ~l.attempted /\ l.envelope = l.record.envelope
      /\ l.record \in Records
  BY <1>1, <1>2, CallOf DEF Ready, TakingOver, Inductive, Story, Locals
<1>6. CASE UNCHANGED claim /\ (Settled(c) \/ Throw(c))
  <2>1. UNCHANGED <<claim, terminated, record, runs>>
    BY <1>3, <1>6
  <2>2. Lands(c, l)
    BY <1>1, <1>2, <1>6, <2>1, SettledLands
  <2> QED BY <1>1, <1>4, <2>1, <2>2, SameStory, SameOthers, StepDone DEF Inductive
<1>7. CASE /\ Unchanged(l.token) /\ Rotate(Controller(c), l.record)
           /\ Resume(c, claim.token + 1) \/ Throw(c)
  <2>1. claim.status = "in-flight" /\ claim.owner \in terminated /\ claim.token \in Nat
    BY <1>5, <1>7 DEF Unchanged, InFlight, Ready, Claims
  <2>2. PICK q : q = [claim EXCEPT !.owner = Controller(c)]
    OBVIOUS
  <2>3. PICK k : k = [q EXCEPT !.token = claim.token + 1]
    OBVIOUS
  <2>4. claim' = [k EXCEPT !.recovered = l.record]
    BY <1>5, <1>7, <2>2, <2>3 DEF Rotate, Claims
  <2>5. /\ q \in Claims(Records) /\ q.owner = Controller(c) /\ q.status = claim.status
        /\ q.envelope = claim.envelope
    BY <1>5, <2>2 DEF Claims
  <2>6. /\ k \in Claims(Records) /\ k.owner = Controller(c) /\ k.status = claim.status
        /\ k.envelope = claim.envelope /\ k.token = claim.token + 1
    BY <2>1, <2>3, <2>5 DEF Claims
  <2>7. /\ claim' \in Claims(Records) /\ claim'.owner = Controller(c)
        /\ claim'.status = "in-flight" /\ claim'.token = claim.token + 1
        /\ claim'.recovered = l.record
    BY <1>5, <2>1, <2>4, <2>6 DEF Claims
  <2>8. claim' # None
    BY <2>7
  <2>9. Story'
    BY <1>3, <2>1, <2>7, <2>8 DEF Inductive, Story
  <2>10. \A r : Behind(r) => Behind(r)'
    BY <1>3 DEF Behind
  <2>11. OthersStay(c)
    <3>1. ASSUME NEW d \in Calls, d # c, NEW p, NEW m, p = pc[d], m = local[d]
          PROVE  Ready(d, p, m)'
      <4>1. Ready(d, p, m) /\ m \in Locals
        BY <3>1, CallOf
      <4>2. p \notin Acting
        BY <2>1, <4>1 DEF Ready, Working, Acting, Alone, Finishing, Ending, Undoing
      <4>3. p \notin Ending \cup {"answer"}
        BY <2>1, <4>1 DEF Ready, IsAnswer
      <4>4. p = "rotate" => m.token <= claim'.token /\ m.token # claim'.token
        BY <2>1, <2>7, <4>1 DEF Ready, Locals
      <4> QED BY <1>3, <2>8, <2>10, <4>1, <4>2, <4>3, <4>4 DEF Ready, IsIssued, Acting
    <3> QED BY <3>1 DEF OthersStay
  <2>12. Lands(c, l)
    <3>1. CASE Throw(c)
      BY <1>3, <1>5, <3>1, ThrowLands
    <3>2. CASE Resume(c, claim.token + 1)
      <4>1. Working(c, l)'
        BY <1>5, <2>7 DEF Working
      <4>2. Behind(l.record)
        BY <1>5 DEF Ready
      <4>3. Caught(c, l)'
        BY <1>3, <1>5, <2>8, <2>10, <4>1, <4>2 DEF Caught
      <4>4. claim.token + 1 \in Nat
        BY <2>1
      <4> QED BY <1>1, <1>2, <1>5, <3>2, <4>3, <4>4, ResumeLands
    <3> QED BY <1>7, <3>1, <3>2
  <2> QED BY <1>1, <1>4, <2>9, <2>11, <2>12, StepDone
<1> QED BY <1>1, <1>6, <1>7 DEF RotateClaim

(* The new owner goes on from where the preparation is.                     *)
LEMMA CheckInductive ==
    ASSUME Inductive, NEW c \in Calls, Check(c)
    PROVE  Inductive'
<1>1. PICK l : l = local[c]
  OBVIOUS
<1>2. PICK r : r = [l.record EXCEPT !.behavioral = "abandoned"]
  OBVIOUS
<1>3. PICK gone : gone = [l.record EXCEPT !.behavioral = "abandoned",
                             !.status = IF @ = "result-issued" THEN "failed" ELSE @]
  OBVIOUS
<1>4. pc[c] = "check" /\ "check" \in Acting
  BY DEF Check, At, Acting
<1>5. /\ Ready(c, "check", l) /\ l \in Locals /\ ~l.attempted /\ l.recovering
      /\ l.record # None /\ l.record \in Records /\ Behind(l.record)
      /\ l.record.status \in {"open", "result-issued"} /\ l.envelope = l.record.envelope
  BY <1>1, <1>4, CallOf DEF Ready, Working, Locals
<1>6. CASE /\ OnRecord /\ UNCHANGED answers /\ (Ok \/ Trouble)
           /\ (MayAdvance(l.record, gone) /\ Advance(gone)) \/ UNCHANGED record
           /\ \/ MayAdvance(l.record, gone) /\ Advance(gone) /\ Raise(c, [l EXCEPT !.record = gone])
              \/ Raise(c, l)
  <2>1. gone \in Records /\ gone.status # "completed" /\ gone # None
    <3>1. r \in Records /\ r.status = l.record.status
      BY <1>2, <1>5 DEF Records, Behaviorals
    <3>2. gone = [r EXCEPT !.status = IF @ = "result-issued" THEN "failed" ELSE @]
      BY <1>2, <1>3, <1>5 DEF Records
    <3>3. gone \in Records /\ gone.status # "completed"
      BY <1>5, <3>1, <3>2 DEF Records, Statuses
    <3> QED BY <3>3
  <2>2. /\ Story' /\ OthersStay(c) /\ Caught(c, l)' /\ Enters(c, l, l)
        /\ MayAdvance(l.record, gone) /\ Advance(gone) => Behind(gone)'
    BY <1>1, <1>4, <1>5, <1>6, <2>1, ActingMark
  <2>3. Typed'
    BY <1>6, FaultsCounted DEF Inductive, Typed, OnRecord
  <2>4. Lands(c, l)
    <3>1. CASE Raise(c, l)
      BY <1>5, <2>2, <3>1, RaiseLands
    <3>2. CASE MayAdvance(l.record, gone) /\ Advance(gone) /\ Raise(c, [l EXCEPT !.record = gone])
      <4>1. PICK m : m = [l EXCEPT !.record = gone]
        OBVIOUS
      <4>2. /\ m \in Locals /\ m.record = gone /\ m.recovering = l.recovering /\ ~m.attempted
            /\ m.finalization = l.finalization /\ m.checkpoint = l.checkpoint
        BY <1>5, <2>1, <4>1 DEF Locals
      <4>3. Caught(c, m)'
        BY <2>1, <2>2, <3>2, <4>2, CaughtMarked
      <4>4. Enters(c, l, m) /\ Raise(c, m)
        BY <2>2, <3>2, <4>1, <4>2 DEF Enters
      <4> QED BY <4>2, <4>3, <4>4, RaiseLands
    <3> QED BY <1>6, <3>1, <3>2
  <2> QED BY <1>1, <2>2, <2>3, <2>4, StepDone
<1>7. CASE /\ OnNothing /\ (Ok \/ Trouble)
           /\ \/ Checked(l.record) # "detached" /\ Go(c, Checked(l.record), l)
              \/ Raise(c, l)
  <2>1. UNCHANGED <<claim, terminated, record, runs>>
    BY <1>7 DEF OnNothing, stores, work
  <2>2. Story' /\ OthersStay(c) /\ Caught(c, l)' /\ Enters(c, l, l)
    BY <1>1, <1>4, <2>1, QuietStep
  <2>3. Typed'
    BY <1>7, FaultsCounted DEF Inductive, Typed, OnNothing, stores, work
  <2>4. Lands(c, l)
    <3>1. CASE Raise(c, l)
      BY <1>5, <2>2, <3>1, RaiseLands
    <3>2. CASE Checked(l.record) # "detached" /\ Go(c, Checked(l.record), l)
      <4>1. PICK p : p = Checked(l.record)
        OBVIOUS
      <4>2. \/ p \in {"finalize", "mark-finalized", "mark-consumed"} /\ l.record.behavioral = "prepared"
            \/ p = "issue" /\ l.record.status = "open"
            \/ p = "complete" /\ l.record.status # "open"
        BY <3>2, <4>1 DEF Checked
      <4>3. \/ p \in Finishing /\ l.record.status = "open"
            \/ p = "complete" /\ l.record.status = "result-issued"
        BY <1>5, <4>2 DEF Behind, Consistent, Finishing
      <4>4. Ready(c, p, l) /\ p \in Places /\ p \in Acting
        BY <1>5, <4>3 DEF Ready, IsIssued, Places, Acting, Alone, Finishing, Ending, Undoing, TakingOver
      <4> QED BY <1>5, <2>1, <2>2, <3>2, <4>1, <4>4, SameReady DEF Lands, Enters
    <3> QED BY <1>7, <3>1, <3>2
  <2> QED BY <1>1, <2>2, <2>3, <2>4, StepDone
<1> QED BY <1>1, <1>3, <1>6, <1>7 DEF Check, Mark, Throws, OnRecord

(* A completed claim is answered.                                           *)
LEMMA AnswerCompletedInductive ==
    ASSUME Inductive, NEW c \in Calls, AnswerCompleted(c)
    PROVE  Inductive'
<1>1. PICK l : l = local[c]
  OBVIOUS
<1>2. PICK r : r = IF l.recovering THEN l.record ELSE record
  OBVIOUS
<1>3. pc[c] = "answer"
  BY DEF AnswerCompleted, At
<1>4. /\ Ready(c, "answer", l) /\ l \in Locals /\ claim # None /\ IsAnswer(l)
      /\ Controller(c) \notin terminated /\ claim.status = "completed"
  BY <1>1, <1>3, CallOf DEF Ready, IsAnswer
<1>5. l.envelope \in Envelopes /\ record \in Records /\ Consistent(record) /\ record # None
  BY <1>4 DEF IsAnswer, Inductive, Story, Claims
<1>6. r # None => r \in Records /\ Behind(r)
  BY <1>2, <1>4, <1>5 DEF Ready, Locals, Behind
<1>7. PICK next : next = Completed(r)
  OBVIOUS
<1>8. /\ OnRecord /\ (Ok \/ Trouble) /\ Throw(c)
      /\ answers' \in {answers, answers \cup {l.envelope}}
      /\ \/ UNCHANGED record
         \/ r # None /\ MayAdvance(r, next) /\ Advance(next)
  BY <1>1, <1>2, <1>7 DEF AnswerCompleted, Mark, Throws, OnRecord, OnNothing, Answer, stores, work
<1>9. Typed'
  BY <1>5, <1>8, FaultsCounted DEF Inductive, Typed, OnRecord
<1>10. Lands(c, l)
  BY <1>4, <1>8, ThrowLands DEF OnRecord
<1>11. Story' /\ OthersStay(c)
  <2>1. CASE UNCHANGED record
    <3>1. UNCHANGED <<claim, terminated, record, runs>>
      BY <1>8, <2>1 DEF OnRecord
    <3> QED BY <3>1, SameStory, SameOthers DEF Inductive
  <2>2. CASE r # None /\ MayAdvance(r, next) /\ Advance(next)
    <3>1. next \in Records
      BY <1>6, <1>7, <2>2, CompletedIs
    <3> QED BY <1>4, <1>6, <1>8, <2>2, <3>1, MarkStep
  <2> QED BY <1>8, <2>1, <2>2
<1> QED BY <1>1, <1>9, <1>10, <1>11, StepDone

(* All calls of a terminated controller are down.                           *)
LEMMA CrashInductive ==
    ASSUME Inductive, NEW k \in Controllers, Crash(k)
    PROVE  Inductive'
<1>1. /\ terminated' = terminated \cup {k} /\ Trouble
      /\ UNCHANGED <<claim, record, runs, raw, answers, preparation, bundle>>
  BY DEF Crash, stores, work
<1>2. Story'
  BY <1>1, SameStory DEF Inductive
<1>3. Typed'
  BY <1>1, FaultsCounted DEF Inductive, Typed
<1>4. /\ pc \in [Calls -> Places] /\ local \in [Calls -> Locals]
      /\ "down" \in Places /\ NoCall \in Locals
  BY NoCallIs DEF Inductive, CallsInv, Places
<1>5. /\ pc' \in [Calls -> Places] /\ local' \in [Calls -> Locals]
      /\ \A d \in Calls : /\ pc'[d] = IF Controller(d) = k THEN "down" ELSE pc[d]
                          /\ local'[d] = IF Controller(d) = k THEN NoCall ELSE local[d]
  BY <1>4 DEF Crash
<1>6. ASSUME NEW d \in Calls
      PROVE  Ready(d, pc[d], local[d])' /\ (First(d)' => First(d))
  <2>1. PICK q, m : q = pc'[d] /\ m = local'[d]
    OBVIOUS
  <2>2. CASE Controller(d) = k
    <3>1. q = "down" /\ m.record = None
      BY <1>5, <2>1, <2>2, NoCallIs
    <3>2. Ready(d, q, m)' /\ q \notin Acting
      BY <1>1, <2>2, <3>1 DEF Ready, Places, Acting, Alone, Finishing, Ending, Undoing, TakingOver
    <3> QED BY <2>1, <3>2 DEF First, Ready, Working, IsIssued, IsAnswer
  <2>3. CASE Controller(d) # k
    <3>1. q = pc[d] /\ m = local[d]
      BY <1>5, <2>1, <2>3
    <3>2. Ready(d, q, m)
      BY <3>1, CallOf
    <3>3. Ready(d, q, m)'
      BY <1>1, <2>3, <3>2 DEF Ready, Working, Behind, IsIssued, IsAnswer
    <3> QED BY <2>1, <3>1, <3>3 DEF First, Ready, Working, IsIssued, IsAnswer
  <2> QED BY <2>2, <2>3
<1>7. CallsInv'
  BY <1>5, <1>6 DEF CallsInv, Inductive
<1> QED BY <1>2, <1>3, <1>7 DEF Inductive

---------------------------------------------------------------------------
(* Every state *)

(* There is no claim and no call at the start.                              *)
LEMMA InitInductive ==
    ASSUME Init
    PROVE  Inductive
<1>1. Story /\ Typed
  BY DEF Init, LedgerInit, StoresInit, Story, Typed, Preparations
<1>2. \A c \in Calls : pc[c] = "idle" /\ local[c] = NoCall
  BY DEF Init
<1>3. ASSUME NEW c \in Calls
      PROVE  Ready(c, pc[c], local[c]) /\ ~First(c)
  <2>1. Ready(c, "idle", NoCall) /\ "idle" \notin Acting
    BY NoCallIs DEF Init, LedgerInit, Ready, Places, Acting, Alone, Finishing, Ending, Undoing, TakingOver
  <2> QED BY <1>2, <2>1 DEF First
<1>4. pc \in [Calls -> Places] /\ local \in [Calls -> Locals]
  BY NoCallIs DEF Init, Places
<1> QED BY <1>1, <1>3, <1>4 DEF Inductive, CallsInv

(* Every step of a call keeps the invariant.                                *)
LEMMA StepInductive ==
    ASSUME Inductive, NEW c \in Calls, Step(c)
    PROVE  Inductive'
<1>1. CASE FirstStep(c)
  BY <1>1, EvaluateInductive, BindInductive, RunInductive, DeriveInductive, DestroyInductive,
     CreateInductive, ProducerFinalizeInductive, ConsumeInductive, StoreFinalizationInductive,
     MarkBehavioralInductive, IssueInductive, CompleteClaimInductive, MarkCompletedInductive
     DEF FirstStep
<1>2. CASE CatchStep(c)
  BY <1>2, InspectInductive, OrphanInductive, AbandonInductive, MarkAbandonedInductive,
     CleanupInductive, MarkCleanedInductive, DiscardInductive, FailRecordInductive,
     ConsumeClaimInductive
     DEF CatchStep
<1>3. CASE TakeoverStep(c)
  BY <1>3, LookupInductive, TakeoverInductive, RotateClaimInductive, CheckInductive,
     AnswerCompletedInductive
     DEF TakeoverStep
<1> QED BY <1>1, <1>2, <1>3 DEF Step

(* Every step keeps the invariant.                                          *)
LEMMA NextInductive ==
    ASSUME Inductive, [Next]_vars
    PROVE  Inductive'
<1>1. CASE UNCHANGED vars
  BY <1>1 DEF vars, stores, work, Inductive, Story, Typed, CallsInv, Ready, First,
     Working, Behind, IsIssued, IsAnswer
<1>2. CASE Next
  BY <1>2, StepInductive, CrashInductive DEF Next
<1> QED BY <1>1, <1>2

(* What a call relies on at a place holds there, whoever overlaps with it. *)
THEOREM EvaluationInductive == Spec => []Inductive
<1>1. Init => Inductive
  BY InitInductive
<1>2. Inductive /\ [Next]_vars => Inductive'
  BY NextInductive
<1> QED BY <1>1, <1>2, PTL DEF Spec

(* The values of the claim, the stores and the calls have their types.     *)
THEOREM EvaluationTypeOK == Spec => []TypeOK
<1>1. Inductive => TypeOK
  BY DEF Inductive, Story, Typed, CallsInv, TypeOK
<1> QED BY <1>1, EvaluationInductive, PTL

(* The ledger and the recovery record agree, for any number of controllers,*)
(* and of calls of each that overlap.                                      *)
THEOREM EvaluationStoresAgree == Spec => []StoresAgree
<1>1. Inductive => StoresAgree
  BY DEF Inductive, Story, Typed, CallsInv, TypeOK, StoresAgree
<1> QED BY <1>1, EvaluationInductive, PTL

---------------------------------------------------------------------------
(* The promise *)

Phase == CASE claim = None -> "new"
           [] InFlight -> "claimed"
           [] OTHER -> claim.status
Result == IF claim = None THEN None ELSE claim.envelope

(* The request's phase, from its claim.                                     *)
LEMMA PhaseIs ==
    /\ claim = None => Phase = "new" /\ Result = None
    /\ claim # None /\ claim.status = "in-flight" => Phase = "claimed"
    /\ claim # None /\ claim.status # "in-flight" => Phase = claim.status
    /\ claim # None => Result = claim.envelope
BY DEF Phase, Result, InFlight

(* The same, after a step.                                                  *)
LEMMA PhaseNext ==
    /\ claim' = None => Phase' = "new" /\ Result' = None
    /\ claim' # None /\ claim'.status = "in-flight" => Phase' = "claimed"
    /\ claim' # None /\ claim'.status # "in-flight" => Phase' = claim'.status
    /\ claim' # None => Result' = claim'.envelope
BY DEF Phase, Result, InFlight

(* What a step may do to what is promised of the request. *)
Kept == UNCHANGED <<runs, answers>>
        /\ \/ UNCHANGED claim
           \/ /\ claim # None /\ claim' # None
              /\ claim'.status = claim.status /\ claim'.envelope = claim.envelope
Acquired == UNCHANGED <<runs, answers>> /\ claim = None
            /\ claim' # None /\ claim'.status = "in-flight" /\ claim'.envelope = None
RunOnce == UNCHANGED <<claim, answers>> /\ InFlight /\ runs = 0 /\ runs' = 1
CompletedOnce == UNCHANGED <<runs, answers>> /\ InFlight /\ runs = 1 /\ claim' # None
            /\ claim'.status = "completed" /\ claim'.envelope \in Envelopes
Failed == UNCHANGED <<runs, answers>> /\ InFlight /\ claim' # None
          /\ claim'.status = "consumed" /\ claim'.envelope = claim.envelope
Answered == UNCHANGED <<claim, runs>> /\ claim # None /\ claim.status = "completed"
            /\ answers' = answers \cup {claim.envelope}

(* The steps that the promise allows.                                       *)
LEMMA PromiseOf ==
    ASSUME Kept \/ Acquired \/ RunOnce \/ CompletedOnce \/ Failed \/ Answered
    PROVE  Promise!RequestNext \/ UNCHANGED <<Phase, runs, Result, answers>>
<1>1. CASE Kept
  BY <1>1, PhaseIs, PhaseNext DEF Kept
<1>2. CASE Acquired
  <2>1. Phase = "new" /\ Phase' = "claimed" /\ UNCHANGED <<runs, Result, answers>>
    BY <1>2, PhaseIs, PhaseNext DEF Acquired
  <2> QED BY <2>1 DEF Promise!RequestNext, Promise!ClaimRequest, Phase, Result
<1>3. CASE RunOnce
  <2>1. Phase = "claimed" /\ runs = 0 /\ runs' = 1 /\ UNCHANGED <<Phase, Result, answers>>
    BY <1>3, PhaseIs, PhaseNext DEF RunOnce, InFlight
  <2> QED BY <2>1 DEF Promise!RequestNext, Promise!RunTasks, Phase, Result
<1>4. CASE CompletedOnce
  <2>1. /\ Phase = "claimed" /\ runs = 1 /\ Phase' = "completed" /\ Result' \in Envelopes
        /\ UNCHANGED <<runs, answers>>
    BY <1>4, PhaseIs, PhaseNext DEF CompletedOnce, InFlight
  <2> QED BY <2>1 DEF Promise!RequestNext, Promise!CompleteRequest, Phase, Result
<1>5. CASE Failed
  <2>1. Phase = "claimed" /\ Phase' = "consumed" /\ UNCHANGED <<runs, Result, answers>>
    BY <1>5, PhaseIs, PhaseNext DEF Failed, InFlight
  <2> QED BY <2>1 DEF Promise!RequestNext, Promise!FailRequest, Phase, Result
<1>6. CASE Answered
  <2>1. /\ Phase = "completed" /\ answers' = answers \cup {Result}
        /\ UNCHANGED <<Phase, runs, Result>>
    BY <1>6, PhaseIs, PhaseNext DEF Answered
  <2> QED BY <2>1 DEF Promise!RequestNext, Promise!AnswerRequest, Phase, Result
<1> QED BY <1>1, <1>2, <1>3, <1>4, <1>5, <1>6


(* The steps that the promise does not see.                                 *)
LEMMA UnseenSteps ==
    ASSUME NEW c \in Calls,
           \/ Derive(c) \/ Destroy(c) \/ Create(c) \/ ProducerFinalize(c) \/ Consume(c)
           \/ StoreFinalization(c) \/ MarkBehavioral(c) \/ Issue(c)
           \/ Inspect(c) \/ OrphanBundle(c) \/ AbandonPreparation(c) \/ MarkAbandoned(c)
           \/ Cleanup(c) \/ MarkCleaned(c) \/ Discard(c) \/ FailRecord(c)
           \/ Lookup(c) \/ Takeover(c) \/ Check(c)
    PROVE  Kept
<1>1. CASE Derive(c) \/ Destroy(c) \/ Discard(c)
  BY <1>1 DEF Derive, Destroy, Discard, OnWork, Kept
<1>2. CASE Create(c) \/ FailRecord(c)
  BY <1>2 DEF Create, FailRecord, work, Kept
<1>3. CASE ProducerFinalize(c) \/ OrphanBundle(c)
  BY <1>3 DEF ProducerFinalize, OrphanBundle, OnBundle, work, Kept
<1>4. CASE Consume(c) \/ StoreFinalization(c) \/ AbandonPreparation(c) \/ Cleanup(c)
  BY <1>4 DEF Consume, StoreFinalization, AbandonPreparation, Cleanup, OnPreparation, work, Kept
<1>5. CASE MarkBehavioral(c) \/ Issue(c) \/ MarkAbandoned(c) \/ MarkCleaned(c)
  BY <1>5 DEF MarkBehavioral, Issue, MarkAbandoned, MarkCleaned, Mark, Kept
<1>6. CASE Inspect(c) \/ Lookup(c) \/ Takeover(c)
  BY <1>6 DEF Inspect, Lookup, Takeover, OnNothing, work, Kept
<1>7. CASE Check(c)
  BY <1>7 DEF Check, Mark, OnNothing, work, Kept
<1> QED BY <1>1, <1>2, <1>3, <1>4, <1>5, <1>6, <1>7

(* The hidden tasks run for the call that acquired the claim, and before   *)
(* there is a record of it.                                                *)
LEMMA RunPromised ==
    ASSUME Inductive, NEW c \in Calls, Run(c)
    PROVE  Kept \/ RunOnce
<1>1. PICK l : l = local[c]
  OBVIOUS
<1>2. pc[c] = "run" /\ UNCHANGED <<claim, answers>> /\ runs' \in {runs, runs + 1}
  BY DEF Run, At, OnWork
<1>3. Ready(c, "run", l) /\ claim # None /\ claim \in Claims(Records)
  BY <1>1, <1>2, CallOf DEF Ready, Inductive, Story
<1>4. runs = 0 /\ record = None /\ claim.status # "consumed"
  BY <1>3 DEF Ready, Working, Acting, Alone
<1>5. claim.status # "completed"
  BY <1>3, <1>4 DEF Inductive, Story
<1>6. InFlight
  BY <1>3, <1>4, <1>5 DEF InFlight, Claims
<1>7. CASE runs' = runs
  BY <1>2, <1>7 DEF Kept
<1>8. CASE runs' = runs + 1
  BY <1>2, <1>4, <1>6, <1>8 DEF RunOnce
<1> QED BY <1>2, <1>7, <1>8

(* A request is claimed once, and fails once.                               *)
LEMMA ClaimPromised ==
    ASSUME Inductive, NEW c \in Calls,
           Evaluate(c) \/ Bind(c) \/ ConsumeClaim(c) \/ RotateClaim(c)
    PROVE  Kept \/ Acquired \/ Failed
<1>1. UNCHANGED <<runs, answers>>
  BY DEF Evaluate, Bind, ConsumeClaim, RotateClaim, OnLedger, work
<1>2. CASE Evaluate(c)
  <2>1. CASE claim = None /\ Acquire(Controller(c))
    <3>1. Controller(c) \in Controllers
      BY CallOf
    <3>2. /\ claim' \in Claims(Records) /\ claim'.status = "in-flight" /\ claim'.envelope = None
      BY <2>1, <3>1 DEF Acquire, Claims
    <3>3. claim' # None
      BY <3>2
    <3> QED BY <1>1, <2>1, <3>2, <3>3 DEF Acquired
  <2>2. CASE UNCHANGED claim
    BY <1>1, <2>2 DEF Kept
  <2> QED BY <1>2, <2>1, <2>2 DEF Evaluate, MayClaim
<1>3. ASSUME pc[c] \notin {"idle", "down"}
      PROVE  claim # None /\ claim \in Claims(Records)
  BY <1>3, CallOf DEF Ready, Inductive, Story
<1>4. CASE Bind(c)
  <2>1. claim # None /\ claim \in Claims(Records)
    BY <1>3, <1>4 DEF Bind, At
  <2>2. CASE BindDispositionAttestation
    <3>1. /\ claim' \in Claims(Records) /\ claim'.status = claim.status
          /\ claim'.envelope = claim.envelope
      BY <2>1, <2>2 DEF BindDispositionAttestation, Claims
    <3>2. claim' # None
      BY <3>1
    <3> QED BY <1>1, <2>1, <3>1, <3>2 DEF Kept
  <2>3. CASE UNCHANGED claim
    BY <1>1, <2>3 DEF Kept
  <2> QED BY <1>4, <2>2, <2>3 DEF Bind
<1>5. CASE ConsumeClaim(c)
  <2>1. claim # None /\ claim \in Claims(Records)
    BY <1>3, <1>5 DEF ConsumeClaim, At
  <2>2. CASE claim.status # "completed" /\ claim' = [claim EXCEPT !.status = "consumed"]
    <3>1. /\ claim' \in Claims(Records) /\ claim'.status = "consumed"
          /\ claim'.envelope = claim.envelope
      BY <2>1, <2>2 DEF Claims
    <3>2. claim' # None
      BY <3>1
    <3>3. CASE claim.status = "consumed"
      BY <1>1, <2>1, <3>1, <3>2, <3>3 DEF Kept
    <3>4. CASE claim.status = "in-flight"
      BY <1>1, <2>1, <3>1, <3>2, <3>4 DEF Failed, InFlight
    <3> QED BY <2>1, <2>2, <3>3, <3>4 DEF Claims
  <2>3. CASE UNCHANGED claim
    BY <1>1, <2>3 DEF Kept
  <2> QED BY <1>5, <2>2, <2>3 DEF ConsumeClaim, MayConsume, ConsumeFailure
<1>6. CASE RotateClaim(c)
  <2>1. claim # None /\ claim \in Claims(Records)
    BY <1>3, <1>6 DEF RotateClaim, At
  <2>2. ASSUME NEW r \in Records, Rotate(Controller(c), r)
        PROVE  claim' # None /\ claim'.status = claim.status /\ claim'.envelope = claim.envelope
    <3>1. claim' = [claim EXCEPT !.owner = Controller(c), !.token = @ + 1, !.recovered = r]
      BY <2>2 DEF Rotate
    <3>2. PICK q : q = [claim EXCEPT !.owner = Controller(c)]
      OBVIOUS
    <3>3. PICK k : k = [q EXCEPT !.token = claim.token + 1]
      OBVIOUS
    <3>4. claim' = [k EXCEPT !.recovered = r]
      BY <2>1, <3>1, <3>2, <3>3 DEF Claims
    <3>5. Controller(c) \in Controllers /\ claim.token + 1 \in Nat
      BY <2>1, CallOf DEF Claims
    <3>6. q \in Claims(Records) /\ q.status = claim.status /\ q.envelope = claim.envelope
      BY <2>1, <3>2, <3>5 DEF Claims
    <3>7. k \in Claims(Records) /\ k.status = claim.status /\ k.envelope = claim.envelope
      BY <3>3, <3>5, <3>6 DEF Claims
    <3>8. /\ claim' \in Claims(Records) /\ claim'.status = claim.status
          /\ claim'.envelope = claim.envelope
      BY <3>4, <3>7 DEF Claims
    <3> QED BY <3>8
  <2>3. local[c].record \in Records
    <3>1. PICK l : l = local[c]
      OBVIOUS
    <3>2. Ready(c, "rotate", l) /\ l \in Locals
      BY <1>6, <3>1, CallOf DEF RotateClaim, At
    <3> QED BY <3>1, <3>2 DEF Ready, TakingOver, Locals
  <2> QED BY <1>1, <1>6, <2>1, <2>2, <2>3 DEF RotateClaim, Kept
<1> QED BY <1>2, <1>4, <1>5, <1>6

(* A request is completed once, with one result.                            *)
LEMMA CompletePromised ==
    ASSUME Inductive, NEW c \in Calls, CompleteClaim(c)
    PROVE  Kept \/ CompletedOnce
<1>1. PICK l : l = local[c]
  OBVIOUS
<1>2. pc[c] = "complete" /\ UNCHANGED <<runs, answers>>
  BY DEF CompleteClaim, At, OnLedger, work
<1>3. CASE UNCHANGED claim
  BY <1>2, <1>3 DEF Kept
<1>4. CASE InFlight /\ Complete(l.envelope)
  <2>1. /\ Ready(c, "complete", l) /\ l \in Locals /\ IsIssued(l) /\ Behind(l.record)
        /\ claim # None /\ claim \in Claims(Records)
    BY <1>1, <1>2, CallOf DEF Ready, IsIssued, Inductive, Story
  <2>2. l.envelope \in Envelopes /\ runs = 1
    BY <2>1 DEF IsIssued, Locals, Behind, Consistent, Inductive, Story
  <2>3. PICK q : q = [claim EXCEPT !.status = "completed"]
    OBVIOUS
  <2>4. claim' = [q EXCEPT !.envelope = l.envelope]
    BY <1>4, <2>3 DEF Complete
  <2>5. q \in Claims(Records) /\ q.status = "completed"
    BY <2>1, <2>3 DEF Claims
  <2>6. claim' \in Claims(Records) /\ claim'.status = "completed" /\ claim'.envelope = l.envelope
    BY <2>2, <2>4, <2>5 DEF Claims
  <2>7. claim' # None
    BY <2>6
  <2> QED BY <1>2, <1>4, <2>2, <2>6, <2>7 DEF CompletedOnce
<1> QED BY <1>1, <1>3, <1>4 DEF CompleteClaim, MayComplete

(* The answer is the completed request's result.                            *)
LEMMA AnswerPromised ==
    ASSUME Inductive, NEW c \in Calls, MarkCompleted(c) \/ AnswerCompleted(c)
    PROVE  Kept \/ Answered
<1>1. PICK l : l = local[c]
  OBVIOUS
<1>2. pc[c] \in Ending \cup {"answer"}
  BY DEF MarkCompleted, AnswerCompleted, At, Ending
<1>3. IsAnswer(l) /\ claim # None
  BY <1>1, <1>2, CallOf DEF Ready, Ending
<1>4. /\ UNCHANGED <<claim, runs>>
      /\ UNCHANGED answers \/ answers' = answers \cup {l.envelope}
  <2>1. CASE MarkCompleted(c)
    BY <1>1, <2>1 DEF MarkCompleted, Mark, Answer
  <2>2. CASE AnswerCompleted(c)
    BY <1>1, <2>2 DEF AnswerCompleted, Mark, Answer, OnNothing, work
  <2> QED BY <2>1, <2>2
<1> QED BY <1>3, <1>4 DEF Kept, Answered, IsAnswer

(* Whatever crashes and whichever calls overlap: the hidden tasks run at   *)
(* most once, the request ends once, and each answer is what it ended in.  *)
THEOREM EvaluationKeepsPromise == Spec => KeepsPromise
<1>1. Init => Promise!RequestInit
  <2>1. Init => Phase = "new" /\ Result = None /\ runs = 0 /\ answers = {}
    BY PhaseIs DEF Init, LedgerInit
  <2> QED BY <2>1 DEF Promise!RequestInit, Phase, Result
<1>2. Inductive /\ [Next]_vars =>
        Promise!RequestNext \/ UNCHANGED <<Phase, runs, Result, answers>>
  <2>1. ASSUME Inductive, NEW c \in Calls, Step(c)
        PROVE  Kept \/ Acquired \/ RunOnce \/ CompletedOnce \/ Failed \/ Answered
    BY <2>1, UnseenSteps, RunPromised, ClaimPromised, CompletePromised, AnswerPromised
       DEF Step, FirstStep, CatchStep, TakeoverStep
  <2>2. ASSUME NEW k \in Controllers, Crash(k) PROVE Kept
    BY <2>2 DEF Crash, work, Kept
  <2>3. ASSUME UNCHANGED vars PROVE Kept
    BY <2>3 DEF vars, work, Kept
  <2> QED BY <2>1, <2>2, <2>3, PromiseOf DEF Next
<1>3. Promise!RequestNext \/ UNCHANGED <<Phase, runs, Result, answers>> =>
        [Promise!RequestNext]_(Promise!promised)
  BY DEF Promise!promised, Phase, Result
<1> QED BY <1>1, <1>2, <1>3, EvaluationInductive, PTL DEF Spec, KeepsPromise, Promise!RequestSpec

---------------------------------------------------------------------------
(* Nothing is left that could release.  A record tells where the           *)
(* preparation is or has gone from; the preparation moves with the one     *)
(* call that acts for the claim, whose place says the rest.                *)

OneAtATime == \E lane : Lanes = {lane}

(* The claim is settled in favour of a result. *)
IsCompleted == claim # None /\ claim.status = "completed"
Releasable == preparation \in {"prepared", "finalized"}

(* What a record, read at any time since, tells of the preparation.        *)
Tells(r) ==
    /\ r.behavioral = "none" => preparation = "missing"
    /\ r.behavioral = "prepared" => preparation # "missing"
    /\ r.behavioral = "finalized" => preparation \in {"finalized", "abandoned"}
    /\ r.behavioral = "consumed" => preparation = "consumed"
    /\ r.behavioral = "abandoned" => preparation = "abandoned"
    /\ r.status \in {"result-issued", "completed"} =>
          (r.envelope.named <=> r.behavioral = "finalized")

(* The places a call comes to after it hid the bundle. *)
AfterHiding == (Undoing \ {"orphan"}) \cup {"cleanup", "discard", "fail-record", "consume-claim"}

(* Where the stores are when a call is at a place. *)
Standing(p, l) ==
    /\ l.record # None => Tells(l.record)
    /\ l.orphaned => bundle = "orphaned" /\ p \in AfterHiding
    /\ p = "mark-consumed" => preparation = "consumed"
    /\ p = "mark-finalized" => preparation = "finalized"
    /\ p = "issue" => l.record.behavioral \in {"none", "consumed", "finalized"}
    /\ p \in {"issue", "complete"} =>
          (l.record.behavioral = "finalized" => preparation = "finalized")
    /\ p \in {"abandon", "mark-abandoned"} => l.orphaned
    /\ p \in {"orphan", "abandon"} /\ l.recovering => l.record.behavioral = "finalized"
    /\ p = "mark-abandoned" => l.record.behavioral = "finalized" /\ preparation = "abandoned"
    /\ p = "mark-cleaned" =>
          \/ l.record.behavioral = "prepared" /\ preparation = "consumed"
          \/ l.record.behavioral = "finalized" /\ preparation = "abandoned"
    /\ p = "mark-completed" => l.attempted
    /\ p = "fail-record" => l.clean
    /\ p \in {"discard", "fail-record"} /\ l.clean /\ record = None => ~Releasable
    /\ p = "consume-claim" /\ record = None => ~Releasable
    /\ p \in Acting =>
          \/ InFlight
          \/ IsCompleted /\ p \in Ending \cup {"inspect"}
          \/ IsCompleted /\ p \in {"cleanup", "discard"} /\ ~l.known /\ ~l.orphaned

(* What is left of preparation and bundle once the claim has ended; a       *)
(* completed claim without a release has had no preparation or lost it.     *)
Disposed ==
    /\ claim # None /\ claim.status = "consumed" =>
          preparation \notin {"prepared", "finalized"}
    /\ preparation = "abandoned" => bundle = "orphaned"
    /\ claim # None /\ claim.status = "completed" =>
          preparation \in IF claim.envelope.named THEN {"finalized"}
                          ELSE {"missing", "consumed"}

Settling ==
    /\ record # None => Tells(record)
    /\ \A c \in Calls : Standing(pc[c], local[c])
    /\ Disposed

(* The steps of the preparation and of the bundle. *)
Turns ==
    /\ \/ preparation' = preparation
       \/ preparation = "missing" /\ preparation' = "prepared" /\ record = None
       \/ preparation = "prepared" /\ preparation' \in {"finalized", "consumed"}
       \/ preparation = "finalized" /\ preparation' = "abandoned"
    /\ bundle = "orphaned" => bundle' = "orphaned"

Takes(c) == \E p, m : Go(c, p, m) /\ Standing(p, m)'
OthersStand(c) ==
    \A d \in Calls : d # c => \A q, m : q = pc[d] /\ m = local[d] => Standing(q, m)'

(* What is known of a call. *)
LEMMA StandsThere ==
    ASSUME Inductive, Settling, NEW c \in Calls, NEW l, l = local[c], NEW p, p = pc[c]
    PROVE  /\ l \in Locals /\ p \in Places /\ Ready(c, p, l) /\ Standing(p, l)
           /\ l.record # None => Behind(l.record) /\ record # None
<1>1. l \in Locals /\ p \in Places /\ Ready(c, p, l)
  BY CallOf
<1>2. Standing(p, l)
  BY DEF Settling
<1>3. l.record # None => Behind(l.record) /\ record # None
  BY <1>1 DEF Ready, Behind
<1> QED BY <1>1, <1>2, <1>3

(* One call at a time acts for the claim: those of its owner. *)
LEMMA ActingAlone ==
    ASSUME OneAtATime, Inductive, NEW c \in Calls, NEW d \in Calls,
           pc[c] \in Acting, pc[d] \in Acting
    PROVE  c = d
<1>1. Ready(c, pc[c], local[c]) /\ Ready(d, pc[d], local[d])
  BY CallOf
<1>2. Controller(c) = Controller(d)
  BY <1>1 DEF Ready, Working
<1>3. PICK lane : Lanes = {lane}
  BY DEF OneAtATime
<1>4. PICK i \in Controllers, x \in Lanes : c = <<i, x>>
  BY DEF Calls
<1>5. PICK j \in Controllers, y \in Lanes : d = <<j, y>>
  BY DEF Calls
<1> QED BY <1>2, <1>3, <1>4, <1>5 DEF Controller

(* What a record told stays true while the preparation moves as it may.     *)
LEMMA TellsStays ==
    ASSUME Turns, record # None \/ preparation' = preparation, NEW r, Tells(r)
    PROVE  Tells(r)'
BY DEF Turns, Tells

(* A call that does not act is not concerned by one that does. *)
LEMMA OthersStandBy ==
    ASSUME OneAtATime, Inductive, Settling, NEW c \in Calls,
           Turns, record # None => record' # None,
           \/ pc[c] \in Acting
           \/ /\ UNCHANGED <<preparation, bundle>>
              /\ (InFlight => InFlight') /\ (IsCompleted => IsCompleted')
    PROVE  OthersStand(c)
<1> SUFFICES ASSUME NEW d \in Calls, d # c, NEW q, NEW m, q = pc[d], m = local[d]
             PROVE  Standing(q, m)'
  BY DEF OthersStand
<1>1. /\ q \in Places /\ Standing(q, m)
      /\ m.record # None => record # None
      /\ m.record # None => Tells(m.record)
  BY StandsThere DEF Standing
<1>2. m.record # None => Tells(m.record)'
  <2>1. record # None \/ preparation' = preparation => \A r : Tells(r) => Tells(r)'
    BY TellsStays
  <2> QED BY <1>1, <2>1
<1>3. CASE pc[c] \in Acting
  <2>1. q \notin Acting
    BY <1>3, ActingAlone
  <2>2. q \notin AfterHiding
    BY <2>1 DEF AfterHiding, Acting
  <2>3. m.orphaned = FALSE
    <3>1. m.orphaned \in BOOLEAN
      BY StandsThere DEF Locals
    <3>2. m.orphaned => q \in AfterHiding
      BY <1>1 DEF Standing
    <3> QED BY <2>2, <3>1, <3>2
  <2> QED
    BY <1>2, <2>1, <2>3
       DEF Standing, Acting, Alone, Finishing, Ending, Undoing
<1>4. CASE /\ UNCHANGED <<preparation, bundle>>
           /\ (InFlight => InFlight') /\ (IsCompleted => IsCompleted')
  BY <1>1, <1>2, <1>4 DEF Standing, Releasable
<1> QED BY <1>3, <1>4

(* A step is one of its call and of the stores. *)
LEMMA SettlesStep ==
    ASSUME Inductive, NEW c \in Calls, Takes(c), OthersStand(c),
           record' # None => Tells(record)', Disposed'
    PROVE  Settling'
<1>1. PICK p, m : Go(c, p, m) /\ Standing(p, m)'
  BY DEF Takes
<1>2. /\ pc \in [Calls -> Places] /\ local \in [Calls -> Locals]
      /\ pc' = [pc EXCEPT ![c] = p] /\ local' = [local EXCEPT ![c] = m]
  BY <1>1 DEF Go, Inductive, CallsInv
<1>3. /\ pc'[c] = p /\ local'[c] = m
      /\ \A d \in Calls : d # c => pc'[d] = pc[d] /\ local'[d] = local[d]
  BY <1>2
<1>4. ASSUME NEW d \in Calls PROVE Standing(pc[d], local[d])'
  <2>1. PICK q, k : q = pc'[d] /\ k = local'[d]
    OBVIOUS
  <2>2. Standing(q, k)'
    <3>1. CASE d = c
      BY <1>1, <1>3, <2>1, <3>1
    <3>2. CASE d # c
      BY <1>3, <2>1, <3>2 DEF OthersStand
    <3> QED BY <3>1, <3>2
  <2> QED BY <2>1, <2>2 DEF Standing
<1> QED BY <1>4 DEF Settling

(* Steps on the record, and steps of no store. *)
LEMMA RecordSettles ==
    ASSUME OneAtATime, Inductive, Settling, NEW c \in Calls, Takes(c),
           UNCHANGED <<claim, preparation, bundle>>,
           record' = record \/ (record' # None /\ Tells(record)')
    PROVE  Settling'
<1>1. Turns /\ (record # None => record' # None)
  BY DEF Turns
<1>2. OthersStand(c)
  BY <1>1, OthersStandBy DEF InFlight, IsCompleted
<1>3. record' # None => Tells(record)'
  BY DEF Settling, Tells
<1>4. Disposed'
  BY DEF Settling, Disposed
<1> QED BY <1>2, <1>3, <1>4, SettlesStep

(* Steps on the preparation and the bundle, of the call that acts. *)
LEMMA PreparationSettles ==
    ASSUME OneAtATime, Inductive, Settling, NEW c \in Calls, Takes(c),
           pc[c] \in Acting, InFlight, UNCHANGED <<claim, record>>, Turns,
           preparation' = "abandoned" => bundle' = "orphaned"
    PROVE  Settling'
<1>1. OthersStand(c)
  BY OthersStandBy
<1>2. record' # None => Tells(record)'
  <2>1. ASSUME record # None PROVE Tells(record)'
    <3>1. PICK r : r = record
      OBVIOUS
    <3>2. Tells(r)'
      BY <2>1, <3>1, TellsStays DEF Settling
    <3> QED BY <3>1, <3>2 DEF Tells
  <2> QED BY <2>1
<1>3. Disposed'
  BY DEF Disposed, InFlight
<1> QED BY <1>1, <1>2, <1>3, SettlesStep

(* Where the catch block leads. *)
LEMMA ThrowStands ==
    ASSUME NEW c, Throw(c)
    PROVE  Takes(c)
<1>1. NoCall.record = None /\ ~NoCall.orphaned
  BY DEF NoCall
<1>2. Standing("idle", NoCall)'
  BY <1>1 DEF Standing, Acting, Alone, Finishing, Ending, Undoing
<1> QED BY <1>2 DEF Throw, Takes

(* Where the catch block begins.                                            *)
LEMMA UndoStands ==
    ASSUME NEW c, NEW m, Undo(c, m), m.record # None => Tells(m.record)', ~m.orphaned,
           InFlight' \/ (IsCompleted' /\ ~m.known)
    PROVE  Takes(c)
<1>1. CASE m.known /\ HasFinalization(m)
  <2>1. Standing("orphan", m)'
    BY <1>1 DEF Standing, HasFinalization
  <2> QED BY <1>1, <2>1 DEF Undo, Takes
<1>2. CASE ~(m.known /\ HasFinalization(m))
  <2>1. Standing("cleanup", m)'
    BY DEF Standing
  <2> QED BY <1>2, <2>1 DEF Undo, Takes
<1> QED BY <1>1, <1>2

(* Where an error leads.                                                    *)
LEMMA RaiseStands ==
    ASSUME NEW c, NEW m \in Locals, Raise(c, m), m.record # None => Tells(m.record)',
           ~m.orphaned, InFlight' \/ (IsCompleted' /\ m.attempted)
    PROVE  Takes(c)
<1>1. CASE m.attempted
  <2>1. Standing("inspect", m)'
    BY DEF Standing
  <2> QED BY <1>1, <2>1 DEF Raise, Takes
<1>2. CASE ~m.attempted
  <2>1. PICK k : k = [m EXCEPT !.known = m.recovering \/ m.finalizing # "unsafe-to-consume"]
    OBVIOUS
  <2>2. k.record = m.record /\ k.orphaned = m.orphaned /\ Undo(c, k)
    BY <1>2, <2>1 DEF Raise, Locals
  <2> QED BY <1>2, <2>2, UndoStands
<1> QED BY <1>1, <1>2

(* Where the catch block ends.                                              *)
LEMMA FinishStands ==
    ASSUME NEW c, NEW m, Finish(c, m), m.record # None => Tells(m.record)',
           m.orphaned => bundle' = "orphaned",
           m.clean /\ record' = None => ~Releasable',
           InFlight' \/ (IsCompleted' /\ ~m.known /\ ~m.orphaned)
    PROVE  Takes(c)
<1>1. CASE Throw(c)
  BY <1>1, ThrowStands
<1>2. CASE Go(c, "discard", m)
  <2>1. Standing("discard", m)'
    BY DEF Standing, AfterHiding
  <2> QED BY <1>2, <2>1 DEF Takes
<1>3. CASE Go(c, "fail-record", m) /\ m.known /\ m.clean
  <2>1. Standing("fail-record", m)'
    BY <1>3 DEF Standing, AfterHiding
  <2> QED BY <1>3, <2>1 DEF Takes
<1> QED BY <1>1, <1>2, <1>3 DEF Finish

(* A call that goes on where it acts, or elsewhere, after a step. *)
LEMMA GoesOn ==
    ASSUME NEW c, NEW p, NEW m, Go(c, p, m), Standing(p, m)'
    PROVE  Takes(c)
BY DEF Takes

(* What a call that acts has, before it comes to the catch block. *)
Evaluating == Alone \cup Finishing \cup {"check", "complete"}
(* What is known of the call that evaluates.                                *)
LEMMA StandsEvaluating ==
    ASSUME Inductive, Settling, NEW c \in Calls, NEW l, l = local[c], NEW p, p = pc[c],
           p \in Evaluating
    PROVE  /\ p \in Acting /\ l \in Locals /\ Ready(c, p, l) /\ Standing(p, l)
           /\ l.record # None => Tells(l.record)
           /\ l.record # None => Behind(l.record) /\ record # None
           /\ l.orphaned = FALSE /\ l.attempted = FALSE /\ InFlight
<1>1. /\ l \in Locals /\ Ready(c, p, l) /\ Standing(p, l)
      /\ l.record # None => Behind(l.record) /\ record # None
  BY StandsThere
<1>2. p \in Acting
  BY DEF Acting, Evaluating
<1>3. /\ p \notin AfterHiding /\ p \notin Ending \cup {"inspect"}
      /\ p \notin {"cleanup", "discard"}
  BY DEF Evaluating, AfterHiding, Alone, Finishing, Undoing, Ending
<1>4. l.orphaned = FALSE
  <2>1. l.orphaned \in BOOLEAN
    BY <1>1 DEF Locals
  <2>2. l.orphaned => p \in AfterHiding
    BY <1>1 DEF Standing
  <2> QED BY <1>3, <2>1, <2>2
<1>5. l.attempted = FALSE
  <2>1. l.attempted \in BOOLEAN
    BY <1>1 DEF Locals
  <2>2. ~l.attempted
    BY <1>1 DEF Ready, Evaluating
  <2> QED BY <2>1, <2>2
<1>6. InFlight
  BY <1>1, <1>2, <1>3 DEF Standing
<1>7. l.record # None => Tells(l.record)
  BY <1>1 DEF Standing
<1> QED BY <1>1, <1>2, <1>4, <1>5, <1>6, <1>7

(* A step of the preparation leaves what a call has read of the record true. *)
LEMMA RecordTold ==
    ASSUME Turns, NEW r, r # None => Tells(r), r # None => record # None
    PROVE  r # None => Tells(r)'
<1>1. r # None => (\A k : Tells(k) => Tells(k)')
  BY TellsStays
<1> QED BY <1>1

(* Where nothing of the claim's standing and no store is written. *)
LEMMA QuietSettles ==
    ASSUME OneAtATime, Inductive, Settling, NEW c \in Calls, Takes(c),
           UNCHANGED <<record, preparation, bundle>>,
           (claim = None /\ claim' = None)
           \/ (/\ claim # None /\ claim' # None
               /\ claim'.status = claim.status /\ claim'.envelope = claim.envelope)
    PROVE  Settling'
<1>1. Turns
  BY DEF Turns
<1>2. OthersStand(c)
  BY <1>1, OthersStandBy DEF InFlight, IsCompleted
<1>3. record' # None => Tells(record)'
  BY DEF Settling, Tells
<1>4. Disposed'
  BY DEF Settling, Disposed
<1> QED BY <1>2, <1>3, <1>4, SettlesStep

(* The binding of a request touches no preparation.                         *)
LEMMA BindSettles ==
    ASSUME OneAtATime, Inductive, Settling, NEW c \in Calls, Bind(c)
    PROVE  Settling'
<1>1. PICK l : l = local[c]
  OBVIOUS
<1>2. pc[c] = "bind" /\ OnLedger /\ UNCHANGED <<record, preparation, bundle>>
  BY DEF Bind, At, OnLedger, stores
<1>3. /\ l \in Locals /\ InFlight /\ l.orphaned = FALSE /\ l.attempted = FALSE
      /\ l.record # None => Tells(l.record)
  BY <1>1, <1>2, StandsEvaluating DEF Evaluating, Alone
<1>4. claim # None /\ claim \in Claims(Records)
  BY <1>3 DEF InFlight, Inductive, Story
<1>5. /\ claim' \in Claims(Records) /\ claim'.status = claim.status
      /\ claim'.envelope = claim.envelope
  <2>1. CASE UNCHANGED claim
    BY <1>4, <2>1
  <2>2. CASE claim' = [claim EXCEPT !.attested = TRUE]
    BY <1>4, <2>2 DEF Claims
  <2> QED BY <2>1, <2>2 DEF Bind, BindDispositionAttestation
<1>6. claim' # None
  BY <1>5
<1>7. InFlight'
  BY <1>3, <1>5, <1>6 DEF InFlight
<1>8. l.record # None => Tells(l.record)'
  BY <1>2, <1>3 DEF Tells
<1>9. Takes(c)
  <2>1. CASE Go(c, "run", l)
    <3>1. Standing("run", l)'
      BY <1>3, <1>7, <1>8 DEF Standing
    <3> QED BY <2>1, <3>1, GoesOn
  <2>2. CASE Raise(c, l)
    BY <1>3, <1>7, <1>8, <2>2, RaiseStands
  <2> QED BY <1>1, <2>1, <2>2 DEF Bind
<1> QED BY <1>2, <1>4, <1>5, <1>6, <1>9, QuietSettles

(* The steps of the hidden tasks and their raw results. *)
LEMMA WorkSettles ==
    ASSUME OneAtATime, Inductive, Settling, NEW c \in Calls, Run(c) \/ Derive(c) \/ Destroy(c)
    PROVE  Settling'
<1>1. PICK l : l = local[c]
  OBVIOUS
<1>2. /\ pc[c] \in {"run", "derive", "destroy"} /\ UNCHANGED <<claim, record, bundle>>
      /\ Prepare \/ UNCHANGED preparation
  BY DEF Run, Derive, Destroy, At, OnWork
<1>3. /\ l \in Locals /\ InFlight /\ l.orphaned = FALSE /\ l.attempted = FALSE
      /\ l.record # None => Tells(l.record)
      /\ l.record # None => record # None
      /\ pc[c] \in Acting /\ Ready(c, pc[c], l)
  BY <1>1, <1>2, StandsEvaluating DEF Evaluating, Alone
<1>4. record = None
  BY <1>2, <1>3 DEF Ready, Working, Alone, Acting
<1>5. Turns /\ InFlight'
  BY <1>2, <1>3, <1>4 DEF Turns, Prepare, InFlight
<1>6. l.record # None => Tells(l.record)'
  BY <1>3, <1>5, RecordTold
<1>7. Takes(c)
  <2>1. ASSUME NEW p \in {"derive", "destroy", "create"}, Go(c, p, l)
        PROVE  Takes(c)
    <3>1. Standing(p, l)'
      BY <1>3, <1>5, <1>6 DEF Standing
    <3> QED BY <2>1, <3>1, GoesOn
  <2>2. CASE Raise(c, l)
    BY <1>3, <1>5, <1>6, <2>2, RaiseStands
  <2> QED BY <1>1, <2>1, <2>2 DEF Run, Derive, Destroy
<1>8. preparation' = "abandoned" => bundle' = "orphaned"
  BY <1>2 DEF Prepare, Settling, Disposed
<1> QED BY <1>2, <1>3, <1>5, <1>7, <1>8, PreparationSettles

(* The first record tells of the preparation as it is.                      *)
LEMMA CreateSettles ==
    ASSUME OneAtATime, Inductive, Settling, NEW c \in Calls, Create(c)
    PROVE  Settling'
<1>1. PICK l : l = [local[c] EXCEPT !.checkpoint = TRUE]
  OBVIOUS
<1>2. PICK open : open = OpenRecord(IF preparation = "missing" THEN "none" ELSE "prepared")
  OBVIOUS
<1>3. /\ pc[c] = "create" /\ UNCHANGED <<claim, preparation, bundle>>
      /\ record' \in {record, open}
  BY <1>1, <1>2 DEF Create, At
<1>4. PICK k : k = local[c]
  OBVIOUS
<1>5. /\ k \in Locals /\ InFlight /\ k.orphaned = FALSE /\ k.attempted = FALSE
      /\ k.record # None => Tells(k.record)
  BY <1>3, <1>4, StandsEvaluating DEF Evaluating, Alone
<1>6. /\ l \in Locals /\ l.record = k.record /\ l.orphaned = FALSE /\ l.attempted = FALSE
  BY <1>1, <1>4, <1>5 DEF Locals
<1>7. /\ open.status = "open" /\ open \in Records
      /\ preparation = "missing" => open.behavioral = "none"
      /\ preparation # "missing" => open.behavioral = "prepared"
  BY <1>2 DEF OpenRecord, Records, Statuses, Behaviorals
<1>8. open # None /\ Tells(open)'
  BY <1>3, <1>7, NoneAssumption DEF Tells
<1>9. InFlight' /\ (l.record # None => Tells(l.record)')
  BY <1>3, <1>5, <1>6 DEF InFlight, Tells
<1>10. Takes(c)
  <2>1. CASE Raise(c, l)
    BY <1>6, <1>9, <2>1, RaiseStands
  <2>2. CASE Go(c, IF preparation = "missing" THEN "issue" ELSE "finalize",
                [l EXCEPT !.record = open])
    <3>1. PICK m : m = [l EXCEPT !.record = open]
      OBVIOUS
    <3>2. m.record = open /\ m.orphaned = FALSE
      BY <1>6, <3>1 DEF Locals
    <3>3. CASE preparation = "missing"
      <4>1. Standing("issue", m)'
        BY <1>7, <1>8, <1>9, <3>2, <3>3 DEF Standing
      <4> QED BY <2>2, <3>1, <3>3, <4>1, GoesOn
    <3>4. CASE preparation # "missing"
      <4>1. Standing("finalize", m)'
        BY <1>7, <1>8, <1>9, <3>2 DEF Standing
      <4> QED BY <2>2, <3>1, <3>4, <4>1, GoesOn
    <3> QED BY <3>3, <3>4
  <2> QED BY <1>1, <1>2, <2>1, <2>2 DEF Create
<1>11. record' = record \/ (record' # None /\ Tells(record)')
  BY <1>3, <1>8 DEF Tells
<1> QED BY <1>3, <1>10, <1>11, RecordSettles

(* The steps of a release: the bundle, then the preparation. *)
LEMMA ReleaseSettles ==
    ASSUME OneAtATime, Inductive, Settling, NEW c \in Calls,
           ProducerFinalize(c) \/ Consume(c) \/ StoreFinalization(c)
    PROVE  Settling'
<1>1. PICK l : l = local[c]
  OBVIOUS
<1>2. /\ pc[c] \in {"finalize", "consume", "finalized"} /\ UNCHANGED <<claim, record>>
  BY DEF ProducerFinalize, Consume, StoreFinalization, At, OnPreparation, OnBundle
<1>3. /\ l \in Locals /\ InFlight /\ l.orphaned = FALSE /\ l.attempted = FALSE
      /\ l.record # None => Tells(l.record)
  BY <1>1, <1>2, StandsEvaluating DEF Evaluating, Finishing
<1>4. /\ l.record # None => record # None
      /\ pc[c] \in Acting /\ InFlight'
  BY <1>1, <1>2, <1>3, StandsEvaluating DEF Evaluating, Finishing, InFlight
<1>5. preparation = "abandoned" => bundle = "orphaned"
  BY DEF Settling, Disposed
<1>6. Turns /\ (preparation' = "abandoned" => bundle' = "orphaned")
  <2>1. CASE ProducerFinalize(c)
    BY <1>5, <2>1 DEF ProducerFinalize, Commit, OnBundle, Turns
  <2>2. CASE Consume(c) \/ StoreFinalization(c)
    BY <1>5, <2>2 DEF Consume, StoreFinalization, MayConsumePreparation, ConsumePreparation,
       MayFinalize, Finalize, OnPreparation, Turns
  <2> QED BY <2>1, <2>2
<1>7. l.record # None => Tells(l.record)'
  BY <1>3, <1>4, <1>6, RecordTold
<1>8. ASSUME NEW m \in Locals, m.record = l.record, m.orphaned = FALSE, m.attempted = FALSE
      PROVE  /\ Raise(c, m) => Takes(c)
             /\ \A p \in {"consume", "finalized"} : Go(c, p, m) => Takes(c)
  <2>1. ASSUME Raise(c, m) PROVE Takes(c)
    BY <1>4, <1>7, <1>8, <2>1, RaiseStands
  <2>2. ASSUME NEW p \in {"consume", "finalized"}, Go(c, p, m) PROVE Takes(c)
    <3>1. Standing(p, m)'
      BY <1>4, <1>7, <1>8 DEF Standing
    <3> QED BY <2>2, <3>1, GoesOn
  <2> QED BY <2>1, <2>2
<1>9. Takes(c)
  <2>1. CASE ProducerFinalize(c)
    <3>1. CASE Go(c, "consume", l)
      BY <1>3, <1>8, <3>1
    <3>2. CASE Go(c, "finalized", [l EXCEPT !.finalization = TRUE])
      <4>1. PICK m : m = [l EXCEPT !.finalization = TRUE]
        OBVIOUS
      <4>2. m \in Locals /\ m.record = l.record /\ m.orphaned = FALSE /\ m.attempted = FALSE
        BY <1>3, <4>1 DEF Locals
      <4> QED BY <1>8, <3>2, <4>1, <4>2
    <3>3. ASSUME NEW f \in {"known-not-committed", "unsafe-to-consume"},
                 Raise(c, [l EXCEPT !.finalizing = f])
          PROVE  Takes(c)
      <4>1. PICK m : m = [l EXCEPT !.finalizing = f]
        OBVIOUS
      <4>2. m \in Locals /\ m.record = l.record /\ m.orphaned = FALSE /\ m.attempted = FALSE
        BY <1>3, <4>1 DEF Locals
      <4> QED BY <1>8, <3>3, <4>1, <4>2
    <3> QED BY <1>1, <2>1, <3>1, <3>2, <3>3 DEF ProducerFinalize
  <2>2. CASE Raise(c, l)
    BY <1>3, <1>8, <2>2
  <2>3. CASE preparation' = "consumed" /\ Go(c, "mark-consumed", l)
    <3>1. Standing("mark-consumed", l)'
      BY <1>3, <1>4, <1>7, <2>3 DEF Standing
    <3> QED BY <2>3, <3>1, GoesOn
  <2>4. CASE preparation' = "finalized" /\ Go(c, "mark-finalized", l)
    <3>1. Standing("mark-finalized", l)'
      BY <1>3, <1>4, <1>7, <2>4 DEF Standing
    <3> QED BY <2>4, <3>1, GoesOn
  <2>5. CASE Consume(c)
    <3>1. (preparation' = "consumed" /\ Go(c, "mark-consumed", l)) \/ Raise(c, l)
      BY <1>1, <2>5 DEF Consume, ConsumePreparation
    <3> QED BY <2>2, <2>3, <3>1
  <2>6. CASE StoreFinalization(c)
    <3>1. (preparation' = "finalized" /\ Go(c, "mark-finalized", l)) \/ Raise(c, l)
      BY <1>1, <2>6 DEF StoreFinalization, Finalize
    <3> QED BY <2>2, <2>4, <3>1
  <2> QED BY <2>1, <2>5, <2>6
<1> QED BY <1>2, <1>3, <1>4, <1>6, <1>9, PreparationSettles

(* A mark that tells of the preparation what is true of it. *)
LEMMA MarkSettles ==
    ASSUME OneAtATime, Inductive, Settling, NEW c \in Calls, Takes(c), OnRecord,
           NEW prior, NEW next \in Records,
           (MayAdvance(prior, next) /\ Advance(next)) \/ UNCHANGED record,
           MayAdvance(prior, next) => Tells(next)
    PROVE  Settling'
<1>1. UNCHANGED <<claim, preparation, bundle>>
  BY DEF OnRecord
<1>2. CASE UNCHANGED record
  BY <1>1, <1>2, RecordSettles
<1>3. CASE MayAdvance(prior, next) /\ Advance(next)
  <2>1. record' = next /\ record' # None
    BY <1>3, NoneAssumption DEF Advance
  <2>2. Tells(record)'
    BY <1>1, <1>3, <2>1 DEF Tells
  <2> QED BY <1>1, <2>1, <2>2, RecordSettles
<1> QED BY <1>2, <1>3

(* The record is told where the preparation is.                             *)
LEMMA MarkBehavioralSettles ==
    ASSUME OneAtATime, Inductive, Settling, NEW c \in Calls, MarkBehavioral(c)
    PROVE  Settling'
<1>1. PICK l : l = local[c]
  OBVIOUS
<1>2. PICK p : p = pc[c]
  OBVIOUS
<1>3. PICK next : next = [l.record EXCEPT !.behavioral =
                             IF p = "mark-consumed" THEN "consumed" ELSE "finalized"]
  OBVIOUS
<1>4. /\ p \in {"mark-consumed", "mark-finalized"} /\ OnRecord
      /\ (MayAdvance(l.record, next) /\ Advance(next)) \/ UNCHANGED record
      /\ Go(c, "issue", [l EXCEPT !.record = next]) \/ Raise(c, l)
  BY <1>1, <1>2, <1>3 DEF MarkBehavioral, At, Mark, OnRecord
<1>5. /\ l \in Locals /\ InFlight /\ l.orphaned = FALSE /\ l.attempted = FALSE
      /\ l.record # None => Tells(l.record)
  BY <1>1, <1>2, <1>4, StandsEvaluating DEF Evaluating, Finishing
<1>6. Ready(c, p, l) /\ Standing(p, l)
  BY <1>1, <1>2, <1>4, StandsEvaluating DEF Evaluating, Finishing
<1>7. l.record # None /\ l.record.status = "open" /\ l.record \in Records
  BY <1>4, <1>5, <1>6 DEF Ready, Finishing, Locals
<1>8. /\ next \in Records /\ next.status = "open"
      /\ next.behavioral = IF p = "mark-consumed" THEN "consumed" ELSE "finalized"
  BY <1>3, <1>7 DEF Records, Behaviorals
<1>9. Tells(next)
  BY <1>4, <1>6, <1>8 DEF Standing, Tells
<1>10. UNCHANGED <<claim, preparation, bundle>> /\ InFlight'
  BY <1>4, <1>5 DEF OnRecord, InFlight
<1>11. Takes(c)
  <2>1. CASE Go(c, "issue", [l EXCEPT !.record = next])
    <3>1. PICK m : m = [l EXCEPT !.record = next]
      OBVIOUS
    <3>2. m.record = next /\ m.orphaned = FALSE
      BY <1>5, <3>1 DEF Locals
    <3>3. /\ p = "mark-consumed" => preparation = "consumed"
          /\ p = "mark-finalized" => preparation = "finalized"
      BY <1>6 DEF Standing
    <3>4. Tells(next)'
      BY <1>9, <1>10 DEF Tells
    <3>5. Standing("issue", m)'
      BY <1>4, <1>8, <1>10, <3>2, <3>3, <3>4 DEF Standing
    <3> QED BY <2>1, <3>1, <3>5, GoesOn
  <2>2. CASE Raise(c, l)
    <3>1. Tells(l.record)'
      BY <1>5, <1>7, <1>10 DEF Tells
    <3> QED BY <1>5, <1>10, <2>2, <3>1, RaiseStands
  <2> QED BY <1>4, <2>1, <2>2
<1> QED BY <1>4, <1>8, <1>9, <1>11, MarkSettles

(* The result names a release if and only if the record does.               *)
LEMMA IssueSettles ==
    ASSUME OneAtATime, Inductive, Settling, NEW c \in Calls, Issue(c)
    PROVE  Settling'
<1>1. PICK l : l = local[c]
  OBVIOUS
<1>2. PICK envelope : envelope = [by |-> c, named |-> l.record.behavioral = "finalized"]
  OBVIOUS
<1>3. PICK next : next = [l.record EXCEPT !.status = "result-issued", !.envelope = envelope]
  OBVIOUS
<1>4. /\ pc[c] = "issue" /\ OnRecord
      /\ (MayAdvance(l.record, next) /\ Advance(next)) \/ UNCHANGED record
      /\ \/ Go(c, "complete", [l EXCEPT !.record = next, !.envelope = envelope])
         \/ Raise(c, l)
  BY <1>1, <1>2, <1>3 DEF Issue, At, Mark, OnRecord
<1>5. /\ l \in Locals /\ InFlight /\ l.orphaned = FALSE /\ l.attempted = FALSE
      /\ l.record # None => Tells(l.record)
  BY <1>1, <1>4, StandsEvaluating DEF Evaluating, Finishing
<1>6. Ready(c, "issue", l) /\ Standing("issue", l)
  BY <1>1, <1>4, StandsEvaluating DEF Evaluating, Finishing
<1>7. l.record # None /\ l.record.status = "open" /\ l.record \in Records
  BY <1>5, <1>6 DEF Ready, Finishing, Locals
<1>8. envelope \in Envelopes /\ (envelope.named <=> l.record.behavioral = "finalized")
  BY <1>2 DEF Envelopes
<1>9. /\ next \in Records /\ next.status = "result-issued"
      /\ next.behavioral = l.record.behavioral /\ next.envelope = envelope
  BY <1>3, <1>7, <1>8 DEF Records, Statuses
<1>10. Tells(next)
  BY <1>5, <1>7, <1>8, <1>9 DEF Tells
<1>11. UNCHANGED <<claim, preparation, bundle>> /\ InFlight'
  BY <1>4, <1>5 DEF OnRecord, InFlight
<1>12. Takes(c)
  <2>1. CASE Go(c, "complete", [l EXCEPT !.record = next, !.envelope = envelope])
    <3>1. PICK m : m = [l EXCEPT !.record = next, !.envelope = envelope]
      OBVIOUS
    <3>2. m.record = next /\ m.orphaned = FALSE
      BY <1>5, <3>1 DEF Locals
    <3>3. Tells(next)'
      BY <1>10, <1>11 DEF Tells
    <3>4. Standing("complete", m)'
      BY <1>6, <1>9, <1>11, <3>2, <3>3 DEF Standing
    <3> QED BY <2>1, <3>1, <3>4, GoesOn
  <2>2. CASE Raise(c, l)
    <3>1. Tells(l.record)'
      BY <1>5, <1>7, <1>11 DEF Tells
    <3> QED BY <1>5, <1>11, <2>2, <3>1, RaiseStands
  <2> QED BY <1>4, <2>1, <2>2
<1> QED BY <1>4, <1>9, <1>10, <1>12, MarkSettles

(* A completed claim names the release that is there.                       *)
LEMMA CompleteClaimSettles ==
    ASSUME OneAtATime, Inductive, Settling, NEW c \in Calls, CompleteClaim(c)
    PROVE  Settling'
<1>1. PICK k : k = local[c]
  OBVIOUS
<1>2. PICK l : l = [k EXCEPT !.attempted = TRUE]
  OBVIOUS
<1>3. /\ pc[c] = "complete" /\ UNCHANGED <<record, preparation, bundle>>
      /\ Complete(l.envelope) \/ UNCHANGED claim
      /\ (claim'.status = "completed" /\ Go(c, "mark-completed", l)) \/ Raise(c, l)
  <2>1. pc[c] = "complete" /\ UNCHANGED <<record, preparation, bundle>>
    BY DEF CompleteClaim, At, OnLedger, stores
  <2>2. Complete(l.envelope) \/ UNCHANGED claim
    BY <1>1, <1>2 DEF CompleteClaim
  <2>3. CASE Complete(l.envelope) /\ Go(c, "mark-completed", l)
    <3>1. claim \in Claims(Records)
      BY <2>1, StandsEvaluating DEF Evaluating, InFlight, Inductive, Story
    <3>2. claim'.status = "completed"
      BY <2>3, <3>1 DEF Complete, Claims
    <3> QED BY <2>1, <2>2, <2>3, <3>2
  <2>4. CASE Raise(c, l)
    BY <2>1, <2>2, <2>4
  <2> QED BY <1>1, <1>2, <2>3, <2>4 DEF CompleteClaim
<1>4. /\ k \in Locals /\ InFlight /\ k.orphaned = FALSE
      /\ k.record # None => Tells(k.record)
  BY <1>1, <1>3, StandsEvaluating DEF Evaluating
<1>5. Ready(c, "complete", k) /\ Standing("complete", k)
  BY <1>1, <1>3, StandsEvaluating DEF Evaluating
<1>6. /\ l \in Locals /\ l.record = k.record /\ l.envelope = k.envelope
      /\ l.orphaned = FALSE /\ l.attempted = TRUE
  BY <1>2, <1>4 DEF Locals
<1>7. /\ k.record # None /\ k.record \in Records /\ k.record.status = "result-issued"
      /\ k.envelope = k.record.envelope /\ Consistent(k.record)
  BY <1>4, <1>5 DEF Ready, IsIssued, Locals, Behind
<1>8. /\ l.envelope \in Envelopes
      /\ l.envelope.named => preparation = "finalized"
      /\ ~l.envelope.named => preparation \in {"missing", "consumed"}
  <2>1. k.envelope \in Envelopes
    BY <1>7 DEF Records, Consistent
  <2>2. k.record.envelope.named <=> k.record.behavioral = "finalized"
    BY <1>4, <1>7 DEF Tells
  <2>3. k.record.behavioral \in {"none", "finalized", "consumed"}
    BY <1>7 DEF Records, Behaviorals, Consistent
  <2>4. CASE k.record.behavioral = "finalized"
    <3>1. preparation = "finalized"
      BY <1>5, <2>4 DEF Standing
    <3> QED BY <1>6, <1>7, <2>1, <2>2, <2>4, <3>1
  <2>5. CASE k.record.behavioral \in {"none", "consumed"}
    <3>1. preparation \in {"missing", "consumed"}
      BY <1>4, <1>7, <2>5 DEF Tells
    <3> QED BY <1>6, <1>7, <2>1, <2>2, <2>5, <3>1
  <2> QED BY <2>3, <2>4, <2>5
<1>9. claim # None /\ claim \in Claims(Records) /\ claim.status = "in-flight"
  BY <1>4 DEF InFlight, Inductive, Story
<1>10. CASE UNCHANGED claim
  <2>1. claim'.status # "completed" /\ InFlight'
    BY <1>9, <1>10 DEF InFlight
  <2>2. l.record # None => Tells(l.record)'
    BY <1>3, <1>4, <1>6 DEF Tells
  <2>3. Takes(c)
    BY <1>3, <1>6, <2>1, <2>2, RaiseStands
  <2> QED BY <1>3, <1>9, <1>10, <2>3, QuietSettles
<1>11. CASE Complete(l.envelope)
  <2>1. PICK q : q = [claim EXCEPT !.status = "completed"]
    OBVIOUS
  <2>2. claim' = [q EXCEPT !.envelope = l.envelope]
    BY <1>11, <2>1 DEF Complete
  <2>3. q \in Claims(Records) /\ q.status = "completed"
    BY <1>9, <2>1 DEF Claims
  <2>4. claim' \in Claims(Records) /\ claim'.status = "completed" /\ claim'.envelope = l.envelope
    BY <1>8, <2>2, <2>3 DEF Claims
  <2>5. IsCompleted'
    BY <2>4 DEF IsCompleted
  <2>6. l.record # None => Tells(l.record)'
    BY <1>3, <1>4, <1>6 DEF Tells
  <2>7. Takes(c)
    <3>1. CASE Raise(c, l)
      BY <1>6, <2>5, <2>6, <3>1, RaiseStands
    <3>2. CASE Go(c, "mark-completed", l)
      <4>1. Standing("mark-completed", l)'
        BY <1>6, <2>5, <2>6 DEF Standing, Ending
      <4> QED BY <3>2, <4>1, GoesOn
    <3> QED BY <1>3, <3>1, <3>2
  <2>8. OthersStand(c)
    <3>1. Turns /\ (record # None => record' # None)
      BY <1>3 DEF Turns
    <3>2. pc[c] \in Acting
      BY <1>3 DEF Acting
    <3> QED BY <3>1, <3>2, OthersStandBy
  <2>9. record' # None => Tells(record)'
    BY <1>3 DEF Settling, Tells
  <2>10. Disposed'
    <3>1. claim'.status # "consumed"
      BY <2>4
    <3>2. preparation' = "abandoned" => bundle' = "orphaned"
      BY <1>3 DEF Settling, Disposed
    <3>3. preparation' \in IF claim'.envelope.named THEN {"finalized"} ELSE {"missing", "consumed"}
      BY <1>3, <1>8, <2>4
    <3> QED BY <3>1, <3>2, <3>3 DEF Disposed
  <2> QED BY <2>7, <2>8, <2>9, <2>10, SettlesStep
<1> QED BY <1>3, <1>10, <1>11

(* A claim is consumed when nothing is left to release.                     *)
LEMMA ConsumeClaimSettles ==
    ASSUME OneAtATime, Inductive, Settling, NEW c \in Calls, ConsumeClaim(c)
    PROVE  Settling'
<1>1. PICK l : l = local[c]
  OBVIOUS
<1>2. /\ pc[c] = "consume-claim" /\ UNCHANGED <<record, preparation, bundle>> /\ Throw(c)
      /\ ConsumeFailure \/ UNCHANGED claim
  BY DEF ConsumeClaim, At, OnLedger, stores
<1>3. Ready(c, "consume-claim", l) /\ Standing("consume-claim", l)
  BY <1>1, <1>2, StandsThere
<1>4. "consume-claim" \in Acting
  BY DEF Acting
<1>5. InFlight /\ claim # None /\ claim \in Claims(Records)
  BY <1>3, <1>4 DEF Standing, Ending, InFlight, Inductive, Story
<1>6. Takes(c)
  BY <1>2, ThrowStands
<1>7. CASE UNCHANGED claim
  BY <1>2, <1>5, <1>6, <1>7, QuietSettles
<1>8. CASE ConsumeFailure
  <2>1. claim' \in Claims(Records) /\ claim'.status = "consumed"
    BY <1>5, <1>8 DEF ConsumeFailure, Claims
  <2>2. OthersStand(c)
    <3>1. Turns /\ (record # None => record' # None)
      BY <1>2 DEF Turns
    <3> QED BY <1>2, <1>4, <3>1, OthersStandBy
  <2>3. record' # None => Tells(record)'
    BY <1>2 DEF Settling, Tells
  <2>4. preparation \notin {"prepared", "finalized"}
    <3>1. CASE record = None
      BY <1>3, <3>1 DEF Standing, Releasable
    <3>2. CASE record # None
      <4>1. record.status = "failed" /\ Consistent(record) /\ record \in Records /\ Tells(record)
        BY <1>3, <3>2 DEF Ready, Inductive, Story, Settling
      <4>2. record.behavioral \in {"none", "consumed", "abandoned"}
        BY <4>1 DEF Records, Behaviorals, Consistent
      <4> QED BY <4>1, <4>2 DEF Tells
    <3> QED BY <3>1, <3>2
  <2>5. Disposed'
    BY <1>2, <2>1, <2>4 DEF Disposed, Settling
  <2> QED BY <1>6, <2>2, <2>3, <2>5, SettlesStep
<1> QED BY <1>2, <1>7, <1>8

(* A result that was issued, and whose record is completed. *)
LEMMA CompletedTold ==
    ASSUME NEW r \in Records, Tells(r), r.status = "result-issued"
    PROVE  Completed(r) \in Records /\ Tells(Completed(r))
<1>1. PICK k : k = Completed(r)
  OBVIOUS
<1>2. /\ k \in Records /\ k.status = "completed" /\ k.behavioral = r.behavioral
      /\ k.envelope = r.envelope
  BY <1>1 DEF Completed, Records, Statuses
<1>3. Tells(k)
  BY <1>2 DEF Tells
<1> QED BY <1>1, <1>2, <1>3

(* The record is completed as its claim was.                                *)
LEMMA MarkCompletedSettles ==
    ASSUME OneAtATime, Inductive, Settling, NEW c \in Calls, MarkCompleted(c)
    PROVE  Settling'
<1>1. PICK l : l = local[c]
  OBVIOUS
<1>2. PICK p : p = pc[c]
  OBVIOUS
<1>3. PICK next : next = Completed(l.record)
  OBVIOUS
<1>4. /\ p \in Ending /\ OnRecord
      /\ (MayAdvance(l.record, next) /\ Advance(next)) \/ UNCHANGED record
      /\ Throw(c) \/ Raise(c, l) \/ Undo(c, [l EXCEPT !.known = FALSE])
      /\ p = "mark-inspected" => Throw(c) \/ Undo(c, [l EXCEPT !.known = FALSE])
  BY <1>1, <1>2, <1>3 DEF MarkCompleted, At, Mark, Answer, OnRecord, Ending
<1>5. /\ l \in Locals /\ Ready(c, p, l) /\ Standing(p, l)
  BY <1>1, <1>2, StandsThere
<1>6. l.record # None /\ l.record \in Records /\ l.record.status = "result-issued"
  BY <1>4, <1>5 DEF Ready, IsIssued, Locals
<1>7. Tells(l.record) /\ next \in Records /\ Tells(next)
  BY <1>3, <1>5, <1>6, CompletedTold DEF Standing
<1>8. UNCHANGED <<claim, preparation, bundle>>
  BY <1>4 DEF OnRecord
<1>9. IsCompleted' /\ Tells(l.record)'
  BY <1>4, <1>5, <1>7, <1>8 DEF Ready, IsAnswer, IsCompleted, Tells, Ending
<1>10. l.orphaned = FALSE
  <2>1. p \notin AfterHiding
    BY <1>4 DEF AfterHiding, Ending, Undoing
  <2> QED BY <1>5, <2>1 DEF Standing, Locals
<1>11. Takes(c)
  <2>1. CASE Throw(c)
    BY <2>1, ThrowStands
  <2>2. CASE Undo(c, [l EXCEPT !.known = FALSE])
    <3>1. PICK m : m = [l EXCEPT !.known = FALSE]
      OBVIOUS
    <3>2. m.known = FALSE /\ m.record = l.record /\ m.orphaned = FALSE
      BY <1>5, <1>10, <3>1 DEF Locals
    <3> QED BY <1>9, <2>2, <3>1, <3>2, UndoStands
  <2>3. CASE Raise(c, l) /\ p = "mark-completed"
    <3>1. l.attempted
      BY <1>5, <2>3 DEF Standing
    <3> QED BY <1>5, <1>9, <1>10, <2>3, <3>1, RaiseStands
  <2> QED BY <1>4, <2>1, <2>2, <2>3 DEF Ending
<1> QED BY <1>4, <1>7, <1>11, MarkSettles

---------------------------------------------------------------------------
(* The catch block takes back *)

(* After an uncertain completion, what is undone depends on the ledger.     *)
LEMMA InspectSettles ==
    ASSUME OneAtATime, Inductive, Settling, NEW c \in Calls, Inspect(c)
    PROVE  Settling'
<1>1. PICK l : l = local[c]
  OBVIOUS
<1>2. pc[c] = "inspect" /\ UNCHANGED <<claim, record, preparation, bundle>>
  BY DEF Inspect, At, OnNothing, stores
<1>3. /\ l \in Locals /\ Ready(c, "inspect", l) /\ Standing("inspect", l)
      /\ claim # None
  BY <1>1, <1>2, StandsThere DEF Ready
<1>4. "inspect" \in Acting /\ "inspect" \notin AfterHiding
  BY DEF Acting, AfterHiding, Undoing
<1>5. l.orphaned = FALSE
  BY <1>3, <1>4 DEF Standing, Locals
<1>6. l.record # None => Tells(l.record)'
  BY <1>2, <1>3 DEF Standing, Tells
<1>7. ASSUME NEW b \in BOOLEAN, Undo(c, [l EXCEPT !.known = b]), InFlight' \/ (IsCompleted' /\ ~b)
      PROVE  Takes(c)
  <2>1. PICK m : m = [l EXCEPT !.known = b]
    OBVIOUS
  <2>2. m.known = b /\ m.record = l.record /\ m.orphaned = FALSE
    BY <1>3, <1>5, <2>1 DEF Locals
  <2> QED BY <1>6, <1>7, <2>1, <2>2, UndoStands
<1>8. InFlight' \/ IsCompleted'
  BY <1>2, <1>3, <1>4 DEF Standing, InFlight, IsCompleted
<1>9. Takes(c)
  <2>1. CASE claim.status = "completed" /\ Go(c, "mark-inspected", l)
    <3>1. IsCompleted'
      BY <1>2, <1>3, <2>1 DEF IsCompleted
    <3>2. Standing("mark-inspected", l)'
      BY <1>5, <1>6, <3>1 DEF Standing, Ending
    <3> QED BY <2>1, <3>2, GoesOn
  <2>2. CASE Undo(c, [l EXCEPT !.known = FALSE])
    BY <1>7, <1>8, <2>2
  <2>3. CASE claim.status # "completed" /\ Undo(c, [l EXCEPT !.known = TRUE])
    <3>1. InFlight'
      BY <1>2, <1>8, <2>3 DEF IsCompleted
    <3> QED BY <1>7, <2>3, <3>1
  <2> QED BY <1>1, <2>1, <2>2, <2>3 DEF Inspect
<1> QED BY <1>2, <1>9, RecordSettles

(* The bundle is hidden while the claim is in flight.                       *)
LEMMA OrphanSettles ==
    ASSUME OneAtATime, Inductive, Settling, NEW c \in Calls, OrphanBundle(c)
    PROVE  Settling'
<1>1. PICK l : l = local[c]
  OBVIOUS
<1>2. /\ pc[c] = "orphan" /\ UNCHANGED <<claim, record, preparation>>
      /\ bundle' \in {bundle, "orphaned"}
  BY DEF OrphanBundle, At, OnBundle, Orphan
<1>3. /\ l \in Locals /\ Ready(c, "orphan", l) /\ Standing("orphan", l)
      /\ l.record # None => record # None
  BY <1>1, <1>2, StandsThere
<1>4. "orphan" \in Acting /\ "orphan" \notin AfterHiding /\ "orphan" \in Undoing
  BY DEF Acting, AfterHiding, Undoing
<1>5. l.record # None /\ record # None /\ InFlight /\ InFlight'
  BY <1>2, <1>3, <1>4 DEF Ready, Standing, Ending, InFlight
<1>6. Tells(l.record)' /\ Turns
  BY <1>2, <1>3, <1>5 DEF Standing, Tells, Turns
<1>7. preparation' = "abandoned" => bundle' = "orphaned"
  BY <1>2 DEF Settling, Disposed
<1>8. l.orphaned = FALSE
  BY <1>3, <1>4 DEF Standing, Locals
<1>9. Takes(c)
  <2>1. CASE bundle' = "orphaned" /\ Go(c, "abandon", [l EXCEPT !.orphaned = TRUE])
    <3>1. PICK m : m = [l EXCEPT !.orphaned = TRUE]
      OBVIOUS
    <3>2. m.record = l.record /\ m.orphaned = TRUE /\ m.recovering = l.recovering
      BY <1>3, <3>1 DEF Locals
    <3>3. Standing("abandon", m)'
      BY <1>3, <1>5, <1>6, <2>1, <3>2 DEF Standing, AfterHiding, Undoing
    <3> QED BY <2>1, <3>1, <3>3, GoesOn
  <2>2. CASE Finish(c, [l EXCEPT !.known = FALSE])
    <3>1. PICK m : m = [l EXCEPT !.known = FALSE]
      OBVIOUS
    <3>2. m.record = l.record /\ m.orphaned = FALSE
      BY <1>3, <1>8, <3>1 DEF Locals
    <3>3. record' # None
      BY <1>2, <1>5
    <3> QED BY <1>5, <1>6, <2>2, <3>1, <3>2, <3>3, FinishStands
  <2> QED BY <1>1, <2>1, <2>2 DEF OrphanBundle, Orphan
<1> QED BY <1>2, <1>4, <1>5, <1>6, <1>7, <1>9, PreparationSettles

(* Where the call is after the abandonment.                                 *)
LEMMA AfterAbandonStands ==
    ASSUME NEW c, NEW m, AfterAbandon(c, m), m.record # None => Tells(m.record)',
           m.orphaned => bundle' = "orphaned",
           m.recovering => record' # None, InFlight'
    PROVE  Takes(c)
<1>1. CASE m.recovering
  BY <1>1, FinishStands DEF AfterAbandon
<1>2. CASE ~m.recovering
  <2>1. Standing("cleanup", m)'
    BY DEF Standing, AfterHiding
  <2> QED BY <1>2, <2>1, GoesOn DEF AfterAbandon
<1> QED BY <1>1, <1>2

(* The preparation is abandoned after the bundle was hidden.                *)
LEMMA AbandonSettles ==
    ASSUME OneAtATime, Inductive, Settling, NEW c \in Calls, AbandonPreparation(c)
    PROVE  Settling'
<1>1. PICK l : l = local[c]
  OBVIOUS
<1>2. /\ pc[c] = "abandon" /\ UNCHANGED <<claim, record, bundle>>
      /\ (MayAbandon /\ Abandon) \/ UNCHANGED preparation
  BY DEF AbandonPreparation, At, OnPreparation
<1>3. /\ l \in Locals /\ Ready(c, "abandon", l) /\ Standing("abandon", l)
      /\ l.record # None => record # None
  BY <1>1, <1>2, StandsThere
<1>4. "abandon" \in Acting /\ "abandon" \in Undoing
  BY DEF Acting, Undoing
<1>5. l.record # None /\ record # None /\ record' # None /\ InFlight /\ InFlight'
  BY <1>2, <1>3, <1>4 DEF Ready, Standing, Ending, InFlight
<1>6. bundle = "orphaned" /\ bundle' = "orphaned"
  BY <1>2, <1>3 DEF Standing
<1>7. Turns
  BY <1>2 DEF Turns, MayAbandon, Abandon
<1>8. Tells(l.record)'
  <2>1. Tells(l.record)
    BY <1>3, <1>5 DEF Standing
  <2> QED BY <1>5, <1>7, <2>1, RecordTold
<1>9. Takes(c)
  <2>1. CASE /\ Abandon
             /\ l.recovering \/ l.record.behavioral = "finalized"
             /\ Go(c, "mark-abandoned", l)
    <3>1. l.record.behavioral = "finalized"
      BY <1>3, <2>1 DEF Standing
    <3>2. Standing("mark-abandoned", l)'
      BY <1>3, <1>5, <1>6, <1>8, <2>1, <3>1 DEF Standing, Abandon, AfterHiding, Undoing
    <3> QED BY <2>1, <3>2, GoesOn
  <2>2. CASE AfterAbandon(c, [l EXCEPT !.clean = TRUE])
    <3>1. PICK m : m = [l EXCEPT !.clean = TRUE]
      OBVIOUS
    <3>2. m.record = l.record
      BY <1>3, <3>1 DEF Locals
    <3> QED BY <1>5, <1>6, <1>8, <2>2, <3>1, <3>2, AfterAbandonStands
  <2>3. CASE AfterAbandon(c, l)
    BY <1>5, <1>6, <1>8, <2>3, AfterAbandonStands
  <2> QED BY <1>1, <2>1, <2>2, <2>3 DEF AbandonPreparation
<1> QED BY <1>2, <1>4, <1>5, <1>6, <1>7, <1>9, PreparationSettles

(* A record whose release or preparation has been taken back. *)
LEMMA TakenBackTold ==
    ASSUME NEW r \in Records, Consistent(r), Tells(r),
           \/ r.behavioral = "prepared" /\ preparation = "consumed"
           \/ r.behavioral = "finalized" /\ preparation = "abandoned",
           NEW k, k = TakenBack(r)
    PROVE  k \in Records /\ (Consistent(k) => Tells(k))
<1>1. /\ k \in Records
      /\ k.behavioral = IF r.behavioral = "finalized" THEN "abandoned" ELSE "consumed"
      /\ k.status = IF r.status = "result-issued" THEN "failed" ELSE r.status
      /\ k.envelope = r.envelope
  BY DEF TakenBack, Records, Statuses, Behaviorals
<1> QED BY <1>1 DEF Tells, Consistent

(* The record is told of the abandonment.                                   *)
LEMMA MarkAbandonedSettles ==
    ASSUME OneAtATime, Inductive, Settling, NEW c \in Calls, MarkAbandoned(c)
    PROVE  Settling'
<1>1. PICK l : l = local[c]
  OBVIOUS
<1>2. PICK next : next = TakenBack(l.record)
  OBVIOUS
<1>3. /\ pc[c] = "mark-abandoned" /\ OnRecord
      /\ (MayAdvance(l.record, next) /\ Advance(next)) \/ UNCHANGED record
      /\ \/ /\ MayAdvance(l.record, next)
            /\ AfterAbandon(c, [l EXCEPT !.record = next, !.clean = TRUE])
         \/ AfterAbandon(c, l)
  BY <1>1, <1>2 DEF MarkAbandoned, At, Mark, OnRecord
<1>4. /\ l \in Locals /\ Ready(c, "mark-abandoned", l) /\ Standing("mark-abandoned", l)
      /\ l.record # None => Behind(l.record) /\ record # None
  BY <1>1, <1>3, StandsThere
<1>5. "mark-abandoned" \in Acting /\ "mark-abandoned" \in Undoing
  BY DEF Acting, Undoing
<1>6. /\ l.record # None /\ l.record \in Records /\ Consistent(l.record) /\ record # None
      /\ InFlight
  BY <1>4, <1>5 DEF Ready, Standing, Ending, Behind, Locals
<1>7. UNCHANGED <<claim, preparation, bundle>> /\ InFlight' /\ bundle' = "orphaned"
  BY <1>3, <1>4, <1>6 DEF OnRecord, InFlight, Standing
<1>8. next \in Records /\ next # None /\ (Consistent(next) => Tells(next)) /\ Tells(l.record)
  BY <1>2, <1>4, <1>6, TakenBackTold, NoneAssumption DEF Standing
<1>9. MayAdvance(l.record, next) => Tells(next) /\ Tells(next)'
  <2>1. MayAdvance(l.record, next) => Consistent(next)
    BY DEF MayAdvance, Transition
  <2> QED BY <1>7, <1>8, <2>1 DEF Tells
<1>10. record' # None /\ Tells(l.record)'
  BY <1>3, <1>6, <1>7, <1>8 DEF Advance, Tells
<1>11. Takes(c)
  <2>1. CASE /\ MayAdvance(l.record, next)
             /\ AfterAbandon(c, [l EXCEPT !.record = next, !.clean = TRUE])
    <3>1. PICK m : m = [l EXCEPT !.record = next, !.clean = TRUE]
      OBVIOUS
    <3>2. m.record = next
      BY <1>4, <3>1 DEF Locals
    <3> QED BY <1>7, <1>9, <1>10, <2>1, <3>1, <3>2, AfterAbandonStands
  <2>2. CASE AfterAbandon(c, l)
    BY <1>7, <1>10, <2>2, AfterAbandonStands
  <2> QED BY <1>3, <2>1, <2>2
<1> QED BY <1>3, <1>8, <1>9, <1>11, MarkSettles

(* The record is told of the cleaning.                                      *)
LEMMA MarkCleanedSettles ==
    ASSUME OneAtATime, Inductive, Settling, NEW c \in Calls, MarkCleaned(c)
    PROVE  Settling'
<1>1. PICK l : l = local[c]
  OBVIOUS
<1>2. PICK next : next = TakenBack(l.record)
  OBVIOUS
<1>3. /\ pc[c] = "mark-cleaned" /\ OnRecord
      /\ (MayAdvance(l.record, next) /\ Advance(next)) \/ UNCHANGED record
      /\ \/ /\ MayAdvance(l.record, next)
            /\ Finish(c, [l EXCEPT !.record = next, !.clean = TRUE])
         \/ Finish(c, l)
  BY <1>1, <1>2 DEF MarkCleaned, At, Mark, OnRecord
<1>4. /\ l \in Locals /\ Ready(c, "mark-cleaned", l) /\ Standing("mark-cleaned", l)
      /\ l.record # None => Behind(l.record) /\ record # None
  BY <1>1, <1>3, StandsThere
<1>5. "mark-cleaned" \in Acting /\ "mark-cleaned" \in Undoing
  BY DEF Acting, Undoing
<1>6. /\ l.record # None /\ l.record \in Records /\ Consistent(l.record) /\ record # None
      /\ InFlight
  BY <1>4, <1>5 DEF Ready, Standing, Ending, Behind, Locals
<1>7. UNCHANGED <<claim, preparation, bundle>> /\ InFlight'
  BY <1>3, <1>6 DEF OnRecord, InFlight
<1>8. next \in Records /\ next # None /\ (Consistent(next) => Tells(next)) /\ Tells(l.record)
  BY <1>2, <1>4, <1>6, TakenBackTold, NoneAssumption DEF Standing
<1>9. MayAdvance(l.record, next) => Tells(next) /\ Tells(next)'
  <2>1. MayAdvance(l.record, next) => Consistent(next)
    BY DEF MayAdvance, Transition
  <2> QED BY <1>7, <1>8, <2>1 DEF Tells
<1>10. record' # None /\ Tells(l.record)'
  BY <1>3, <1>6, <1>7, <1>8 DEF Advance, Tells
<1>11. l.orphaned => bundle' = "orphaned"
  BY <1>4, <1>7 DEF Standing
<1>12. Takes(c)
  <2>1. CASE /\ MayAdvance(l.record, next)
             /\ Finish(c, [l EXCEPT !.record = next, !.clean = TRUE])
    <3>1. PICK m : m = [l EXCEPT !.record = next, !.clean = TRUE]
      OBVIOUS
    <3>2. m.record = next /\ m.orphaned = l.orphaned
      BY <1>4, <3>1 DEF Locals
    <3> QED BY <1>7, <1>9, <1>10, <1>11, <2>1, <3>1, <3>2, FinishStands
  <2>2. CASE Finish(c, l)
    BY <1>7, <1>10, <1>11, <2>2, FinishStands
  <2> QED BY <1>3, <2>1, <2>2
<1> QED BY <1>3, <1>8, <1>9, <1>12, MarkSettles

(* Discarding raw results touches no preparation.                           *)
LEMMA DiscardSettles ==
    ASSUME OneAtATime, Inductive, Settling, NEW c \in Calls, Discard(c)
    PROVE  Settling'
<1>1. PICK l : l = local[c]
  OBVIOUS
<1>2. /\ pc[c] = "discard" /\ UNCHANGED <<claim, record, preparation, bundle>>
  BY DEF Discard, At, OnWork
<1>3. l \in Locals /\ Standing("discard", l)
  BY <1>1, <1>2, StandsThere
<1>4. "discard" \in Acting
  BY DEF Acting
<1>5. Takes(c)
  <2>1. CASE Throw(c)
    BY <2>1, ThrowStands
  <2>2. CASE l.known /\ l.clean /\ Go(c, "fail-record", l)
    <3>1. l.record # None => Tells(l.record)'
      BY <1>2, <1>3 DEF Standing, Tells
    <3>2. InFlight'
      BY <1>2, <1>3, <1>4, <2>2 DEF Standing, Ending, InFlight
    <3>3. Standing("fail-record", l)'
      BY <1>2, <1>3, <2>2, <3>1, <3>2 DEF Standing, AfterHiding, Releasable
    <3> QED BY <2>2, <3>3, GoesOn
  <2> QED BY <1>1, <2>1, <2>2 DEF Discard
<1> QED BY <1>2, <1>5, RecordSettles

(* A preparation that is cleaned up can no longer be released.              *)
LEMMA CleanupSettles ==
    ASSUME OneAtATime, Inductive, Settling, NEW c \in Calls, Cleanup(c)
    PROVE  Settling'
<1>1. PICK k : k = local[c]
  OBVIOUS
<1>2. PICK l : l = [k EXCEPT !.clean = FALSE]
  OBVIOUS
<1>3. pc[c] = "cleanup" /\ UNCHANGED <<claim, record, bundle>>
  BY DEF Cleanup, At, OnPreparation
<1>4. /\ k \in Locals /\ Ready(c, "cleanup", k) /\ Standing("cleanup", k)
      /\ k.record # None => record # None
  BY <1>1, <1>3, StandsThere
<1>5. "cleanup" \in Acting /\ "cleanup" \notin Ending \cup {"inspect"}
  BY DEF Acting, Ending
<1>6. /\ l \in Locals /\ l.clean = FALSE /\ l.record = k.record /\ l.known = k.known
      /\ l.orphaned = k.orphaned /\ l.recovering = k.recovering
  BY <1>2, <1>4 DEF Locals
<1>7. /\ l.record # None => Tells(l.record) /\ record # None
      /\ l.orphaned => bundle = "orphaned" /\ bundle' = "orphaned"
      /\ InFlight \/ (IsCompleted /\ ~l.known /\ ~l.orphaned)
      /\ l.recovering => l.record # None
  BY <1>3, <1>4, <1>5, <1>6 DEF Standing, Ready, Working
<1>8. Disposed
  BY DEF Settling
<1>9. /\ MustConsume(l) /\ MayConsumePreparation /\ ConsumePreparation =>
            InFlight /\ preparation' = "consumed" /\ Turns
      /\ MustAbandon(l) /\ Abandon =>
            InFlight /\ preparation' = "abandoned" /\ l.orphaned /\ Turns
      /\ UNCHANGED preparation => Turns
  <2>1. ASSUME MustConsume(l), MayConsumePreparation, ConsumePreparation
        PROVE  InFlight /\ preparation' = "consumed" /\ Turns
    <3>1. l.known \/ preparation = "prepared"
      BY <2>1 DEF MustConsume
    <3>2. InFlight
      BY <1>7, <1>8, <3>1 DEF IsCompleted, Disposed
    <3> QED BY <1>3, <2>1, <3>2 DEF MayConsumePreparation, ConsumePreparation, Turns
  <2>2. ASSUME MustAbandon(l), Abandon
        PROVE  InFlight /\ preparation' = "abandoned" /\ l.orphaned /\ Turns
    BY <1>3, <1>7, <2>2 DEF MustAbandon, Abandon, Turns
  <2>3. ASSUME UNCHANGED preparation PROVE Turns
    BY <1>3, <2>3 DEF Turns
  <2> QED BY <2>1, <2>2, <2>3
<1>10. \/ InFlight /\ Turns /\ preparation' \in {"consumed", "abandoned", preparation}
             /\ (preparation' = "abandoned" => bundle' = "orphaned")
       \/ UNCHANGED preparation /\ Turns
  <2>1. preparation = "abandoned" => bundle = "orphaned"
    BY <1>8 DEF Disposed
  <2>2. \/ MustConsume(l) /\ MayConsumePreparation /\ ConsumePreparation
        \/ MustAbandon(l) /\ Abandon
        \/ UNCHANGED preparation
    BY <1>1, <1>2 DEF Cleanup
  <2> QED BY <1>7, <1>9, <2>1, <2>2
<1>11. l.record # None => Tells(l.record)'
  BY <1>7, <1>10, RecordTold
<1>12. InFlight' \/ (IsCompleted' /\ ~l.known /\ ~l.orphaned)
  BY <1>3, <1>7 DEF InFlight, IsCompleted
<1>13. ASSUME NEW b \in BOOLEAN, Finish(c, [l EXCEPT !.clean = b]),
              b /\ record' = None => ~Releasable'
       PROVE  Takes(c)
  <2>1. PICK m : m = [l EXCEPT !.clean = b]
    OBVIOUS
  <2>2. m.record = l.record /\ m.orphaned = l.orphaned /\ m.known = l.known /\ m.clean = b
    BY <1>6, <2>1 DEF Locals
  <2> QED BY <1>7, <1>11, <1>12, <1>13, <2>1, <2>2, FinishStands
<1>14. Takes(c)
  <2>1. CASE /\ MustConsume(l) /\ MayConsumePreparation /\ ConsumePreparation
             /\ Follows(l) /\ Go(c, "mark-cleaned", l)
    <3>1. l.record.behavioral = "prepared" /\ preparation' = "consumed" /\ InFlight'
      BY <1>3, <1>9, <2>1 DEF Follows, InFlight
    <3>2. Standing("mark-cleaned", l)'
      BY <1>7, <1>11, <3>1 DEF Standing, AfterHiding, Undoing
    <3> QED BY <2>1, <3>2, GoesOn
  <2>2. CASE MustAbandon(l) /\ Abandon /\ Follows(l) /\ Go(c, "mark-cleaned", l)
    <3>1. ~MustConsume(l)
      BY <2>2 DEF MustAbandon, MustConsume
    <3>2. l.record.behavioral = "finalized" /\ preparation' = "abandoned" /\ InFlight'
      BY <1>3, <1>9, <2>2, <3>1 DEF Follows, InFlight
    <3>3. Standing("mark-cleaned", l)'
      BY <1>7, <1>11, <3>2 DEF Standing, AfterHiding, Undoing
    <3> QED BY <2>2, <3>3, GoesOn
  <2>3. CASE /\ \/ MustConsume(l) /\ MayConsumePreparation /\ ConsumePreparation
                \/ MustAbandon(l) /\ Abandon
             /\ Finish(c, [l EXCEPT !.clean = TRUE])
    <3>1. ~Releasable'
      BY <1>9, <2>3 DEF Releasable
    <3> QED BY <1>13, <2>3, <3>1
  <2>4. CASE /\ UNCHANGED preparation
             /\ Finish(c, [l EXCEPT !.clean = NothingLeft(l)])
    <3>1. NothingLeft(l) \in BOOLEAN
      BY DEF NothingLeft
    <3>2. NothingLeft(l) /\ record' = None => ~Releasable'
      BY <1>3, <1>7, <2>4 DEF NothingLeft, Releasable
    <3> QED BY <1>13, <2>4, <3>1, <3>2
  <2>5. CASE Finish(c, l)
    BY <1>6, <1>7, <1>11, <1>12, <2>5, FinishStands
  <2> QED BY <1>1, <1>2, <2>1, <2>2, <2>3, <2>4, <2>5 DEF Cleanup
<1> QED
  <2>1. CASE UNCHANGED preparation
    BY <1>3, <1>14, <2>1, RecordSettles
  <2>2. CASE /\ InFlight /\ Turns
             /\ (preparation' = "abandoned" => bundle' = "orphaned")
    BY <1>3, <1>5, <1>14, <2>2, PreparationSettles
  <2> QED BY <1>10, <2>1, <2>2

(* A record that fails tells the same of the preparation. *)
LEMMA FailedTold ==
    ASSUME NEW r \in Records, Tells(r), NEW next, next = [r EXCEPT !.status = "failed"]
    PROVE  next \in Records /\ Tells(next)
<1>1. next \in Records /\ next.status = "failed" /\ next.behavioral = r.behavioral
  BY DEF Records, Statuses
<1> QED BY <1>1 DEF Tells

(* The record fails after the cleaning.                                     *)
LEMMA FailRecordSettles ==
    ASSUME OneAtATime, Inductive, Settling, NEW c \in Calls, FailRecord(c)
    PROVE  Settling'
<1>1. PICK l : l = local[c]
  OBVIOUS
<1>2. pc[c] = "fail-record" /\ UNCHANGED <<claim, preparation, bundle>>
  BY DEF FailRecord, At
<1>3. /\ l \in Locals /\ Ready(c, "fail-record", l) /\ Standing("fail-record", l)
      /\ l.record # None => record # None
  BY <1>1, <1>2, StandsThere
<1>4. "fail-record" \in Acting
  BY DEF Acting
<1>5. /\ InFlight /\ InFlight' /\ (l.record # None => Tells(l.record)')
      /\ l.orphaned => bundle' = "orphaned"
  BY <1>2, <1>3, <1>4 DEF Standing, Ending, InFlight, Tells
<1>6. ASSUME record' = None => record = None /\ ~Releasable, Go(c, "consume-claim", l)
      PROVE  Takes(c)
  <2>1. Standing("consume-claim", l)'
    BY <1>2, <1>5, <1>6 DEF Standing, AfterHiding, Releasable
  <2> QED BY <1>6, <2>1, GoesOn
<1>7. record = None => ~Releasable
  BY <1>3 DEF Standing
<1>8. PICK exact : exact = IF l.recovering THEN l.record ELSE record
  OBVIOUS
<1>9. PICK next : next = [exact EXCEPT !.status = "failed"]
  OBVIOUS
<1>10. CASE /\ UNCHANGED record
            /\ Go(c, "consume-claim", l) \/ Throw(c)
  <2>1. Takes(c)
    BY <1>6, <1>7, <1>10, ThrowStands
  <2> QED BY <1>2, <1>10, <2>1, RecordSettles
<1>11. CASE /\ l.record # None
            /\ (MayAdvance(exact, next) /\ Advance(next)) \/ UNCHANGED record
            /\ Go(c, "consume-claim", l) \/ Throw(c)
  <2>1. exact \in Records /\ Tells(exact)
    BY <1>3, <1>8, <1>11 DEF Standing, Settling, Locals, Inductive, Story
  <2>2. next \in Records /\ Tells(next) /\ next # None
    BY <1>9, <2>1, FailedTold, NoneAssumption
  <2>3. record' # None /\ (record' = record \/ record' = next)
    BY <1>3, <1>11, <2>2 DEF Advance
  <2>4. Tells(next)'
    BY <1>2, <2>2 DEF Tells
  <2>5. Takes(c)
    BY <1>6, <1>11, <2>3, ThrowStands
  <2>6. record' = record \/ (record' # None /\ Tells(record)')
    BY <2>3, <2>4 DEF Tells
  <2> QED BY <1>2, <2>5, <2>6, RecordSettles
<1> QED BY <1>1, <1>8, <1>9, <1>10, <1>11 DEF FailRecord

---------------------------------------------------------------------------
(* Claims and takeovers *)

(* A new claim finds nothing prepared.                                      *)
LEMMA EvaluateSettles ==
    ASSUME OneAtATime, Inductive, Settling, NEW c \in Calls, Evaluate(c)
    PROVE  Settling'
<1>1. UNCHANGED <<record, preparation, bundle>> /\ pc[c] = "idle"
  BY DEF Evaluate, OnLedger, stores, At
<1>2. NoCall \in Locals /\ NoCall.record = None /\ NoCall.orphaned = FALSE
  BY DEF NoCall, Locals
<1>3. CASE UNCHANGED claim
  <2>1. Takes(c)
    <3>1. CASE Go(c, "lookup", NoCall)
      <4>1. Standing("lookup", NoCall)'
        BY <1>2 DEF Standing, Acting, Alone, Finishing, Ending, Undoing
      <4> QED BY <3>1, <4>1, GoesOn
    <3>2. CASE Go(c, "answer", [NoCall EXCEPT !.envelope = claim.envelope])
      <4>1. PICK m : m = [NoCall EXCEPT !.envelope = claim.envelope]
        OBVIOUS
      <4>2. m.record = None /\ m.orphaned = FALSE
        BY <1>2, <4>1 DEF Locals
      <4>3. Standing("answer", m)'
        BY <4>2 DEF Standing, Acting, Alone, Finishing, Ending, Undoing
      <4> QED BY <3>2, <4>1, <4>3, GoesOn
    <3>3. CASE MayClaim /\ Acquire(Controller(c))
      <4>1. Controller(c) \in Controllers
        BY CallOf
      <4>2. claim' \in Claims(Records) /\ claim = None
        BY <3>3, <4>1 DEF Acquire, Claims, MayClaim
      <4> QED BY <1>3, <4>2
    <3> QED BY <3>1, <3>2, <3>3 DEF Evaluate
  <2> QED BY <1>1, <1>3, <2>1, RecordSettles
<1>4. CASE /\ MayClaim /\ Acquire(Controller(c))
           /\ Go(c, "bind", [NoCall EXCEPT !.token = 1]) \/ Throw(c)
  <2>1. Controller(c) \in Controllers
    BY CallOf
  <2>2. claim' \in Claims(Records) /\ claim'.status = "in-flight" /\ claim = None
    BY <1>4, <2>1 DEF Acquire, Claims, MayClaim
  <2>3. InFlight' /\ claim' # None
    BY <2>2 DEF InFlight
  <2>4. Takes(c)
    <3>1. CASE Go(c, "bind", [NoCall EXCEPT !.token = 1])
      <4>1. PICK m : m = [NoCall EXCEPT !.token = 1]
        OBVIOUS
      <4>2. m.record = None /\ m.orphaned = FALSE
        BY <1>2, <4>1 DEF Locals
      <4>3. Standing("bind", m)'
        BY <2>3, <4>2 DEF Standing
      <4> QED BY <3>1, <4>1, <4>3, GoesOn
    <3> QED BY <1>4, <3>1, ThrowStands
  <2>5. OthersStand(c)
    <3>1. Turns /\ (record # None => record' # None)
      BY <1>1 DEF Turns
    <3>2. ~InFlight /\ ~IsCompleted
      BY <2>2 DEF InFlight, IsCompleted
    <3> QED BY <1>1, <3>1, <3>2, OthersStandBy
  <2>6. record' # None => Tells(record)'
    BY <1>1 DEF Settling, Tells
  <2>7. Disposed'
    BY <1>1, <2>2 DEF Disposed, Settling
  <2> QED BY <2>4, <2>5, <2>6, <2>7, SettlesStep
<1> QED BY <1>3, <1>4 DEF Evaluate

(* A call reads a record that tells where the preparation is.               *)
LEMMA LookupSettles ==
    ASSUME OneAtATime, Inductive, Settling, NEW c \in Calls, Lookup(c)
    PROVE  Settling'
<1>1. UNCHANGED <<claim, record, preparation, bundle>>
  BY DEF Lookup, OnNothing, stores
<1>2. CASE Throw(c)
  BY <1>1, <1>2, ThrowStands, RecordSettles
<1>3. CASE record # None /\ Go(c, "takeover", [NoCall EXCEPT !.record = record,
                                  !.envelope = record.envelope, !.recovering = TRUE])
  <2>1. PICK m : m = [NoCall EXCEPT !.record = record,
                        !.envelope = record.envelope, !.recovering = TRUE]
    OBVIOUS
  <2>2. m.record = record /\ m.orphaned = FALSE
    BY <2>1 DEF NoCall
  <2>3. Tells(record) /\ m.record' = record
    BY <1>3, <2>2 DEF Settling
  <2>4. Tells(m.record)'
    BY <1>1, <2>2, <2>3 DEF Tells
  <2>5. Standing("takeover", m)'
    BY <2>2, <2>4 DEF Standing, Acting, Alone, Finishing, Ending, Undoing
  <2>6. Takes(c)
    BY <1>3, <2>1, <2>5, GoesOn
  <2> QED BY <1>1, <2>6, RecordSettles
<1> QED BY <1>2, <1>3 DEF Lookup

(* A takeover goes on from the record it has read. *)
LEMMA ResumeStands ==
    ASSUME Inductive, Settling, NEW c \in Calls, NEW l, l = local[c], NEW p, p = pc[c],
           p \in TakingOver, NEW token \in Nat, Resume(c, token),
           UNCHANGED <<record, preparation, bundle>>, InFlight'
    PROVE  Takes(c)
<1>1. /\ l \in Locals /\ Ready(c, p, l) /\ Standing(p, l)
      /\ l.record # None => record # None
  BY StandsThere
<1>2. /\ l.record # None /\ l.record \in Records /\ record' # None /\ l.attempted = FALSE
      /\ Consistent(l.record)
  BY <1>1 DEF Ready, TakingOver, Locals, Behind
<1>3. l.orphaned = FALSE
  <2>1. p \notin AfterHiding
    BY DEF AfterHiding, TakingOver, Undoing
  <2> QED BY <1>1, <2>1 DEF Standing, Locals
<1>4. PICK m : m = [l EXCEPT !.token = token]
  OBVIOUS
<1>5. /\ m \in Locals /\ m.record = l.record /\ m.orphaned = FALSE /\ m.attempted = FALSE
  BY <1>1, <1>2, <1>3, <1>4 DEF Locals
<1>6. Tells(m.record) /\ Tells(m.record)'
  BY <1>1, <1>2, <1>5 DEF Standing, Tells
<1>7. CASE m.record.status = "failed" /\ Go(c, "consume-claim", m)
  <2>1. Standing("consume-claim", m)'
    BY <1>2, <1>5, <1>6 DEF Standing
  <2> QED BY <1>7, <2>1, GoesOn
<1>8. CASE Throw(c)
  BY <1>8, ThrowStands
<1>9. CASE m.record.behavioral # "finalized" /\ Go(c, "complete", m)
  <2>1. Standing("complete", m)'
    BY <1>5, <1>6, <1>9 DEF Standing
  <2> QED BY <1>9, <2>1, GoesOn
<1>10. CASE Raise(c, m)
  BY <1>5, <1>6, <1>10, RaiseStands
<1>11. CASE m.record.behavioral \in {"none", "consumed"} /\ Go(c, "issue", m)
  <2>1. Standing("issue", m)'
    BY <1>5, <1>6, <1>11 DEF Standing
  <2> QED BY <1>11, <2>1, GoesOn
<1>12. CASE Go(c, "check", m)
  <2>1. Standing("check", m)'
    BY <1>5, <1>6 DEF Standing
  <2> QED BY <1>12, <2>1, GoesOn
<1> QED BY <1>4, <1>7, <1>8, <1>9, <1>10, <1>11, <1>12 DEF Resume

(* A takeover that is answered leaves the stores alone.                     *)
LEMMA SettledStands ==
    ASSUME Inductive, Settling, NEW c \in Calls, pc[c] \in TakingOver, Settled(c),
           UNCHANGED <<preparation, bundle>>
    PROVE  Takes(c)
<1>1. PICK l : l = local[c]
  OBVIOUS
<1>2. PICK p : p = pc[c]
  OBVIOUS
<1>3. l \in Locals /\ Standing(p, l)
  BY <1>1, <1>2, StandsThere
<1>4. l.orphaned = FALSE /\ (l.record # None => Tells(l.record)')
  <2>1. p \notin AfterHiding
    BY <1>2 DEF AfterHiding, TakingOver, Undoing
  <2> QED BY <1>3, <2>1 DEF Standing, Locals, Tells
<1>5. Standing("answer", l)'
  BY <1>4 DEF Standing, Acting, Alone, Finishing, Ending, Undoing
<1>6. CASE Throw(c)
  BY <1>6, ThrowStands
<1>7. CASE Go(c, "answer", l)
  BY <1>5, <1>7, GoesOn
<1> QED BY <1>1, <1>6, <1>7 DEF Settled

(* Asking the authority leaves the stores alone.                            *)
LEMMA TakeoverSettles ==
    ASSUME OneAtATime, Inductive, Settling, NEW c \in Calls, Takeover(c)
    PROVE  Settling'
<1>1. PICK l : l = local[c]
  OBVIOUS
<1>2. /\ UNCHANGED <<claim, record, preparation, bundle>> /\ pc[c] = "takeover"
      /\ pc[c] \in TakingOver
  BY DEF Takeover, OnNothing, stores, At, TakingOver
<1>3. l \in Locals /\ Standing("takeover", l)
  BY <1>1, <1>2, StandsThere
<1>4. Takes(c)
  <2>1. CASE Settled(c)
    BY <1>2, <2>1, SettledStands
  <2>2. CASE InFlight /\ Resume(c, claim.token)
    <3>1. claim.token \in Nat /\ InFlight'
      BY <1>2, <2>2 DEF InFlight, Inductive, Story, Claims
    <3> QED BY <1>1, <1>2, <2>2, <3>1, ResumeStands
  <2>3. CASE Go(c, "rotate", [l EXCEPT !.token = claim.token])
    <3>1. PICK m : m = [l EXCEPT !.token = claim.token]
      OBVIOUS
    <3>2. m.record = l.record /\ m.orphaned = FALSE
      BY <1>3, <3>1 DEF Locals, Standing, AfterHiding, Undoing
    <3>3. m.record # None => Tells(m.record)'
      BY <1>2, <1>3, <3>2 DEF Standing, Tells
    <3>4. Standing("rotate", m)'
      BY <3>2, <3>3 DEF Standing, Acting, Alone, Finishing, Ending, Undoing
    <3> QED BY <2>3, <3>1, <3>4, GoesOn
  <2>4. CASE Throw(c)
    BY <2>4, ThrowStands
  <2> QED BY <1>1, <2>1, <2>2, <2>3, <2>4 DEF Takeover
<1> QED BY <1>2, <1>4, RecordSettles

(* The new owner goes on from where the record says the old one was.        *)
LEMMA RotateClaimSettles ==
    ASSUME OneAtATime, Inductive, Settling, NEW c \in Calls, RotateClaim(c)
    PROVE  Settling'
<1>1. PICK l : l = local[c]
  OBVIOUS
<1>2. /\ UNCHANGED <<record, preparation, bundle>> /\ pc[c] = "rotate"
      /\ pc[c] \in TakingOver
  BY DEF RotateClaim, OnLedger, stores, At, TakingOver
<1>3. /\ l \in Locals /\ Ready(c, "rotate", l) /\ claim # None /\ claim \in Claims(Records)
      /\ Controller(c) \in Controllers
  BY <1>1, <1>2, StandsThere, CallOf DEF Ready, Inductive, Story
<1>4. l.record \in Records
  BY <1>3 DEF Ready, TakingOver, Locals
<1>5. CASE UNCHANGED claim /\ (Settled(c) \/ Throw(c))
  <2>1. Takes(c)
    BY <1>2, <1>5, SettledStands, ThrowStands
  <2> QED BY <1>2, <1>5, <2>1, RecordSettles
<1>6. CASE /\ InFlight /\ Rotate(Controller(c), l.record)
           /\ Resume(c, claim.token + 1) \/ Throw(c)
  <2>1. PICK q : q = [claim EXCEPT !.owner = Controller(c)]
    OBVIOUS
  <2>2. PICK k : k = [q EXCEPT !.token = claim.token + 1]
    OBVIOUS
  <2>3. claim' = [k EXCEPT !.recovered = l.record]
    BY <1>3, <1>6, <2>1, <2>2 DEF Claims, Rotate
  <2>4. claim.token + 1 \in Nat
    BY <1>3 DEF Claims
  <2>5. q \in Claims(Records) /\ q.status = claim.status /\ q.envelope = claim.envelope
    BY <1>3, <2>1 DEF Claims
  <2>6. k \in Claims(Records) /\ k.status = claim.status /\ k.envelope = claim.envelope
    BY <2>2, <2>4, <2>5 DEF Claims
  <2>7. /\ claim' \in Claims(Records) /\ claim'.status = claim.status
        /\ claim'.envelope = claim.envelope
    BY <1>4, <2>3, <2>6 DEF Claims
  <2>8. claim' # None /\ InFlight'
    BY <1>6, <2>7 DEF InFlight
  <2>9. Takes(c)
    <3>1. CASE Resume(c, claim.token + 1)
      BY <1>1, <1>2, <2>4, <2>8, <3>1, ResumeStands
    <3> QED BY <1>6, <3>1, ThrowStands
  <2> QED BY <1>2, <1>3, <2>7, <2>8, <2>9, QuietSettles
<1> QED BY <1>1, <1>5, <1>6 DEF RotateClaim, Unchanged

(* The new owner finds the release, or undoes it.                           *)
LEMMA CheckSettles ==
    ASSUME OneAtATime, Inductive, Settling, NEW c \in Calls, Check(c)
    PROVE  Settling'
<1>1. PICK l : l = local[c]
  OBVIOUS
<1>2. PICK gone : gone = [l.record EXCEPT !.behavioral = "abandoned",
                             !.status = IF @ = "result-issued" THEN "failed" ELSE @]
  OBVIOUS
<1>3. pc[c] = "check" /\ UNCHANGED <<claim, preparation, bundle>>
  BY DEF Check, At, Mark, OnNothing, stores
<1>4. /\ l \in Locals /\ InFlight /\ l.orphaned = FALSE /\ l.attempted = FALSE
      /\ l.record # None => Tells(l.record)
  BY <1>1, <1>3, StandsEvaluating DEF Evaluating
<1>5. Ready(c, "check", l)
  BY <1>1, <1>3, StandsThere
<1>6. /\ l.record # None /\ l.record \in Records
      /\ l.record.status \in {"open", "result-issued"}
  BY <1>4, <1>5 DEF Ready, Working, Locals, Acting
<1>7. InFlight' /\ Tells(l.record) /\ Tells(l.record)'
  BY <1>3, <1>4, <1>6 DEF InFlight, Tells
<1>8. CASE preparation = "abandoned" /\ OnRecord
           /\ ((MayAdvance(l.record, gone) /\ Advance(gone)) \/ UNCHANGED record)
           /\ (Raise(c, [l EXCEPT !.record = gone]) \/ Raise(c, l))
  <2>1. /\ gone \in Records /\ gone.behavioral = "abandoned"
        /\ gone.status \in {"open", "failed"}
    BY <1>2, <1>6 DEF Records, Statuses, Behaviorals
  <2>2. Tells(gone) /\ Tells(gone)'
    BY <1>3, <1>8, <2>1 DEF Tells
  <2>3. Takes(c)
    <3>1. PICK m : m = [l EXCEPT !.record = gone]
      OBVIOUS
    <3>2. /\ m \in Locals /\ m.record = gone /\ m.orphaned = FALSE /\ m.attempted = FALSE
      BY <1>4, <2>1, <3>1 DEF Locals
    <3>3. CASE Raise(c, m)
      BY <1>7, <2>2, <3>2, <3>3, RaiseStands
    <3>4. CASE Raise(c, l)
      BY <1>4, <1>7, <3>4, RaiseStands
    <3> QED BY <1>8, <3>1, <3>3, <3>4
  <2> QED BY <1>8, <2>1, <2>2, <2>3, MarkSettles
<1>9. CASE UNCHANGED record /\ (Raise(c, l) \/ (/\ Checked(l.record) # "detached"
                                                /\ Go(c, Checked(l.record), l)))
  <2>1. CASE Raise(c, l)
    <3>1. Takes(c)
      BY <1>4, <1>7, <2>1, RaiseStands
    <3> QED BY <1>3, <1>9, <3>1, RecordSettles
  <2>2. CASE Checked(l.record) # "detached" /\ Go(c, Checked(l.record), l)
    <3>1. PICK p : p = Checked(l.record)
      OBVIOUS
    <3>2. \/ p = "finalize"
          \/ p = "mark-finalized" /\ preparation = "finalized"
          \/ p = "mark-consumed" /\ preparation = "consumed"
          \/ /\ p \in {"issue", "complete"} /\ preparation = "finalized"
             /\ l.record.behavioral = "finalized"
      BY <2>2, <3>1 DEF Checked
    <3>3. Standing(p, l)'
      BY <1>3, <1>4, <1>7, <3>2 DEF Standing
    <3>4. Takes(c)
      BY <2>2, <3>1, <3>3, GoesOn
    <3> QED BY <1>3, <1>9, <3>4, RecordSettles
  <2> QED BY <1>9, <2>1, <2>2
<1> QED BY <1>1, <1>2, <1>8, <1>9 DEF Check, Mark, OnRecord, OnNothing, stores

(* Answering leaves the stores alone.                                       *)
LEMMA AnswerCompletedSettles ==
    ASSUME OneAtATime, Inductive, Settling, NEW c \in Calls, AnswerCompleted(c)
    PROVE  Settling'
<1>1. PICK l : l = local[c]
  OBVIOUS
<1>2. PICK r : r = IF l.recovering THEN l.record ELSE record
  OBVIOUS
<1>3. Throw(c) /\ pc[c] = "answer"
  BY DEF AnswerCompleted, At, Mark, Answer
<1>4. /\ l \in Locals /\ Standing("answer", l)
  BY <1>1, <1>3, StandsThere
<1>5. Takes(c)
  BY <1>3, ThrowStands
<1>6. CASE UNCHANGED <<claim, stores>>
  BY <1>5, <1>6, RecordSettles DEF stores
<1>7. CASE /\ r # None /\ r.status = "result-issued" /\ OnRecord
           /\ (MayAdvance(r, Completed(r)) /\ Advance(Completed(r))) \/ UNCHANGED record
  <2>1. r \in Records /\ Tells(r)
    BY <1>2, <1>4, <1>7 DEF Standing, Settling, Locals, Inductive, Story
  <2>2. Completed(r) \in Records /\ Tells(Completed(r))
    BY <1>7, <2>1, CompletedTold
  <2> QED BY <1>5, <1>7, <2>2, MarkSettles
<1> QED BY <1>1, <1>2, <1>6, <1>7 DEF AnswerCompleted, Mark, OnRecord, OnNothing, stores

(* A crash leaves the stores as they are, and its controller without calls. *)
LEMMA CrashSettles ==
    ASSUME Inductive, Settling, NEW k \in Controllers, Crash(k)
    PROVE  Settling'
<1>1. /\ UNCHANGED <<claim, record, preparation, bundle>>
      /\ pc' = [c \in Calls |-> IF Controller(c) = k THEN "down" ELSE pc[c]]
      /\ local' = [c \in Calls |-> IF Controller(c) = k THEN NoCall ELSE local[c]]
  BY DEF Crash, stores
<1>2. NoCall.record = None /\ NoCall.orphaned = FALSE
  BY DEF NoCall
<1>3. ASSUME NEW c \in Calls PROVE Standing(pc[c], local[c])'
  <2>1. PICK p, l : p = pc'[c] /\ l = local'[c]
    OBVIOUS
  <2>2. Standing(p, l)'
    <3>1. CASE Controller(c) = k
      <4>1. p = "down" /\ l = NoCall
        BY <1>1, <2>1, <3>1
      <4> QED
        BY <1>2, <4>1 DEF Standing, Acting, Alone, Finishing, Ending, Undoing
    <3>2. CASE Controller(c) # k
      <4>1. p = pc[c] /\ l = local[c]
        BY <1>1, <2>1, <3>2
      <4>2. Standing(p, l)
        BY <4>1 DEF Settling
      <4> QED BY <1>1, <4>2 DEF Standing, Tells, Releasable, InFlight, IsCompleted
    <3> QED BY <3>1, <3>2
  <2> QED BY <2>1, <2>2 DEF Standing
<1>4. (record # None => Tells(record))' /\ Disposed'
  BY <1>1 DEF Settling, Tells, Disposed
<1> QED BY <1>3, <1>4 DEF Settling

(* Nothing is prepared at the start.                                        *)
LEMMA InitSettles == Init => Settling
<1> SUFFICES ASSUME Init PROVE Settling
  OBVIOUS
<1>1. /\ record = None /\ claim = None /\ preparation = "missing"
      /\ pc = [c \in Calls |-> "idle"] /\ local = [c \in Calls |-> NoCall]
  BY DEF Init, LedgerInit, StoresInit
<1>2. NoCall.record = None /\ NoCall.orphaned = FALSE
  BY DEF NoCall
<1>3. Standing("idle", NoCall)
  BY <1>2 DEF Standing, Acting, Alone, Finishing, Ending, Undoing
<1>4. ASSUME NEW c \in Calls PROVE Standing(pc[c], local[c])
  <2>1. pc[c] = "idle" /\ local[c] = NoCall
    BY <1>1
  <2> QED BY <1>3, <2>1
<1> QED BY <1>1, <1>4 DEF Settling, Disposed

(* Every step keeps it, if calls of a controller do not overlap.            *)
LEMMA NextSettles ==
    ASSUME OneAtATime, Inductive, Settling, [Next]_vars
    PROVE  Settling'
<1>1. ASSUME NEW c \in Calls, FirstStep(c) PROVE Settling'
  BY <1>1, EvaluateSettles, BindSettles, WorkSettles, CreateSettles, ReleaseSettles,
     MarkBehavioralSettles, IssueSettles, CompleteClaimSettles, MarkCompletedSettles
     DEF FirstStep
<1>2. ASSUME NEW c \in Calls, CatchStep(c) PROVE Settling'
  BY <1>2, InspectSettles, OrphanSettles, AbandonSettles, MarkAbandonedSettles, CleanupSettles,
     MarkCleanedSettles, DiscardSettles, FailRecordSettles, ConsumeClaimSettles DEF CatchStep
<1>3. ASSUME NEW c \in Calls, TakeoverStep(c) PROVE Settling'
  BY <1>3, LookupSettles, TakeoverSettles, RotateClaimSettles, CheckSettles,
     AnswerCompletedSettles DEF TakeoverStep
<1>4. ASSUME NEW k \in Controllers, Crash(k) PROVE Settling'
  BY <1>4, CrashSettles
<1>5. CASE UNCHANGED vars
  BY <1>5 DEF vars, stores, Settling, Standing, Tells, Releasable, Disposed,
     InFlight, IsCompleted
<1> QED BY <1>1, <1>2, <1>3, <1>4, <1>5 DEF Next, Step

(* If no controller works on two calls of the request at a time: a consumed *)
(* claim leaves nothing that could still release, an abandoned preparation  *)
(* no visible bundle, and a completed claim that names a release its        *)
(* preparation finalized.                                                   *)
THEOREM EvaluationNothingReleasable ==
    ASSUME OneAtATime PROVE Spec => []NothingReleasable
<1>1. Init => Settling
  BY InitSettles
<1>2. Inductive /\ Settling /\ [Next]_vars => Settling'
  BY NextSettles
<1>3. Settling => NothingReleasable
  BY DEF Settling, Disposed, NothingReleasable
<1> QED BY <1>1, <1>2, <1>3, EvaluationInductive, PTL DEF Spec

=============================================================================
