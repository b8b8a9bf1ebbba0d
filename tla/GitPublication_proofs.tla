----------------------- MODULE GitPublication_proofs ------------------------
(* What a publication relies on and keeps, for any number of crashes, lost *)
(* answers, late pushes and pushes of others.                              *)
EXTENDS GitPublication, TLAPS

(* The places where the intent is on disk, and where the publisher has     *)
(* read that both refs are the candidate.                                  *)
AfterIntent == {"before", "push", "after", "localRef", "receipt"}
AfterReading == {"localRef", "receipt"}

(* The candidate is known to the remote, alone or below a child, only from *)
(* one atomic push, which is sent, or still under way, after the intent.   *)
Inductive ==
    /\ TypeOK
    /\ RecordedAfterLanding
    /\ RefsMoveTogether
    /\ IntentFirst
    /\ pc \in AfterReading => landed
    /\ pc \in AfterIntent \/ inFlight => intent

(* A push that is accepted moves both refs to the candidate at once.        *)
LEMMA AcceptedMoves ==
    ASSUME TypeOK, Accepted
    PROVE  /\ experimentRef' \in (Commits \ {"base"}) \cup {None}
           /\ championRef' \in (Commits \ {"base"}) \cup {None}
           /\ landed' \in BOOLEAN
           /\ landed => landed'
           /\ landed' /\ ~landed => experimentRef' = "candidate"
           /\ experimentRef' \in {"candidate", "child"} =>
                 landed' \/ experimentRef' = experimentRef
  BY PublicationAssumption DEF TypeOK, Accepted, MoveRefs, FastForward, Commits, Ancestors

(* Somebody else's push does not bring the candidate, and shows a child     *)
(* only of a candidate that is there.                                       *)
LEMMA ForeignMoves ==
    ASSUME TypeOK, RefsMoveTogether, ForeignPush
    PROVE  /\ experimentRef' \in (Commits \ {"base"}) \cup {None}
           /\ championRef' \in (Commits \ {"base"}) \cup {None}
           /\ landed' \in BOOLEAN
           /\ landed' = (landed \/ (experimentRef' = "candidate" /\ championRef' = "candidate"))
           /\ experimentRef' \in {"candidate", "child"} => landed
  BY PublicationAssumption
  DEF TypeOK, RefsMoveTogether, ForeignPush, MoveRefs, FastForward, Commits, Ancestors

(* Nothing is published at the start.                                       *)
LEMMA InitKeeps == Init => Inductive
<1> SUFFICES ASSUME Init PROVE Inductive
  OBVIOUS
<1>1. experimentRef \in (Commits \ {"base"}) \cup {None}
      /\ championRef \in (Commits \ {"base"}) \cup {None}
  BY DEF Init, Commits
<1>2. TypeOK
  <2>1. {experimentRef, championRef} \subseteq (Commits \ {"base"}) \cup {None}
    BY <1>1
  <2>2. {landed, inFlight, intent, localRef, receipt, pushFailed} \subseteq BOOLEAN
    BY Zenon DEF Init
  <2>3. faults \in 0..MaxFaults /\ foreign \in 0..MaxForeign
    BY PublicationAssumption DEF Init
  <2> QED BY <2>1, <2>2, <2>3 DEF Init, TypeOK
<1> QED
  BY <1>2, PublicationAssumption
  DEF Init, Inductive, RecordedAfterLanding, RefsMoveTogether, IntentFirst, AfterReading,
      AfterIntent

(* Every step keeps the invariant.                                          *)
LEMMA NextKeeps == Inductive /\ [Next]_vars => Inductive'
<1> SUFFICES ASSUME Inductive, [Next]_vars PROVE Inductive'
  OBVIOUS
<1> USE DEF Inductive, AfterReading, AfterIntent
<1>1. CASE Begin
  BY <1>1 DEF Begin, Goto, refs, files, TypeOK, RecordedAfterLanding, RefsMoveTogether, IntentFirst
<1>2. CASE CommitCandidate
  BY <1>2 DEF CommitCandidate, Goto, refs, files, TypeOK, RecordedAfterLanding,
              RefsMoveTogether, IntentFirst
<1>3. CASE PersistIntent
  BY <1>3 DEF PersistIntent, Goto, refs, TypeOK, RecordedAfterLanding, RefsMoveTogether,
              IntentFirst
<1>4. CASE ListBefore
  BY <1>4 DEF ListBefore, Complete, Goto, refs, files, TypeOK, RecordedAfterLanding,
              RefsMoveTogether, IntentFirst
<1>5. CASE Push
  <2>1. UNCHANGED <<intent, localRef, receipt, foreign>> /\ pc' = "after" /\ intent = TRUE
    BY <1>5 DEF Push, Goto, files, TypeOK
  <2>2. pushFailed' \in BOOLEAN
    BY <1>5, Zenon DEF Push, Complete
  <2>3. faults' \in 0..MaxFaults
    BY <1>5, PublicationAssumption DEF Push, Fault, refs, TypeOK
  <2>4. CASE Accepted /\ UNCHANGED inFlight
    BY <2>1, <2>2, <2>3, <2>4, AcceptedMoves
    DEF TypeOK, RecordedAfterLanding, RefsMoveTogether, IntentFirst
  <2>5. CASE UNCHANGED <<experimentRef, championRef, landed>> /\ inFlight' \in BOOLEAN
    BY <2>1, <2>2, <2>3, <2>5 DEF TypeOK, RecordedAfterLanding, RefsMoveTogether, IntentFirst
  <2> QED BY <1>5, <2>4, <2>5 DEF Push, refs, TypeOK
<1>6. CASE ListAfter
  BY <1>6 DEF ListAfter, Complete, Goto, refs, files, TypeOK, RecordedAfterLanding,
              RefsMoveTogether, IntentFirst
<1>7. CASE UpdateLocalRef
  BY <1>7 DEF UpdateLocalRef, Goto, refs, TypeOK, RecordedAfterLanding, RefsMoveTogether,
              IntentFirst
<1>8. CASE RecordPublication
  BY <1>8 DEF RecordPublication, Goto, refs, TypeOK, RecordedAfterLanding, RefsMoveTogether,
              IntentFirst
<1>9. CASE Block
  BY <1>9 DEF Block, Goto, refs, files, TypeOK, RecordedAfterLanding, RefsMoveTogether,
              IntentFirst
<1>10. CASE CommandFails \/ Crash
  BY <1>10, PublicationAssumption
  DEF CommandFails, Crash, Fault, Goto, refs, files, TypeOK, RecordedAfterLanding,
      RefsMoveTogether, IntentFirst
<1>11. CASE PushLands
  BY <1>11, AcceptedMoves
  DEF PushLands, files, TypeOK, RecordedAfterLanding, RefsMoveTogether, IntentFirst
<1>12. CASE ForeignPush
  <2>1. foreign' \in 0..MaxForeign
    BY <1>12, PublicationAssumption DEF ForeignPush, TypeOK
  <2>2. UNCHANGED <<inFlight, files, pc, pushFailed, faults>>
    BY <1>12 DEF ForeignPush
  <2>3. landed' = landed
    BY <1>12, ForeignMoves DEF TypeOK
  <2> QED
    BY <1>12, <2>1, <2>2, <2>3, ForeignMoves
    DEF files, TypeOK, RecordedAfterLanding, RefsMoveTogether, IntentFirst
<1>13. CASE UNCHANGED vars
  BY <1>13 DEF vars, refs, files, TypeOK, RecordedAfterLanding, RefsMoveTogether, IntentFirst
<1> QED
  BY <1>1, <1>2, <1>3, <1>4, <1>5, <1>6, <1>7, <1>8, <1>9, <1>10, <1>11, <1>12, <1>13
  DEF Next, Publisher

(* The inductive invariant, with the types, holds in every behaviour: the  *)
(* candidate reaches the remote by one push of both refs, after its intent.*)
THEOREM InductiveInvariant == Spec => []Inductive
  BY InitKeeps, NextKeeps, PTL DEF Spec

(* Neither the local ref nor the receipt exists before both refs of the    *)
(* remote were seen at the candidate (publishLocalGitChampion).            *)
THEOREM RecordedOnlyAfterLanding == Spec => []RecordedAfterLanding
<1>1. Inductive => RecordedAfterLanding
  BY DEF Inductive
<1> QED BY <1>1, InductiveInvariant, PTL
=============================================================================
