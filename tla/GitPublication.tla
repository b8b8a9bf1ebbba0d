--------------------------- MODULE GitPublication ---------------------------
(***************************************************************************)
(* The publication of one promoted candidate                               *)
(* (src/local/real/git-publication.ts, publishLocalGitChampion, and its    *)
(* caller publish in native-adapter.ts): two refs of the remote, the       *)
(* experiment's and the campaign champion's, are moved to the candidate    *)
(* commit by one atomic push that is never forced.  LocalRunner has this   *)
(* as its actions PushChampion and RecordPublication.                      *)
(*                                                                         *)
(* An action is one Git command or one file written.  The answer of any of *)
(* them can be lost, a push that timed out can still land later, others    *)
(* push to the same remote, and the runner can crash and start over.       *)
(***************************************************************************)
EXTENDS Naturals

CONSTANTS
    None,         \* a ref that does not exist
    MaxFaults,    \* bound: crashes, failed commands and lost answers
    MaxForeign    \* bound: refs moved by somebody else

ASSUME PublicationAssumption ==
    /\ None \notin {"base", "parent", "candidate", "sibling", "child"}
    /\ MaxFaults \in Nat /\ MaxForeign \in Nat

VARIABLES
    experimentRef, championRef,  \* refs/heads/df/... of the remote
    landed,       \* history: both refs have been the candidate at once
    inFlight,     \* a push whose answer timed out may still be applied
    intent,       \* publication-intent.json exists
    localRef,     \* refs/dark-factory/champions/<campaign> is the candidate
    receipt,      \* publication.json exists
    pc,           \* where the publisher is
    pushFailed,   \* its pushFailure
    faults, foreign

refs == <<experimentRef, championRef, landed, inFlight>>
files == <<intent, localRef, receipt>>
vars == <<refs, files, pc, pushFailed, faults, foreign>>

(* base <- parent <- candidate <- child, and sibling on parent.  The       *)
(* candidate commit is deterministic: every attempt makes the same one.    *)
Commits == {"base", "parent", "candidate", "sibling", "child"}
Ancestors == [base |-> {}, parent |-> {"base"}, candidate |-> {"base", "parent"},
              sibling |-> {"base", "parent"}, child |-> {"base", "parent", "candidate"}]

(* A remote takes a push that is not forced if it fast-forwards the ref.   *)
FastForward(ref, commit) == ref \in {None, commit} \cup Ancestors[commit]

Init ==
    /\ experimentRef = None
    /\ championRef \in {None, "parent"}
    /\ landed = FALSE /\ inFlight = FALSE
    /\ intent = FALSE /\ localRef = FALSE /\ receipt = FALSE
    /\ pc = "off"
    /\ pushFailed = FALSE
    /\ faults = 0 /\ foreign = 0

Fault == faults < MaxFaults /\ faults' = faults + 1
Goto(there) == pc' = there /\ UNCHANGED foreign

MoveRefs(e, c) ==
    /\ experimentRef' = e
    /\ championRef' = c
    /\ landed' = (landed \/ (e = "candidate" /\ c = "candidate"))

---------------------------------------------------------------------------
(* publishLocalGitChampion *)

(* The runner comes to the publication, the first time or after a crash.   *)
Begin ==
    /\ pc = "off" /\ ~receipt
    /\ pushFailed' = FALSE
    /\ Goto("commit")
    /\ UNCHANGED <<refs, files, faults>>

(* The worktree is the evaluated tree on its parent: commit-tree.          *)
CommitCandidate ==
    /\ pc = "commit"
    /\ Goto("intent")
    /\ UNCHANGED <<refs, files, pushFailed, faults>>

PersistIntent ==
    /\ pc = "intent"
    /\ intent' = TRUE
    /\ Goto("before")
    /\ UNCHANGED <<refs, localRef, receipt, pushFailed, faults>>

Complete == experimentRef = "candidate" /\ championRef = "candidate"
Ready == experimentRef = None /\ championRef \in {None, "parent"}

(* Fault: a publication that already happened is a conflict. *)
ListBefore_OwnConflict ==
    /\ pc = "before"
    /\ Goto(IF Ready THEN "push" ELSE "failed")
    /\ UNCHANGED <<refs, files, pushFailed, faults>>

ListBefore ==
    /\ pc = "before"
    /\ Goto(IF Complete THEN "localRef" ELSE IF Ready THEN "push" ELSE "failed")
    /\ UNCHANGED <<refs, files, pushFailed, faults>>

(* push --atomic: both refs move, or neither.                              *)
Accepted ==
    IF FastForward(experimentRef, "candidate") /\ FastForward(championRef, "candidate")
    THEN MoveRefs("candidate", "candidate")
    ELSE MoveRefs(experimentRef, championRef)

Push ==
    /\ pc = "push"
    /\ Goto("after")
    /\ UNCHANGED files
    /\ \/ Accepted /\ pushFailed' = ~Complete' /\ UNCHANGED <<inFlight, faults>>
       \/ Accepted /\ pushFailed' = TRUE /\ Fault /\ UNCHANGED inFlight
       \/ pushFailed' = TRUE /\ Fault /\ UNCHANGED refs
       \/ pushFailed' = TRUE /\ Fault /\ inFlight' = TRUE
          /\ UNCHANGED <<experimentRef, championRef, landed>>

(* Fault: the push is trusted, and the refs are not compared. *)
ListAfter_Unread ==
    /\ pc = "after"
    /\ Goto("localRef")
    /\ UNCHANGED <<refs, files, pushFailed, faults>>

(* What the remote holds decides, whatever the push said.                  *)
ListAfter ==
    /\ pc = "after"
    /\ Goto(IF Complete THEN "localRef" ELSE "failed")
    /\ UNCHANGED <<refs, files, pushFailed, faults>>

UpdateLocalRef ==
    /\ pc = "localRef"
    /\ localRef' = TRUE
    /\ Goto("receipt")
    /\ UNCHANGED <<refs, intent, receipt, pushFailed, faults>>

(* The runner writes publication.json.                                     *)
RecordPublication ==
    /\ pc = "receipt"
    /\ receipt' = TRUE
    /\ Goto("off")
    /\ UNCHANGED <<refs, intent, localRef, pushFailed, faults>>

(* The error blocks the campaign; a resumed runner begins again.           *)
Block ==
    /\ pc = "failed"
    /\ Goto("off")
    /\ UNCHANGED <<refs, files, pushFailed, faults>>

---------------------------------------------------------------------------
(* Failures, and other users of the remote *)

(* A Git command fails, or the intent cannot be written.                   *)
CommandFails ==
    /\ pc \in {"commit", "intent", "before", "after", "localRef"}
    /\ Fault
    /\ Goto("failed")
    /\ UNCHANGED <<refs, files, pushFailed>>

Crash ==
    /\ pc # "off"
    /\ Fault
    /\ Goto("off")
    /\ UNCHANGED <<refs, files, pushFailed>>

(* The server applies a push after its client has given up.                *)
PushLands ==
    /\ inFlight
    /\ inFlight' = FALSE
    /\ Accepted
    /\ UNCHANGED <<files, pc, pushFailed, faults, foreign>>

(* Somebody else moves a ref, without force.  The commits built on the     *)
(* candidate exist once the candidate has been seen on the remote.         *)
ForeignPush ==
    /\ foreign < MaxForeign
    /\ foreign' = foreign + 1
    /\ \E commit \in {"parent", "sibling", "child"} :
          /\ commit = "child" => landed
          /\ \/ FastForward(experimentRef, commit) /\ MoveRefs(commit, championRef)
             \/ FastForward(championRef, commit) /\ MoveRefs(experimentRef, commit)
    /\ UNCHANGED <<inFlight, files, pc, pushFailed, faults>>

Publisher ==
    \/ Begin \/ CommitCandidate \/ PersistIntent \/ ListBefore \/ Push \/ ListAfter
    \/ UpdateLocalRef \/ RecordPublication \/ Block

Next == Publisher \/ CommandFails \/ Crash \/ PushLands \/ ForeignPush

Spec == Init /\ [][Next]_vars

(* The publisher goes on, and the operator resumes a campaign that blocked.*)
FairSpec == Spec /\ WF_vars(Publisher)

---------------------------------------------------------------------------
(* Properties *)

TypeOK ==
    /\ {experimentRef, championRef} \subseteq (Commits \ {"base"}) \cup {None}
    /\ {landed, inFlight, intent, localRef, receipt, pushFailed} \subseteq BOOLEAN
    /\ pc \in {"off", "commit", "intent", "before", "push", "after", "localRef",
               "receipt", "failed"}
    /\ faults \in 0..MaxFaults /\ foreign \in 0..MaxForeign

(* A publication is recorded only after both refs of the remote held the   *)
(* candidate at the same time, whatever was lost on the way: "re-read from *)
(* the remote; and only then installed".                                   *)
RecordedAfterLanding == localRef \/ receipt => landed

(* The experiment ref and the champion ref move together, or not at all.   *)
RefsMoveTogether == experimentRef \in {"candidate", "child"} => landed

(* The remote never sees a candidate whose intent is not on disk.          *)
IntentFirst == landed => intent

(* Unless somebody else pushes to its remote a publication completes,      *)
(* however often it was interrupted: "resume verifies the two remote refs  *)
(* and completes idempotently".                                            *)
Completes == <>(receipt \/ foreign > 0)

=============================================================================
