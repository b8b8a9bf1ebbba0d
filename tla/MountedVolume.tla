---------------------------- MODULE MountedVolume ----------------------------
(***************************************************************************)
(* The single-writer state store of the cloud control plane                *)
(* (src/cloud/mounted-volume-state.ts): a lock directory for the lifetime  *)
(* of a controller, a fence file with the epoch of its holder and the last *)
(* committed envelope, and the state file itself.  Every store of the      *)
(* cloud control plane is one such document; CoordinationPorts,            *)
(* ReleaseStores and OneUseLedger take its operations for single steps.    *)
(*                                                                         *)
(* An action is one rename or one read of the volume.  Each write may fail *)
(* before or after its effect, a controller can be destroyed anywhere, and *)
(* several controllers may be at work at once.  The volume's guard attests *)
(* atomic renames, as the code demands of it.                              *)
(***************************************************************************)
EXTENDS Naturals, Sequences

CONSTANTS
    None,
    Controllers,    \* controller sandboxes; each opens the store once
    MaxCommits,     \* bound: envelopes written
    MaxFaults       \* bound: failing calls and destroyed controllers

ASSUME VolumeAssumption ==
    /\ None \notin [owner : Controllers, epoch : Nat]
    /\ MaxCommits \in Nat /\ MaxFaults \in Nat

VARIABLES
    disk,        \* the files on the volume
    pc,          \* where each controller is
    mine,        \* its #ownedLock
    local,       \* the variables of the call it is in
    answered,    \* history: the state the last successful caller was told
    stale,       \* history: a fence was written over one it had not read
    faults

vars == <<disk, pc, mine, local, answered, stale, faults>>

(* A lock's metadata and its hash; its nonce is its owner's identity.      *)
Locks == [owner : Controllers, epoch : Nat]

(* An envelope is bound by its hashes to all that precede it, so it is the *)
(* sequence of their writers' locks: its generation is the length.         *)
Envelopes == Seq(Locks)
Fences == [epoch : Nat, lock : Locks \cup {None}, authorized : Nat, head : Envelopes]
NoFence == [epoch |-> 0, lock |-> None, authorized |-> 0, head |-> <<>>]

(* The prior lock that may be quarantined, recoveredEpoch, the fence read  *)
(* before the lock was taken, and the envelope a transaction starts from.  *)
NoLocals == [observed |-> None, recovered |-> 0, seen |-> NoFence, current |-> <<>>]

Greater(m, n) == IF m < n THEN n ELSE m

Init ==
    /\ disk = [lock |-> None, released |-> {}, quarantined |-> {},
               authorizations |-> {}, fence |-> NoFence, chain |-> <<>>]
    /\ pc = [c \in Controllers |-> "idle"]
    /\ mine = [c \in Controllers |-> None]
    /\ local = [c \in Controllers |-> NoLocals]
    /\ answered = <<>> /\ stale = FALSE
    /\ faults = 0

Set(f, c, v) == [f EXCEPT ![c] = v]
Goto(c, there) == pc' = Set(pc, c, there)
Leave(c, there) == Goto(c, there) /\ local' = Set(local, c, NoLocals)
Fault == faults < MaxFaults /\ faults' = faults + 1

---------------------------------------------------------------------------
(* acquireLock *)

Start(c) ==
    /\ pc[c] = "idle"
    /\ Goto(c, "acquire")
    /\ UNCHANGED <<disk, mine, local, answered, faults>>

(* The acquisition fails, and with it goes the epoch it has recovered.     *)
Abandon(c) == Leave(c, "idle") /\ UNCHANGED <<mine, answered>>

Destroyed(c) == pc[c] = "dead"

(* Fault: only a lock that the fence knows is recovered. *)
MayRecover_Fenced(lock) == Destroyed(lock.owner) /\ disk.fence.lock = lock

(* External: the recovery authority attests that the owner's sandbox is    *)
(* gone for good, and for no other.                                        *)
MayRecover(lock) == Destroyed(lock.owner)

ReadActiveLock(c) ==
    /\ pc[c] = "acquire"
    /\ \/ /\ disk.lock = None
          /\ Goto(c, "fence")
          /\ UNCHANGED <<mine, local, answered>>
       \/ /\ disk.lock # None /\ MayRecover(disk.lock)
          /\ Goto(c, "authorized")
          /\ local' = [local EXCEPT ![c].observed = disk.lock]
          /\ UNCHANGED <<mine, answered>>
       \/ /\ disk.lock # None /\ ~MayRecover(disk.lock)
          /\ Abandon(c)
    /\ UNCHANGED <<disk, faults>>

(* quarantinePriorLock: the lock is still the one observed, and the        *)
(* authorization is made durable.                                          *)
PersistAuthorization(c) ==
    /\ pc[c] = "authorized"
    /\ LET observed == local[c].observed
           written == [disk EXCEPT !.authorizations = @ \cup {observed}]
       IN  \/ /\ disk.lock = observed
              /\ disk' = written
              /\ Goto(c, "quarantine")
              /\ UNCHANGED <<mine, local, answered, faults>>
           \/ /\ disk.lock # observed
              /\ Abandon(c)
              /\ UNCHANGED <<disk, faults>>
           \/ /\ disk.lock = observed /\ Fault
              /\ disk' \in {disk, written}
              /\ Abandon(c)

(* Fault: the directory's name is fresh. *)
MayQuarantine_Anywhere(lock) == disk.lock # None

(* The rename fails when there is no lock, or when the directory that is   *)
(* named after the observed lock is there already.                         *)
MayQuarantine(lock) == disk.lock # None /\ lock \notin disk.quarantined

Quarantine(c) ==
    /\ pc[c] = "quarantine"
    /\ LET observed == local[c].observed
           moved == [disk EXCEPT !.lock = None, !.quarantined = @ \cup {observed}]
       IN  \/ /\ MayQuarantine(observed)
              /\ disk' = moved
              /\ Goto(c, "acquire")
              /\ local' = [local EXCEPT ![c].recovered = Greater(@, observed.epoch)]
              /\ UNCHANGED <<mine, answered, faults>>
           \/ /\ MayQuarantine(observed) /\ Fault
              /\ disk' \in {disk, moved}
              /\ Abandon(c)
           \/ /\ ~MayQuarantine(observed)
              /\ Abandon(c)
              /\ UNCHANGED <<disk, faults>>

(* The fence is read while nobody holds the lock.                          *)
ReadFence(c) ==
    /\ pc[c] = "fence"
    /\ local' = [local EXCEPT ![c].seen = disk.fence]
    /\ Goto(c, "rename")
    /\ UNCHANGED <<disk, mine, answered, faults>>

NextEpoch(c) == Greater(local[c].seen.epoch, local[c].recovered) + 1

(* The staged directory is renamed into place, which fails when a lock is  *)
(* there, and read back.  A failure after the rename leaves a lock whose   *)
(* owner does not know that it has it.                                     *)
PlaceLock(c) ==
    /\ pc[c] = "rename"
    /\ LET lock == [owner |-> c, epoch |-> NextEpoch(c)]
           placed == [disk EXCEPT !.lock = lock]
       IN  \/ /\ disk.lock = None
              /\ disk' = placed
              /\ mine' = Set(mine, c, lock)
              /\ Goto(c, "own")
              /\ UNCHANGED <<local, answered, faults>>
           \/ /\ disk.lock # None
              /\ Abandon(c)
              /\ UNCHANGED <<disk, faults>>
           \/ /\ disk.lock = None /\ Fault
              /\ disk' \in {disk, placed}
              /\ Abandon(c)

AuthorizedThrough(c) == Greater(local[c].seen.authorized, local[c].recovered)

NewFence(c) ==
    [epoch |-> mine[c].epoch, lock |-> mine[c],
     authorized |-> AuthorizedThrough(c), head |-> local[c].seen.head]

(* A write is done, or fails before or after its effect and ends the call. *)
Try(c, next, then) ==
    \/ disk' = next /\ Goto(c, then) /\ UNCHANGED <<local, faults>>
    \/ disk' \in {disk, next} /\ Leave(c, "held") /\ Fault

WriteFence(c) ==
    /\ pc[c] = "own"
    /\ Try(c, [disk EXCEPT !.fence = NewFence(c)], "begin")
    /\ stale' = (stale \/ local[c].seen # disk.fence)
    /\ UNCHANGED <<mine, answered>>

---------------------------------------------------------------------------
(* transact *)

(* assertOwnership *)
Owns(c) ==
    /\ mine[c] # None
    /\ disk.lock = mine[c]
    /\ disk.fence.epoch = mine[c].epoch
    /\ disk.fence.lock = mine[c]

Begin(c) ==
    /\ pc[c] = "held"
    /\ Goto(c, "begin")
    /\ UNCHANGED <<disk, mine, local, answered, faults>>

Linked(head, envelope) ==
    /\ Len(envelope) = Len(head) + 1
    /\ SubSeq(envelope, 1, Len(head)) = head

Last(s) == s[Len(s)]

(* Fault: off by one. *)
AuthorizedWriter_Before(c, envelope) ==
    \/ Last(envelope).epoch = mine[c].epoch
    \/ Last(envelope).epoch < disk.fence.authorized

AuthorizedWriter(c, envelope) ==
    \/ Last(envelope).epoch = mine[c].epoch
    \/ Last(envelope).epoch <= disk.fence.authorized

(* An envelope one ahead of the fence's head, of the current epoch or of   *)
(* one whose owner was attested to be destroyed, may become the head.      *)
Adopts(c, envelope) ==
    /\ Linked(disk.fence.head, envelope)
    /\ AuthorizedWriter(c, envelope)

(* No writer is ahead of the owner. *)
Fits(c, envelope) == envelope # <<>> => Last(envelope).epoch <= mine[c].epoch

(* reconcileStateHead, before the callback with the envelope on disk and   *)
(* after the write with the one written.                                   *)
Reconcile(c) ==
    /\ pc[c] \in {"begin", "advance"}
    /\ LET first == pc[c] = "begin"
           envelope == IF first THEN disk.chain ELSE local[c].current
           then == IF first THEN "write" ELSE "answer"
       IN  \/ /\ Owns(c) /\ Fits(c, envelope) /\ envelope = disk.fence.head
              /\ Goto(c, then)
              /\ UNCHANGED <<disk, local, faults>>
           \/ /\ Owns(c) /\ Fits(c, envelope)
              /\ envelope # disk.fence.head /\ Adopts(c, envelope)
              /\ Try(c, [disk EXCEPT !.fence.head = envelope], then)
           \/ /\ \/ ~Owns(c) \/ ~Fits(c, envelope)
                 \/ envelope # disk.fence.head /\ ~Adopts(c, envelope)
              /\ Leave(c, "held")
              /\ UNCHANGED <<disk, faults>>
    /\ UNCHANGED <<mine, answered>>

(* The callback is given the state read, and changes it, leaves it as it   *)
(* is, or throws.                                                          *)
Operate(c) ==
    /\ pc[c] = "write"
    /\ \/ /\ Owns(c) /\ Len(disk.chain) < MaxCommits
          /\ Goto(c, "replace")
          /\ local' = [local EXCEPT ![c].current = Append(disk.chain, mine[c])]
          /\ UNCHANGED answered
       \/ /\ Owns(c) /\ disk.chain # <<>>
          /\ Leave(c, "held")
          /\ answered' = disk.chain
       \/ Leave(c, "held") /\ UNCHANGED answered
    /\ UNCHANGED <<disk, mine, faults>>

ReplaceState(c) ==
    /\ pc[c] = "replace"
    /\ Try(c, [disk EXCEPT !.chain = local[c].current], "advance")
    /\ UNCHANGED <<mine, answered>>

(* The state is read back exactly, and the caller has its answer.          *)
Answer(c) ==
    /\ pc[c] = "answer"
    /\ disk.chain = local[c].current
    /\ Leave(c, "held")
    /\ answered' = local[c].current
    /\ UNCHANGED <<disk, mine, faults>>

---------------------------------------------------------------------------
(* close, and the end of a controller *)

(* The lock becomes a released one; when that fails, or the ownership was  *)
(* lost, close rejects and no call is taken any more.                      *)
Close(c) ==
    /\ pc[c] \in {"idle", "held"}
    /\ LET released == [disk EXCEPT !.lock = None, !.released = @ \cup {mine[c]}]
       IN  \/ /\ mine[c] = None
              /\ Goto(c, "closed")
              /\ UNCHANGED <<disk, mine, faults>>
           \/ /\ Owns(c)
              /\ disk' = released
              /\ mine' = Set(mine, c, None)
              /\ Goto(c, "closed")
              /\ UNCHANGED faults
           \/ /\ Owns(c) /\ Fault
              /\ disk' \in {disk, released}
              /\ Goto(c, "closed")
              /\ UNCHANGED mine
           \/ /\ mine[c] # None /\ ~Owns(c)
              /\ Goto(c, "closed")
              /\ UNCHANGED <<disk, mine, faults>>
    /\ UNCHANGED <<local, answered>>

(* The sandbox is destroyed at work, or when it has ended.                 *)
Vanish(c) ==
    /\ Leave(c, "dead")
    /\ mine' = Set(mine, c, None)
    /\ UNCHANGED <<disk, answered>>
Crash(c) == pc[c] \notin {"closed", "dead"} /\ Fault /\ Vanish(c)
Destroy(c) == pc[c] = "closed" /\ Vanish(c) /\ UNCHANGED faults

Step(c) ==
    \/ WriteFence(c)
    \/ /\ \/ Start(c) \/ ReadActiveLock(c) \/ PersistAuthorization(c) \/ Quarantine(c)
          \/ ReadFence(c) \/ PlaceLock(c)
          \/ Begin(c) \/ Reconcile(c) \/ Operate(c) \/ ReplaceState(c) \/ Answer(c)
          \/ Close(c) \/ Destroy(c)
       /\ UNCHANGED stale

Next == \E c \in Controllers : Step(c) \/ (Crash(c) /\ UNCHANGED stale)

Spec == Init /\ [][Next]_vars

(* A controller that is not destroyed goes on: its awaits return, and one  *)
(* that has ended is destroyed.                                            *)
FairSpec == Spec /\ \A c \in Controllers : WF_vars(Step(c))

---------------------------------------------------------------------------
(* Properties *)

Disks == [lock : Locks \cup {None}, released : SUBSET Locks, quarantined : SUBSET Locks,
          authorizations : SUBSET Locks, fence : Fences, chain : Envelopes]
Locals == [observed : Locks \cup {None}, recovered : Nat, seen : Fences, current : Envelopes]
Places == {"idle", "acquire", "authorized", "quarantine", "fence", "rename", "own", "begin",
           "write", "replace", "advance", "answer", "held", "closed", "dead"}

TypeOK ==
    /\ disk \in Disks
    /\ pc \in [Controllers -> Places]
    /\ mine \in [Controllers -> Locks \cup {None}]
    /\ local \in [Controllers -> Locals]
    /\ answered \in Envelopes /\ stale \in BOOLEAN
    /\ faults \in 0..MaxFaults

Pending == disk.chain # disk.fence.head

(* The recovery of a lock was attested and lost: its recoverer failed, or  *)
(* was overtaken, before its own fence had it.                             *)
Unrecorded == \E l \in disk.quarantined : l.epoch > disk.fence.authorized

(* A writer closed cleanly after the advance of the head had failed.       *)
HandedOver == Pending /\ Last(disk.chain) \in disk.released

(* Whoever owns the lock can go on from the state on disk: it is the       *)
(* fence's head or one linked envelope that it may adopt.  Excepted are    *)
(* the two cases above and a fence written over one that was not read.     *)
HeadWithinReach ==
    \A c \in Controllers :
        (Owns(c) /\ ~stale /\ ~Unrecorded /\ ~HandedOver)
            => Fits(c, disk.chain) /\ (~Pending \/ Adopts(c, disk.chain))

(* The document is replaced by one transaction after the other, and an     *)
(* answered one stays, whoever comes and goes.                             *)
Store == INSTANCE AtomicStore WITH Writers <- Locks, chain <- disk.chain
KeepsPromise == Store!Spec

(* "The independent fence record also retains the last committed           *)
(* generation and envelope hash" (documentation.md:2465).                  *)
FenceRetainsCommitted == Store!PrefixOf(answered, disk.fence.head)

(* The lock of a controller that is destroyed does not outlive another     *)
(* that goes on needing the store.                                         *)
Reclaimed ==
    \A c \in Controllers :
        (disk.lock # None /\ disk.lock.owner = c /\ Destroyed(c))
            ~> \/ disk.lock = None \/ disk.lock.owner # c
               \/ \A d \in Controllers : pc[d] \in {"closed", "dead"}
=============================================================================
