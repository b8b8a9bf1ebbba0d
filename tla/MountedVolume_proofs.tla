------------------------- MODULE MountedVolume_proofs -------------------------
(***************************************************************************)
(* For any set of controllers and any number of transactions and faults, a *)
(* mounted-volume store is the sequence of transactions that AtomicStore   *)
(* promises, although two acquisitions may be given the same fence.  The   *)
(* argument rests on the lock directory alone: a lock is only moved away   *)
(* by its owner or once its owner is destroyed, since the directory it is  *)
(* quarantined to is named after the lock that was observed.  Whoever owns *)
(* the lock can also go on from the state it finds: only its fence is      *)
(* written meanwhile, so the state is never more than one envelope ahead   *)
(* of the head.                                                            *)
(***************************************************************************)
EXTENDS MountedVolume, TLAPS

(* The places between the read of a transaction and its answer.            *)
Working == {"write", "replace", "advance", "answer"}

(* Where a controller relies on more than its own lock's name.             *)
Busy == Working \cup {"authorized", "quarantine", "own"}

(* A lock that a controller knows to be its own names it.                  *)
OwnLock ==
    \A c \in Controllers :
        /\ mine[c] # None => mine[c].owner = c
        /\ pc[c] = "own" => mine[c] # None

(* During a transaction the lock on disk is the writer's,                  *)
Holding == \A c \in Controllers : pc[c] \in Working => disk.lock # None /\ disk.lock = mine[c]

(* and what it is about to write follows the state on disk.                *)
Following ==
    \A c \in Controllers :
        pc[c] = "replace" => local[c].current = Append(disk.chain, mine[c])

(* A lock whose recovery is authorized has lost its owner for good, and it *)
(* is still in place unless it has been quarantined already.               *)
Authorized ==
    \A c \in Controllers :
        /\ pc[c] \in {"authorized", "quarantine"} =>
              /\ local[c].observed # None
              /\ Destroyed(local[c].observed.owner)
        /\ pc[c] = "quarantine" =>
              \/ disk.lock = local[c].observed
              \/ local[c].observed \in disk.quarantined

Inductive == TypeOK /\ OwnLock /\ Holding /\ Following /\ Authorized

USE VolumeAssumption

(* No lock is mistaken for the absence of one.                              *)
LEMMA NoneIsNoLock == None \notin Locks
  BY DEF Locks

(* The first fence and the empty memory are typed.                          *)
LEMMA DefaultsTyped == NoFence \in Fences /\ NoLocals \in Locals
<1>1. <<>> \in Envelopes
  BY DEF Envelopes
<1>2. NoFence \in Fences
  BY <1>1 DEF NoFence, Fences
<1> QED
  BY <1>1, <1>2 DEF NoLocals, Locals

(* The initial state has no lock and no state.                             *)
LEMMA InitInductive == Init => Inductive
<1> SUFFICES ASSUME Init PROVE Inductive
  OBVIOUS
<1>1. TypeOK
  <2>1. <<>> \in Envelopes
    BY DEF Envelopes
  <2>2. disk \in Disks
    BY <2>1, DefaultsTyped DEF Init, Disks
  <2>3. pc \in [Controllers -> Places] /\ mine \in [Controllers -> Locks \cup {None}]
    BY DEF Init, Places
  <2>4. local \in [Controllers -> Locals]
    BY DefaultsTyped DEF Init
  <2>5. answered \in Envelopes /\ stale \in BOOLEAN
    BY <2>1 DEF Init
  <2>6. faults \in 0..MaxFaults
    BY DEF Init, VolumeAssumption
  <2> QED
    BY <2>2, <2>3, <2>4, <2>5, <2>6 DEF TypeOK
<1>2. OwnLock /\ Holding /\ Following /\ Authorized
  BY DEF Init, OwnLock, Holding, Following, Authorized, Working
<1> QED
  BY <1>1, <1>2 DEF Inductive

---------------------------------------------------------------------------
(* Types, one lemma for each action that does more than move on.           *)

(* A move to a place is typed.                                              *)
LEMMA GotoTyped ==
    ASSUME TypeOK, NEW c \in Controllers, NEW there \in Places, Goto(c, there)
    PROVE  pc' \in [Controllers -> Places]
  BY DEF TypeOK, Goto, Set

(* A move that forgets what was read is typed.                              *)
LEMMA LeaveTyped ==
    ASSUME TypeOK, NEW c \in Controllers, NEW there \in Places, Leave(c, there)
    PROVE  pc' \in [Controllers -> Places] /\ local' \in [Controllers -> Locals]
  BY DefaultsTyped DEF TypeOK, Leave, Goto, Set

(* The faults are bounded.                                                  *)
LEMMA FaultTyped ==
    ASSUME TypeOK, Fault PROVE faults' \in 0..MaxFaults
  BY DEF TypeOK, Fault

(* A failed operation leaves typed variables.                               *)
LEMMA AbandonTyped ==
    ASSUME TypeOK, NEW c \in Controllers, Abandon(c)
    PROVE  /\ pc' \in [Controllers -> Places] /\ local' \in [Controllers -> Locals]
           /\ mine' \in [Controllers -> Locks \cup {None}] /\ answered' \in Envelopes
<1>1. "idle" \in Places
  BY DEF Places
<1> QED
  BY <1>1, LeaveTyped DEF Abandon, TypeOK

(* A write that may fail before or after its effect is typed.               *)
LEMMA TryTyped ==
    ASSUME TypeOK, NEW c \in Controllers, NEW next \in Disks, NEW then \in Places,
           Try(c, next, then)
    PROVE  /\ disk' \in Disks /\ pc' \in [Controllers -> Places]
           /\ local' \in [Controllers -> Locals] /\ faults' \in 0..MaxFaults
<1>1. "held" \in Places
  BY DEF Places
<1>2. CASE disk' = next /\ Goto(c, then) /\ UNCHANGED <<local, faults>>
  BY <1>2, GotoTyped DEF TypeOK
<1>3. CASE disk' \in {disk, next} /\ Leave(c, "held") /\ Fault
  BY <1>1, <1>3, LeaveTyped, FaultTyped DEF TypeOK
<1> QED
  BY <1>2, <1>3 DEF Try

---------------------------------------------------------------------------
(* What each controller may rely on, seen from one of them.                *)
Relies(d) ==
    /\ mine[d] # None => mine[d].owner = d
    /\ pc[d] = "own" => mine[d] # None
    /\ pc[d] \in Working => disk.lock # None /\ disk.lock = mine[d]
    /\ pc[d] = "replace" => local[d].current = Append(disk.chain, mine[d])
    /\ pc[d] \in {"authorized", "quarantine"} =>
          /\ local[d].observed # None
          /\ Destroyed(local[d].observed.owner)
    /\ pc[d] = "quarantine" =>
          \/ disk.lock = local[d].observed
          \/ local[d].observed \in disk.quarantined

(* The invariant says the same of each controller.                          *)
LEMMA InductiveByController == Inductive <=> (TypeOK /\ \A d \in Controllers : Relies(d))
  BY DEF Inductive, OwnLock, Holding, Following, Authorized, Relies

(* The same, after a step.                                                  *)
LEMMA InductiveByController2 == Inductive' <=> (TypeOK' /\ \A d \in Controllers : Relies(d)')
  BY InductiveByController DEF Inductive, OwnLock, Holding, Following, Authorized, Relies

(* A step of c leaves the other controllers' variables alone, and no       *)
(* destroyed controller takes one.                                         *)
StepOf(c) ==
    /\ pc[c] # "dead"
    /\ \A d \in Controllers \ {c} :
          pc'[d] = pc[d] /\ mine'[d] = mine[d] /\ local'[d] = local[d]

(* It disturbs nobody if it leaves lock and state, and quarantines none.   *)
LEMMA QuietStep ==
    ASSUME Inductive, TypeOK', NEW c \in Controllers, StepOf(c), Relies(c)',
           disk'.lock = disk.lock, disk'.chain = disk.chain,
           disk'.quarantined = disk.quarantined
    PROVE  Inductive'
<1> SUFFICES ASSUME NEW d \in Controllers, d # c PROVE Relies(d)'
  BY InductiveByController2
<1>1. Relies(d)
  BY InductiveByController
<1>2. pc'[d] = pc[d] /\ mine'[d] = mine[d] /\ local'[d] = local[d]
  BY DEF StepOf
<1>3. ASSUME NEW e, Destroyed(e), pc[d] \in {"authorized", "quarantine"},
             e = local[d].observed.owner
      PROVE  Destroyed(e)'
  <2>1. local[d].observed \in Locks
    BY <1>1, <1>3 DEF Relies, Inductive, TypeOK, Locals
  <2>2. e \in Controllers
    BY <1>3, <2>1 DEF Locks
  <2> QED
    BY <1>3, <2>2 DEF StepOf, Destroyed
<1> QED
  BY <1>1, <1>2, <1>3 DEF Relies

(* Where a controller is neither at work on a transaction nor on a         *)
(* recovery it relies on nothing but its own lock's name.                  *)
LEMMA AtRest ==
    ASSUME NEW d \in Controllers, pc[d] \notin Busy,
           mine[d] # None => mine[d].owner = d
    PROVE  Relies(d)
  BY DEF Relies, Busy, Working

(* A controller that is at rest relies on nothing but its own lock.         *)
LEMMA AtRestNext ==
    ASSUME NEW d \in Controllers, pc'[d] \notin Busy,
           mine'[d] # None => mine'[d].owner = d
    PROVE  Relies(d)'
  BY DEF Relies, Busy, Working

(* What is known of the controller that takes a step.                       *)
LEMMA Known == ASSUME Inductive, NEW c \in Controllers
               PROVE  Relies(c) /\ TypeOK /\ (mine[c] # None => mine[c].owner = c)
  BY InductiveByController DEF Relies

(* A move is a step of one controller.                                      *)
LEMMA GotoSteps ==
    ASSUME Inductive, NEW c \in Controllers, NEW there, Goto(c, there), pc[c] # "dead",
           \A d \in Controllers \ {c} : mine'[d] = mine[d] /\ local'[d] = local[d]
    PROVE  StepOf(c) /\ pc'[c] = there
  BY Known DEF StepOf, Goto, Set, TypeOK

(* A move that forgets what was read is a step of one controller.           *)
LEMMA LeaveSteps ==
    ASSUME Inductive, NEW c \in Controllers, NEW there, Leave(c, there), pc[c] # "dead",
           \A d \in Controllers \ {c} : mine'[d] = mine[d]
    PROVE  StepOf(c) /\ pc'[c] = there
  BY Known DEF StepOf, Leave, Goto, Set, TypeOK

---------------------------------------------------------------------------
(* The actions that only move on                                           *)

(* A store is opened.                                                       *)
LEMMA StartKeeps ==
    ASSUME Inductive, NEW c \in Controllers, Start(c), UNCHANGED stale PROVE Inductive'
<1>1. pc' \in [Controllers -> Places]
  BY Known, GotoTyped DEF Start, Places
<1>2. TypeOK'
  BY <1>1, Known DEF Start, TypeOK
<1>3. StepOf(c) /\ pc'[c] = "acquire"
  BY GotoSteps DEF Start
<1>4. Relies(c)'
  BY <1>3, AtRestNext, Known DEF Start, Busy, Working
<1> QED
  BY <1>2, <1>3, <1>4, QuietStep DEF Start

(* An operation begins.                                                     *)
LEMMA BeginKeeps ==
    ASSUME Inductive, NEW c \in Controllers, Begin(c), UNCHANGED stale PROVE Inductive'
<1>1. pc' \in [Controllers -> Places]
  BY Known, GotoTyped DEF Begin, Places
<1>2. TypeOK'
  BY <1>1, Known DEF Begin, TypeOK
<1>3. StepOf(c) /\ pc'[c] = "begin"
  BY GotoSteps DEF Begin
<1>4. Relies(c)'
  BY <1>3, AtRestNext, Known DEF Begin, Busy, Working
<1> QED
  BY <1>2, <1>3, <1>4, QuietStep DEF Begin

(* A failed acquisition, with whatever it leaves on the volume but the     *)
(* lock.                                                                   *)
LEMMA AbandonKeeps ==
    ASSUME Inductive, NEW c \in Controllers, Abandon(c), pc[c] # "dead", UNCHANGED stale,
           disk' \in Disks, faults' \in 0..MaxFaults,
           disk'.lock = disk.lock, disk'.chain = disk.chain,
           disk'.quarantined = disk.quarantined
    PROVE  Inductive'
<1>1. TypeOK'
  BY Known, AbandonTyped DEF TypeOK
<1>2. StepOf(c) /\ pc'[c] = "idle"
  BY LeaveSteps DEF Abandon
<1>3. Relies(c)'
  BY <1>2, AtRestNext, Known DEF Abandon, Busy, Working
<1> QED
  BY <1>1, <1>2, <1>3, QuietStep

(* The lock of a predecessor is read.                                       *)
LEMMA ReadActiveLockKeeps ==
    ASSUME Inductive, NEW c \in Controllers, ReadActiveLock(c), UNCHANGED stale
    PROVE  Inductive'
<1>0. TypeOK /\ disk' = disk /\ faults' = faults /\ pc[c] = "acquire"
  BY Known DEF ReadActiveLock
<1>1. CASE disk.lock = None /\ Goto(c, "fence") /\ UNCHANGED <<mine, local, answered>>
  <2>1. TypeOK'
    BY <1>0, <1>1, GotoTyped DEF TypeOK, Places
  <2>2. StepOf(c) /\ pc'[c] = "fence"
    BY <1>0, <1>1, GotoSteps
  <2>3. Relies(c)'
    BY <1>1, <2>2, AtRestNext, Known DEF Busy, Busy, Working
  <2> QED
    BY <1>0, <2>1, <2>2, <2>3, QuietStep
<1>2. CASE /\ disk.lock # None /\ MayRecover(disk.lock)
           /\ Goto(c, "authorized")
           /\ local' = [local EXCEPT ![c].observed = disk.lock]
           /\ UNCHANGED <<mine, answered>>
  <2>1. local' \in [Controllers -> Locals]
    BY <1>0, <1>2 DEF TypeOK, Locals, Disks
  <2>2. TypeOK'
    BY <1>0, <1>2, <2>1, GotoTyped DEF TypeOK, Places
  <2>3. StepOf(c) /\ pc'[c] = "authorized"
    BY <1>0, <1>2, GotoSteps DEF TypeOK
  <2>4. local'[c].observed = disk.lock
    BY <1>0, <1>2 DEF TypeOK, Locals
  <2>5. disk.lock.owner \in Controllers /\ disk.lock.owner # c
    BY <1>0, <1>2 DEF TypeOK, Disks, Locks, MayRecover, Destroyed
  <2>6. Destroyed(disk.lock.owner)'
    <3> DEFINE o == disk.lock.owner
    <3>1. pc[o] = "dead" /\ o \in Controllers \ {c}
      BY <1>2, <2>5 DEF MayRecover, Destroyed
    <3>2. pc'[o] = "dead"
      BY <2>3, <3>1 DEF StepOf
    <3>3. disk'.lock.owner = o
      BY <1>0
    <3> QED
      BY <3>2, <3>3 DEF Destroyed
  <2>7. Relies(c)'
    BY <1>0, <1>2, <2>3, <2>4, <2>6, Known DEF Relies, Working, Destroyed
  <2> QED
    BY <1>0, <2>2, <2>3, <2>7, QuietStep
<1>3. CASE disk.lock # None /\ ~MayRecover(disk.lock) /\ Abandon(c)
  BY <1>0, <1>3, AbandonKeeps DEF TypeOK
<1> QED
  BY <1>1, <1>2, <1>3 DEF ReadActiveLock

(* What the files hold.                                                     *)
LEMMA DiskTyped ==
    ASSUME NEW e \in Disks
    PROVE  /\ e.lock \in Locks \cup {None} /\ e.released \subseteq Locks
           /\ e.quarantined \subseteq Locks /\ e.authorizations \subseteq Locks
           /\ e.fence \in Fences /\ e.chain \in Envelopes
  BY DEF Disks

(* The authorization to recover is written before the quarantine.           *)
LEMMA PersistAuthorizationKeeps ==
    ASSUME Inductive, NEW c \in Controllers, PersistAuthorization(c), UNCHANGED stale
    PROVE  Inductive'
<1> DEFINE observed == local[c].observed
           written == [disk EXCEPT !.authorizations = @ \cup {observed}]
<1>0. /\ TypeOK /\ Relies(c) /\ pc[c] = "authorized"
      /\ observed \in Locks /\ observed # None /\ Destroyed(observed.owner)
  BY Known DEF PersistAuthorization, Relies, TypeOK, Locals
<1>1. /\ written \in Disks
      /\ written.lock = disk.lock /\ written.chain = disk.chain
      /\ written.quarantined = disk.quarantined
  BY <1>0 DEF TypeOK, Disks
<1>2. CASE /\ disk.lock = observed /\ disk' = written /\ Goto(c, "quarantine")
           /\ UNCHANGED <<mine, local, answered, faults>>
  <2>1. TypeOK'
    BY <1>0, <1>1, <1>2, GotoTyped DEF TypeOK, Places
  <2>2. StepOf(c) /\ pc'[c] = "quarantine"
    BY <1>0, <1>2, GotoSteps
  <2>3. Destroyed(observed.owner)'
    <3>1. observed.owner \in Controllers \ {c}
      BY <1>0 DEF Locks, Destroyed
    <3> QED
      BY <1>0, <1>2, <2>2, <3>1 DEF Destroyed, StepOf
  <2>4. Relies(c)'
    BY <1>0, <1>1, <1>2, <2>2, <2>3 DEF Relies, Working
  <2> QED
    BY <1>1, <1>2, <2>1, <2>2, <2>4, QuietStep
<1>3. CASE disk.lock # observed /\ Abandon(c) /\ UNCHANGED <<disk, faults>>
  BY <1>0, <1>3, AbandonKeeps DEF TypeOK
<1>4. CASE /\ disk.lock = observed /\ Fault
           /\ disk' \in {disk, written} /\ Abandon(c)
  <2>1. faults' \in 0..MaxFaults
    BY <1>0, <1>4, FaultTyped
  <2> QED
    BY <1>0, <1>1, <1>4, <2>1, AbandonKeeps DEF TypeOK
<1> QED
  BY <1>2, <1>3, <1>4 DEF PersistAuthorization

(* The fence is read before the lock is taken, and may be old by then.      *)
LEMMA ReadFenceKeeps ==
    ASSUME Inductive, NEW c \in Controllers, ReadFence(c), UNCHANGED stale
    PROVE  Inductive'
<1>0. TypeOK /\ pc[c] = "fence" /\ disk.fence \in Fences
  BY Known, DiskTyped DEF ReadFence, TypeOK
<1>1. local' \in [Controllers -> Locals]
  BY <1>0 DEF ReadFence, TypeOK, Locals
<1>2. TypeOK'
  BY <1>0, <1>1, GotoTyped DEF ReadFence, TypeOK, Places
<1>3. StepOf(c) /\ pc'[c] = "rename"
  BY <1>0, GotoSteps DEF ReadFence, TypeOK
<1>4. Relies(c)'
  BY <1>3, AtRestNext, Known DEF ReadFence, Busy, Working
<1> QED
  BY <1>2, <1>3, <1>4, QuietStep DEF ReadFence

(* Failing, a step of a holder leaves it at rest.                          *)
LEMMA LeaveKeeps ==
    ASSUME Inductive, NEW c \in Controllers, NEW there \in Places,
           there \notin Busy,
           Leave(c, there), pc[c] # "dead",
           mine' \in [Controllers -> Locks \cup {None}],
           \A d \in Controllers \ {c} : mine'[d] = mine[d],
           mine'[c] \in {None, mine[c]},
           disk' \in Disks, faults' \in 0..MaxFaults, answered' \in Envelopes,
           stale' \in BOOLEAN,
           disk'.lock = disk.lock, disk'.chain = disk.chain,
           disk'.quarantined = disk.quarantined
    PROVE  Inductive'
<1>0. TypeOK /\ (mine[c] # None => mine[c].owner = c)
  BY Known
<1>1. pc' \in [Controllers -> Places] /\ local' \in [Controllers -> Locals]
  BY <1>0, LeaveTyped
<1>2. TypeOK'
  BY <1>1 DEF TypeOK
<1>3. StepOf(c) /\ pc'[c] = there
  BY LeaveSteps
<1>4. Relies(c)'
  BY <1>0, <1>3, AtRestNext
<1> QED
  BY <1>2, <1>3, <1>4, QuietStep

(* A controller loses what it has read, not its lock.                       *)
LEMMA CrashKeeps ==
    ASSUME Inductive, NEW c \in Controllers, Crash(c), UNCHANGED stale
    PROVE  Inductive'
<1>1. TypeOK /\ Vanish(c) /\ pc[c] # "dead" /\ faults' \in 0..MaxFaults
  BY Known, FaultTyped DEF Crash
<1>2. /\ mine' \in [Controllers -> Locks \cup {None}]
      /\ mine'[c] = None /\ \A d \in Controllers \ {c} : mine'[d] = mine[d]
  BY <1>1 DEF Vanish, Set, TypeOK
<1>3. "dead" \in Places /\ "dead" \notin Busy
  BY DEF Places, Busy, Working
<1> QED
  BY <1>1, <1>2, <1>3, LeaveKeeps DEF Vanish, TypeOK

(* A destroyed controller never acts again, though its lock stays.          *)
LEMMA DestroyKeeps ==
    ASSUME Inductive, NEW c \in Controllers, Destroy(c), UNCHANGED stale
    PROVE  Inductive'
<1>1. TypeOK /\ Vanish(c) /\ pc[c] # "dead" /\ faults' \in 0..MaxFaults
  BY Known DEF Destroy, TypeOK
<1>2. /\ mine' \in [Controllers -> Locks \cup {None}]
      /\ mine'[c] = None /\ \A d \in Controllers \ {c} : mine'[d] = mine[d]
  BY <1>1 DEF Vanish, Set, TypeOK
<1>3. "dead" \in Places /\ "dead" \notin Busy
  BY DEF Places, Busy, Working
<1> QED
  BY <1>1, <1>2, <1>3, LeaveKeeps DEF Vanish, TypeOK

---------------------------------------------------------------------------
(* The holder's steps                                                      *)

(* A write that touches neither lock nor state may fail as it likes.        *)
LEMMA TryKeeps ==
    ASSUME Inductive, NEW c \in Controllers, NEW next \in Disks, NEW then,
           Leave(c, "held"), disk' \in {disk, next}, Fault,
           pc[c] # "dead", UNCHANGED <<mine, answered>>, stale' \in BOOLEAN,
           next.lock = disk.lock, next.chain = disk.chain,
           next.quarantined = disk.quarantined
    PROVE  Inductive'
<1>1. "held" \in Places /\ "held" \notin Busy
  BY DEF Places, Busy, Working
<1>2. TypeOK /\ faults' \in 0..MaxFaults
  BY Known, FaultTyped
<1> QED
  BY <1>1, <1>2, LeaveKeeps DEF TypeOK

(* Even a fence made from an old reading breaks no promise.                 *)
LEMMA WriteFenceKeeps ==
    ASSUME Inductive, NEW c \in Controllers, WriteFence(c) PROVE Inductive'
<1> DEFINE next == [disk EXCEPT !.fence = NewFence(c)]
<1>0. /\ TypeOK /\ pc[c] = "own" /\ mine' = mine /\ answered' = answered
      /\ stale' \in BOOLEAN /\ Try(c, next, "begin")
  BY Known DEF WriteFence, TypeOK
<1>1. NewFence(c) \in Fences
  <2>1. mine[c] \in Locks /\ mine[c].epoch \in Nat
    BY <1>0, Known DEF TypeOK, Locks, Relies
  <2>2. /\ local[c].seen.authorized \in Nat /\ local[c].recovered \in Nat
        /\ local[c].seen.head \in Envelopes
    BY <1>0 DEF TypeOK, Locals, Fences
  <2>3. AuthorizedThrough(c) \in Nat
    BY <2>2 DEF AuthorizedThrough, Greater
  <2> QED
    BY <2>1, <2>2, <2>3 DEF NewFence, Fences
<1>2. /\ next \in Disks
      /\ next.lock = disk.lock /\ next.chain = disk.chain
      /\ next.quarantined = disk.quarantined
  BY <1>0, <1>1 DEF TypeOK, Disks
<1>3. CASE disk' = next /\ Goto(c, "begin") /\ UNCHANGED <<local, faults>>
  <2>1. TypeOK'
    BY <1>0, <1>2, <1>3, GotoTyped DEF TypeOK, Places
  <2>2. StepOf(c) /\ pc'[c] = "begin"
    BY <1>0, <1>3, GotoSteps
  <2>3. Relies(c)'
    BY <1>0, <2>2, AtRestNext, Known DEF Busy, Busy, Working
  <2> QED
    BY <1>2, <1>3, <2>1, <2>2, <2>3, QuietStep
<1>4. CASE disk' \in {disk, next} /\ Leave(c, "held") /\ Fault
  BY <1>0, <1>2, <1>4, TryKeeps
<1> QED
  BY <1>0, <1>3, <1>4 DEF Try

(* An owner reconciles the fence with the state.                            *)
LEMMA ReconcileKeeps ==
    ASSUME Inductive, NEW c \in Controllers, Reconcile(c), UNCHANGED stale PROVE Inductive'
<1> DEFINE first == pc[c] = "begin"
           envelope == IF first THEN disk.chain ELSE local[c].current
           then == IF first THEN "write" ELSE "answer"
           next == [disk EXCEPT !.fence.head = envelope]
<1>0. /\ TypeOK /\ pc[c] \in {"begin", "advance"} /\ mine' = mine /\ answered' = answered
      /\ stale' \in BOOLEAN
  BY Known DEF Reconcile, TypeOK
<1>1. envelope \in Envelopes
  BY <1>0, DiskTyped DEF TypeOK, Locals
<1>2. [disk.fence EXCEPT !.head = envelope] \in Fences
  BY <1>0, <1>1, DiskTyped DEF TypeOK, Fences
<1>3. /\ next \in Disks
      /\ next.lock = disk.lock /\ next.chain = disk.chain
      /\ next.quarantined = disk.quarantined
  BY <1>0, <1>2 DEF TypeOK, Disks
<1>4. then \in {"write", "answer"}
  OBVIOUS
<1>5. ASSUME Owns(c), Goto(c, then), UNCHANGED <<local, faults>>, disk' \in {disk, next}
      PROVE  Inductive'
  <2>1. TypeOK'
    BY <1>0, <1>3, <1>4, <1>5, GotoTyped DEF TypeOK, Places
  <2>2. StepOf(c) /\ pc'[c] = then
    BY <1>0, <1>5, GotoSteps
  <2>3. disk'.lock = mine[c] /\ mine[c] # None
    BY <1>3, <1>5 DEF Owns
  <2>4. Relies(c)'
    BY <1>0, <1>4, <2>2, <2>3, Known DEF Relies, Working
  <2> QED
    BY <1>3, <1>5, <2>1, <2>2, <2>4, QuietStep
<1>6. CASE Owns(c) /\ envelope = disk.fence.head /\ Goto(c, then)
           /\ UNCHANGED <<disk, local, faults>>
  BY <1>5, <1>6
<1>7. CASE Owns(c) /\ Try(c, next, then)
  <2>1. CASE disk' = next /\ Goto(c, then) /\ UNCHANGED <<local, faults>>
    BY <1>5, <1>7, <2>1
  <2>2. CASE disk' \in {disk, next} /\ Leave(c, "held") /\ Fault
    BY <1>0, <1>3, <2>2, TryKeeps
  <2> QED
    BY <1>7, <2>1, <2>2 DEF Try
<1>8. CASE Leave(c, "held") /\ UNCHANGED <<disk, faults>>
  <2>1. "held" \in Places /\ "held" \notin Busy
    BY DEF Places, Busy, Working
  <2> QED
    BY <1>0, <1>8, <2>1, LeaveKeeps DEF TypeOK
<1> QED
  BY <1>6, <1>7, <1>8 DEF Reconcile

(* An owner reads the state that it will replace.                           *)
LEMMA OperateKeeps ==
    ASSUME Inductive, NEW c \in Controllers, Operate(c), UNCHANGED stale PROVE Inductive'
<1>0. /\ TypeOK /\ pc[c] = "write" /\ disk' = disk /\ mine' = mine /\ faults' = faults
      /\ disk.chain \in Envelopes
  BY Known, DiskTyped DEF Operate, TypeOK
<1>1. CASE /\ Owns(c) /\ Goto(c, "replace")
           /\ local' = [local EXCEPT ![c].current = Append(disk.chain, mine[c])]
           /\ UNCHANGED answered
  <2>1. mine[c] \in Locks /\ mine[c] # None /\ disk.lock = mine[c]
    BY <1>0, <1>1 DEF Owns, TypeOK
  <2>2. Append(disk.chain, mine[c]) \in Envelopes
    BY <1>0, <2>1 DEF Envelopes
  <2>3. local' \in [Controllers -> Locals]
        /\ local'[c].current = Append(disk.chain, mine[c])
    BY <1>0, <1>1, <2>2 DEF TypeOK, Locals
  <2>4. TypeOK'
    BY <1>0, <1>1, <2>3, GotoTyped DEF TypeOK, Places
  <2>5. StepOf(c) /\ pc'[c] = "replace"
    BY <1>0, <1>1, GotoSteps DEF TypeOK
  <2>6. Relies(c)'
    BY <1>0, <2>1, <2>3, <2>5, Known DEF Relies
  <2> QED
    BY <1>0, <2>4, <2>5, <2>6, QuietStep
<1>2. CASE Leave(c, "held") /\ answered' \in {answered, disk.chain}
  <2>1. "held" \in Places /\ "held" \notin Busy
    BY DEF Places, Busy, Working
  <2> QED
    BY <1>0, <1>2, <2>1, LeaveKeeps DEF TypeOK
<1> QED
  BY <1>1, <1>2 DEF Operate

(* Only what is on disk is answered.                                        *)
LEMMA AnswerKeeps ==
    ASSUME Inductive, NEW c \in Controllers, Answer(c), UNCHANGED stale PROVE Inductive'
<1>1. /\ TypeOK /\ pc[c] = "answer" /\ disk' = disk /\ mine' = mine /\ faults' = faults
      /\ Leave(c, "held") /\ answered' \in Envelopes
  BY Known DEF Answer, TypeOK, Locals
<1>2. "held" \in Places /\ "held" \notin Busy
  BY DEF Places, Busy, Working
<1> QED
  BY <1>1, <1>2, LeaveKeeps DEF TypeOK

---------------------------------------------------------------------------
(* The steps that move the lock or replace the state                       *)

(* They disturb nobody either: nobody else is at work on a transaction,    *)
(* and a lock under recovery is in place or quarantined.                   *)
LEMMA LockStep ==
    ASSUME Inductive, TypeOK', NEW c \in Controllers, StepOf(c), Relies(c)',
           \A d \in Controllers \ {c} : pc[d] \notin Working,
           \A d \in Controllers \ {c} :
               pc[d] = "quarantine" => \/ disk'.lock = local[d].observed
                                      \/ local[d].observed \in disk'.quarantined
    PROVE  Inductive'
<1> SUFFICES ASSUME NEW d \in Controllers, d # c PROVE Relies(d)'
  BY InductiveByController2
<1>1. Relies(d) /\ pc[d] \notin Working
  BY InductiveByController
<1>2. pc'[d] = pc[d] /\ mine'[d] = mine[d] /\ local'[d] = local[d]
  BY DEF StepOf
<1>3. ASSUME NEW e, Destroyed(e), pc[d] \in {"authorized", "quarantine"},
             e = local[d].observed.owner
      PROVE  Destroyed(e)'
  <2>1. local[d].observed \in Locks
    BY <1>1, <1>3 DEF Relies, Inductive, TypeOK, Locals
  <2>2. e \in Controllers
    BY <1>3, <2>1 DEF Locks
  <2> QED
    BY <1>3, <2>2 DEF StepOf, Destroyed
<1> QED
  BY <1>1, <1>2, <1>3 DEF Relies, Working

(* Who holds the lock for a transaction is alone with it.                  *)
LEMMA OneWriter ==
    ASSUME Inductive, NEW c \in Controllers, disk.lock # None => disk.lock.owner = c
    PROVE  \A d \in Controllers \ {c} : pc[d] \notin Working
<1> SUFFICES ASSUME NEW d \in Controllers \ {c}, pc[d] \in Working PROVE FALSE
  OBVIOUS
<1>1. disk.lock # None /\ disk.lock = mine[d] /\ mine[d].owner = d
  BY Known DEF Relies
<1> QED
  BY <1>1

(* The state is replaced by a successor of what was read.                   *)
LEMMA ReplaceStateKeeps ==
    ASSUME Inductive, NEW c \in Controllers, ReplaceState(c), UNCHANGED stale
    PROVE  Inductive'
<1> DEFINE next == [disk EXCEPT !.chain = local[c].current]
<1>0. /\ TypeOK /\ Relies(c) /\ pc[c] = "replace" /\ mine' = mine /\ answered' = answered
      /\ Try(c, next, "advance")
  BY Known DEF ReplaceState
<1>1. /\ next \in Disks
      /\ next.lock = disk.lock /\ next.quarantined = disk.quarantined
  BY <1>0 DEF TypeOK, Disks, Locals
<1>2. disk.lock # None /\ disk.lock = mine[c] /\ disk.lock.owner = c
  BY <1>0 DEF Relies, Working
<1>3. \A d \in Controllers \ {c} : pc[d] \notin Working
  BY <1>2, OneWriter
<1>4. disk' \in Disks /\ disk'.lock = disk.lock /\ disk'.quarantined = disk.quarantined
  BY <1>0, <1>1 DEF Try, TypeOK
<1>5. TypeOK' /\ StepOf(c) /\ Relies(c)'
  <2>1. CASE disk' = next /\ Goto(c, "advance") /\ UNCHANGED <<local, faults>>
    <3>1. TypeOK'
      BY <1>0, <1>4, <2>1, GotoTyped DEF TypeOK, Places
    <3>2. StepOf(c) /\ pc'[c] = "advance"
      BY <1>0, <2>1, GotoSteps
    <3> QED
      BY <1>0, <1>2, <1>4, <3>1, <3>2 DEF Relies, Working
  <2>2. CASE disk' \in {disk, next} /\ Leave(c, "held") /\ Fault
    <3>1. "held" \in Places /\ "held" \notin Busy
      BY DEF Places, Busy, Working
    <3>2. TypeOK'
      BY <1>0, <1>4, <2>2, <3>1, LeaveTyped, FaultTyped DEF TypeOK
    <3>3. StepOf(c) /\ pc'[c] = "held"
      BY <1>0, <2>2, LeaveSteps
    <3> QED
      BY <1>0, <3>1, <3>2, <3>3, AtRestNext, Known
  <2> QED
    BY <1>0, <2>1, <2>2 DEF Try
<1>6. \A d \in Controllers \ {c} :
        pc[d] = "quarantine" => \/ disk'.lock = local[d].observed
                               \/ local[d].observed \in disk'.quarantined
  BY <1>4, Known DEF Relies
<1> QED
  BY <1>3, <1>5, <1>6, LockStep

(* A lock is placed where there is none.                                    *)
LEMMA PlaceLockKeeps ==
    ASSUME Inductive, NEW c \in Controllers, PlaceLock(c), UNCHANGED stale PROVE Inductive'
<1> DEFINE lock == [owner |-> c, epoch |-> NextEpoch(c)]
           placed == [disk EXCEPT !.lock = lock]
<1>0. TypeOK /\ Relies(c) /\ pc[c] = "rename"
  BY Known DEF PlaceLock
<1>1. lock \in Locks /\ lock.owner = c /\ lock # None
  <2>1. local[c].seen.epoch \in Nat /\ local[c].recovered \in Nat
    BY <1>0 DEF TypeOK, Locals, Fences
  <2>2. NextEpoch(c) \in Nat
    BY <2>1 DEF NextEpoch, Greater
  <2> QED
    BY <2>2, NoneIsNoLock DEF Locks
<1>2. placed \in Disks /\ placed.lock = lock /\ placed.quarantined = disk.quarantined
  BY <1>0, <1>1 DEF TypeOK, Disks
<1>3. ASSUME disk.lock = None, disk' \in {disk, placed}, TypeOK', StepOf(c), Relies(c)'
      PROVE  Inductive'
  <2>1. \A d \in Controllers \ {c} : pc[d] \notin Working
    BY <1>3, OneWriter
  <2>2. \A d \in Controllers \ {c} :
          pc[d] = "quarantine" => local[d].observed \in disk'.quarantined
    BY <1>2, <1>3, Known DEF Relies
  <2> QED
    BY <1>3, <2>1, <2>2, LockStep
<1>4. CASE /\ disk.lock = None /\ disk' = placed /\ mine' = Set(mine, c, lock)
           /\ Goto(c, "own") /\ UNCHANGED <<local, answered, faults>>
  <2>1. mine' \in [Controllers -> Locks \cup {None}] /\ mine'[c] = lock
        /\ \A d \in Controllers \ {c} : mine'[d] = mine[d]
    BY <1>0, <1>1, <1>4 DEF TypeOK, Set
  <2>2. TypeOK'
    BY <1>0, <1>2, <1>4, <2>1, GotoTyped DEF TypeOK, Places
  <2>3. StepOf(c) /\ pc'[c] = "own"
    BY <1>0, <1>4, <2>1, GotoSteps
  <2>4. Relies(c)'
    BY <1>1, <2>1, <2>3 DEF Relies, Working
  <2> QED
    BY <1>3, <1>4, <2>2, <2>3, <2>4
<1>5. CASE disk.lock # None /\ Abandon(c) /\ UNCHANGED <<disk, faults>>
  BY <1>0, <1>5, AbandonKeeps DEF TypeOK
<1>6. CASE disk.lock = None /\ Fault /\ disk' \in {disk, placed} /\ Abandon(c)
  <2>1. TypeOK'
    BY <1>0, <1>2, <1>6, AbandonTyped, FaultTyped DEF TypeOK
  <2>2. StepOf(c) /\ pc'[c] = "idle"
    BY <1>0, <1>6, LeaveSteps DEF Abandon
  <2>3. Relies(c)'
    BY <1>0, <1>6, <2>2, AtRestNext, Known DEF Abandon, Busy, Working
  <2> QED
    BY <1>3, <1>6, <2>1, <2>2, <2>3
<1> QED
  BY <1>4, <1>5, <1>6 DEF PlaceLock

(* Only the lock of a destroyed controller is quarantined.                  *)
LEMMA QuarantineKeeps ==
    ASSUME Inductive, NEW c \in Controllers, Quarantine(c), UNCHANGED stale PROVE Inductive'
<1> DEFINE observed == local[c].observed
           moved == [disk EXCEPT !.lock = None, !.quarantined = @ \cup {observed}]
<1>0. /\ TypeOK /\ Relies(c) /\ pc[c] = "quarantine"
      /\ observed \in Locks /\ observed # None /\ Destroyed(observed.owner)
  BY Known DEF Quarantine, Relies, TypeOK, Locals
<1>1. /\ moved \in Disks /\ moved.lock = None
      /\ moved.quarantined = disk.quarantined \cup {observed}
  BY <1>0 DEF TypeOK, Disks
<1>2. ASSUME MayQuarantine(observed), disk' \in {disk, moved}, TypeOK', StepOf(c), Relies(c)'
      PROVE  Inductive'
  <2>1. disk.lock = observed
    BY <1>0, <1>2 DEF MayQuarantine, Relies
  <2>2. \A d \in Controllers \ {c} : pc[d] \notin Working
    <3> SUFFICES ASSUME NEW d \in Controllers \ {c}, pc[d] \in Working PROVE FALSE
      OBVIOUS
    <3>1. observed.owner = d
      BY <2>1, Known DEF Relies
    <3> QED
      BY <1>0, <3>1 DEF Destroyed, Working
  <2>3. \A d \in Controllers \ {c} :
          pc[d] = "quarantine" => \/ disk'.lock = local[d].observed
                                 \/ local[d].observed \in disk'.quarantined
    <3> SUFFICES ASSUME NEW d \in Controllers \ {c}, pc[d] = "quarantine"
                 PROVE  \/ disk'.lock = local[d].observed
                        \/ local[d].observed \in disk'.quarantined
      OBVIOUS
    <3>1. disk.lock = local[d].observed \/ local[d].observed \in disk.quarantined
      BY Known DEF Relies
    <3> QED
      BY <1>1, <1>2, <2>1, <3>1
  <2> QED
    BY <1>2, <2>2, <2>3, LockStep
<1>3. CASE /\ MayQuarantine(observed) /\ disk' = moved /\ Goto(c, "acquire")
           /\ local' = [local EXCEPT ![c].recovered = Greater(@, observed.epoch)]
           /\ UNCHANGED <<mine, answered, faults>>
  <2>1. Greater(local[c].recovered, observed.epoch) \in Nat
    BY <1>0 DEF Greater, TypeOK, Locals, Locks
  <2>2. local' \in [Controllers -> Locals]
    BY <1>0, <1>3, <2>1 DEF TypeOK, Locals
  <2>3. TypeOK'
    BY <1>0, <1>1, <1>3, <2>2, GotoTyped DEF TypeOK, Places
  <2>4. StepOf(c) /\ pc'[c] = "acquire"
    BY <1>0, <1>3, GotoSteps DEF TypeOK
  <2>5. Relies(c)'
    BY <1>3, <2>4, AtRestNext, Known DEF Busy, Working
  <2> QED
    BY <1>2, <1>3, <2>3, <2>4, <2>5
<1>4. CASE MayQuarantine(observed) /\ Fault /\ disk' \in {disk, moved} /\ Abandon(c)
  <2>1. TypeOK'
    BY <1>0, <1>1, <1>4, AbandonTyped, FaultTyped DEF TypeOK
  <2>2. StepOf(c) /\ pc'[c] = "idle"
    BY <1>0, <1>4, LeaveSteps DEF Abandon
  <2>3. Relies(c)'
    BY <1>4, <2>2, AtRestNext, Known DEF Abandon, Busy, Working
  <2> QED
    BY <1>2, <1>4, <2>1, <2>2, <2>3
<1>5. CASE ~MayQuarantine(observed) /\ Abandon(c) /\ UNCHANGED <<disk, faults>>
  BY <1>0, <1>5, AbandonKeeps DEF TypeOK
<1> QED
  BY <1>3, <1>4, <1>5 DEF Quarantine

(* An owner gives its own lock up.                                          *)
LEMMA CloseKeeps ==
    ASSUME Inductive, NEW c \in Controllers, Close(c), UNCHANGED stale PROVE Inductive'
<1> DEFINE released == [disk EXCEPT !.lock = None, !.released = @ \cup {mine[c]}]
<1>0. /\ TypeOK /\ pc[c] \in {"idle", "held"} /\ local' = local /\ answered' = answered
      /\ (mine[c] # None => mine[c].owner = c)
      /\ "closed" \in Places /\ "closed" \notin Busy
  BY Known DEF Close, Places, Busy, Working
<1>1. ASSUME disk' \in Disks, faults' \in 0..MaxFaults, Goto(c, "closed"),
             \/ mine' = mine
             \/ mine' = Set(mine, c, None)
      PROVE  TypeOK' /\ StepOf(c) /\ Relies(c)'
  <2>1. /\ mine' \in [Controllers -> Locks \cup {None}] /\ mine'[c] \in {None, mine[c]}
        /\ \A d \in Controllers \ {c} : mine'[d] = mine[d]
    BY <1>0, <1>1 DEF TypeOK, Set
  <2>2. TypeOK'
    BY <1>0, <1>1, <2>1, GotoTyped DEF TypeOK
  <2>3. StepOf(c) /\ pc'[c] = "closed"
    BY <1>0, <1>1, <2>1, GotoSteps
  <2> QED
    BY <1>0, <2>1, <2>2, <2>3, AtRestNext
<1>2. ASSUME disk' = disk, faults' = faults, mine' = mine, Goto(c, "closed")
      PROVE  Inductive'
  BY <1>0, <1>1, <1>2, QuietStep DEF TypeOK
<1>3. ASSUME Owns(c), disk' \in {disk, released}, TypeOK', StepOf(c), Relies(c)'
      PROVE  Inductive'
  <2>1. disk.lock # None /\ disk.lock \in Locks /\ disk.lock.owner = c /\ pc[c] # "dead"
    BY <1>0, <1>3 DEF Owns, TypeOK, Disks
  <2>2. \A d \in Controllers \ {c} : pc[d] \notin Working
    BY <2>1, OneWriter
  <2>3. disk'.quarantined = disk.quarantined
    BY <1>0, <1>3 DEF TypeOK, Disks
  <2>4. ASSUME NEW d \in Controllers \ {c}, pc[d] = "quarantine"
        PROVE  local[d].observed \in disk'.quarantined
    <3>1. /\ disk.lock = local[d].observed \/ local[d].observed \in disk.quarantined
          /\ pc[local[d].observed.owner] = "dead"
      BY <2>4, Known DEF Relies, Destroyed
    <3> QED
      BY <2>1, <2>3, <3>1
  <2> QED
    BY <1>3, <2>2, <2>4, LockStep
<1>4. CASE Owns(c) /\ disk' = released /\ mine' = Set(mine, c, None) /\ Goto(c, "closed")
           /\ UNCHANGED faults
  <2>1. disk' \in Disks
    BY <1>0, <1>4 DEF Owns, TypeOK, Disks
  <2> QED
    BY <1>0, <1>1, <1>3, <1>4, <2>1 DEF TypeOK
<1>5. CASE Owns(c) /\ Fault /\ disk' \in {disk, released} /\ Goto(c, "closed") /\ UNCHANGED mine
  <2>1. released \in Disks
    BY <1>0, <1>5 DEF Owns, TypeOK, Disks
  <2>2. faults' \in 0..MaxFaults
    BY <1>0, <1>5, FaultTyped
  <2> QED
    BY <1>0, <1>1, <1>3, <1>5, <2>1, <2>2 DEF TypeOK
<1> QED
  BY <1>2, <1>4, <1>5 DEF Close

---------------------------------------------------------------------------
(* The theorems                                                            *)

(* Every step keeps the invariant.                                          *)
LEMMA NextKeeps == Inductive /\ [Next]_vars => Inductive'
<1> SUFFICES ASSUME Inductive, [Next]_vars PROVE Inductive'
  OBVIOUS
<1>1. ASSUME NEW c \in Controllers, Step(c) PROVE Inductive'
  BY <1>1, WriteFenceKeeps, StartKeeps, ReadActiveLockKeeps, PersistAuthorizationKeeps,
     QuarantineKeeps, ReadFenceKeeps, PlaceLockKeeps, BeginKeeps, ReconcileKeeps,
     OperateKeeps, ReplaceStateKeeps, AnswerKeeps, CloseKeeps, DestroyKeeps
  DEF Step
<1>2. ASSUME NEW c \in Controllers, Crash(c), UNCHANGED stale PROVE Inductive'
  BY <1>2, CrashKeeps
<1>3. CASE UNCHANGED vars
  BY <1>3 DEF vars, Inductive, TypeOK, OwnLock, Holding, Following, Authorized, Destroyed
<1> QED
  BY <1>1, <1>2, <1>3 DEF Next

(* The files of the volume and the variables of every controller keep      *)
(* their types, a transaction holds the lock until it is answered, and a   *)
(* lock is only recovered from a destroyed owner.                          *)
THEOREM InductiveInvariant == Spec => []Inductive
<1>1. Init => Inductive
  BY InitInductive
<1>2. Inductive /\ [Next]_vars => Inductive'
  BY NextKeeps
<1> QED
  BY <1>1, <1>2, PTL DEF Spec

(* A step leaves the state and the answers alone, or is one transaction    *)
(* taking effect, or tells one caller of the state as it is.               *)
LEMMA StepImplements ==
    Inductive /\ [Next]_vars => [Store!Next]_(Store!vars)
<1> SUFFICES ASSUME Inductive, [Next]_vars PROVE [Store!Next]_(Store!vars)
  OBVIOUS
<1>0. TypeOK /\ disk.chain \in Envelopes
  BY DEF Inductive, TypeOK, Disks
<1>1. ASSUME NEW c \in Controllers, ReplaceState(c) PROVE [Store!Next]_(Store!vars)
  <2> DEFINE next == [disk EXCEPT !.chain = local[c].current]
  <2>1. Relies(c) /\ pc[c] = "replace" /\ Try(c, next, "advance") /\ answered' = answered
    BY <1>1, Known DEF ReplaceState
  <2>2. /\ next.chain = Append(disk.chain, mine[c])
        /\ mine[c] \in Locks
    BY <1>0, <2>1, NoneIsNoLock DEF TypeOK, Disks, Relies, Working
  <2>3. disk'.chain = disk.chain \/ disk'.chain = Append(disk.chain, mine[c])
    BY <2>1, <2>2 DEF Try
  <2>4. CASE disk'.chain = disk.chain
    BY <2>1, <2>4 DEF Store!vars
  <2>5. CASE disk'.chain = Append(disk.chain, mine[c])
    <3>1. Store!Commit
      BY <1>0, <2>1, <2>2, <2>5 DEF Store!Commit, Store!PrefixOf, Envelopes
    <3> QED
      BY <3>1 DEF Store!Next
  <2> QED
    BY <2>3, <2>4, <2>5
<1>2. ASSUME NEW c \in Controllers, Operate(c) \/ Answer(c)
      PROVE  [Store!Next]_(Store!vars)
  BY <1>2 DEF Operate, Answer, Store!Next, Store!Answer, Store!vars
<1>3. ASSUME UNCHANGED answered, disk'.chain = disk.chain PROVE [Store!Next]_(Store!vars)
  BY <1>3 DEF Store!vars
<1>4. ASSUME NEW c \in Controllers,
             \/ Start(c) \/ ReadActiveLock(c) \/ PersistAuthorization(c) \/ Quarantine(c)
             \/ ReadFence(c) \/ PlaceLock(c) \/ WriteFence(c) \/ Begin(c) \/ Reconcile(c)
             \/ Close(c) \/ Destroy(c) \/ Crash(c)
      PROVE  UNCHANGED answered /\ disk'.chain = disk.chain
  <2>1. CASE Start(c) \/ Begin(c) \/ Destroy(c) \/ Crash(c) \/ ReadFence(c)
    BY <2>1 DEF Start, Begin, Destroy, Crash, ReadFence, Vanish
  <2>2. CASE ReadActiveLock(c)
    BY <2>2 DEF ReadActiveLock, Abandon
  <2>3. CASE PersistAuthorization(c)
    BY <1>0, <2>3 DEF PersistAuthorization, Abandon, TypeOK, Disks
  <2>4. CASE Quarantine(c)
    BY <1>0, <2>4 DEF Quarantine, Abandon, TypeOK, Disks
  <2>5. CASE PlaceLock(c)
    BY <1>0, <2>5 DEF PlaceLock, Abandon, TypeOK, Disks
  <2>6. CASE WriteFence(c)
    BY <1>0, <2>6 DEF WriteFence, Try, TypeOK, Disks
  <2>7. CASE Reconcile(c)
    BY <1>0, <2>7 DEF Reconcile, Try, TypeOK, Disks
  <2>8. CASE Close(c)
    BY <1>0, <2>8 DEF Close, TypeOK, Disks
  <2> QED
    BY <1>4, <2>1, <2>2, <2>3, <2>4, <2>5, <2>6, <2>7, <2>8
<1>5. CASE UNCHANGED vars
  BY <1>3, <1>5 DEF vars
<1> QED
  BY <1>1, <1>2, <1>3, <1>4, <1>5 DEF Next, Step

(* A mounted-volume store implements AtomicStore, whatever controllers     *)
(* come, fail, are destroyed and recovered.                                *)
THEOREM StoreKeepsPromise == Spec => KeepsPromise
<1>1. Init => Store!Init
  BY DEF Init, Store!Init
<1>2. Inductive /\ [Next]_vars => [Store!Next]_(Store!vars)
  BY StepImplements
<1> QED
  BY <1>1, <1>2, InductiveInvariant, PTL DEF Spec, KeepsPromise, Store!Spec

(* Of the promise itself: the transactions that were answered are in the   *)
(* state, in their order, for ever.                                        *)
THEOREM AnsweredStays == Spec => []Store!AnsweredKept
<1> DEFINE Kept == /\ disk.chain \in Envelopes /\ answered \in Envelopes
                   /\ Store!AnsweredKept
<1>1. Init => Kept
  BY DEF Init, Envelopes, Store!AnsweredKept, Store!PrefixOf
<1>2. Kept /\ Inductive' /\ [Store!Next]_(Store!vars) => Kept'
  <2> SUFFICES ASSUME Kept, Inductive', [Store!Next]_(Store!vars) PROVE Kept'
    OBVIOUS
  <2>1. disk'.chain \in Envelopes /\ answered' \in Envelopes
    BY DEF Inductive, TypeOK, Disks
  <2>2. CASE Store!Commit
    BY <2>1, <2>2 DEF Store!Commit, Store!AnsweredKept, Store!PrefixOf, Envelopes
  <2>3. CASE Store!Answer
    BY <2>1, <2>3 DEF Store!Answer, Store!AnsweredKept, Store!PrefixOf, Envelopes
  <2>4. CASE UNCHANGED Store!vars
    BY <2>1, <2>4 DEF Store!vars, Store!AnsweredKept, Store!PrefixOf
  <2> QED
    BY <2>2, <2>3, <2>4 DEF Store!Next
<1>3. Inductive /\ [Next]_vars => [Store!Next]_(Store!vars)
  BY StepImplements
<1>4. Kept => Store!AnsweredKept
  OBVIOUS
<1> QED
  BY <1>1, <1>2, <1>3, <1>4, InductiveInvariant, PTL DEF Spec

---------------------------------------------------------------------------
(* The head of the fence and the state file                                *)

(* A lock is in place while its owner has not closed, its owner's fence is *)
(* the one on disk during a transaction, and a transaction starts from the *)
(* fence's head and answers what it has written.  An owner that is about   *)
(* to write its fence raises the epoch it has read.                        *)
Bound(d) ==
    /\ (mine[d] # None /\ pc[d] \notin {"closed", "dead"}) => disk.lock = mine[d]
    /\ pc[d] \in Working => disk.fence.lock = mine[d] /\ disk.fence.epoch = mine[d].epoch
    /\ pc[d] \in {"write", "replace"} => disk.fence.head = disk.chain
    /\ pc[d] \in {"advance", "answer"} => local[d].current = disk.chain
    /\ pc[d] = "own" => mine[d].epoch > local[d].seen.epoch

(* The writer of the state holds the lock, or has given it up or lost it.  *)
WriterOnDisk ==
    disk.chain # <<>> =>
        Last(disk.chain) \in {disk.lock} \cup disk.released \cup disk.quarantined

(* Unless a fence was written over one that was not read, the state is the *)
(* head of the fence or one envelope ahead, and no newer than the fence.   *)
OneAhead ==
    ~stale => /\ disk.chain = disk.fence.head \/ Linked(disk.fence.head, disk.chain)
              /\ disk.chain # <<>> => Last(disk.chain).epoch <= disk.fence.epoch

Reach == (\A d \in Controllers : Bound(d)) /\ WriterOnDisk /\ OneAhead

(* At the start there is no lock, no fence and no state.                    *)
LEMMA InitReach == Init => Reach
  BY DEF Init, Reach, Bound, Working, WriterOnDisk, OneAhead, NoFence

(* Every step is a step of its controller.                                 *)
LEMMA EveryStep ==
    ASSUME Inductive, NEW c \in Controllers, Step(c) \/ Crash(c) PROVE StepOf(c)
<1>0. TypeOK
  BY Known
<1>1. ASSUME NEW there, Goto(c, there), pc[c] # "dead", UNCHANGED <<mine, local>>
      PROVE  StepOf(c)
  BY <1>1, GotoSteps
<1>2. ASSUME NEW there, Leave(c, there), pc[c] # "dead", UNCHANGED mine
      PROVE  StepOf(c)
  BY <1>2, LeaveSteps
<1>3. ASSUME Abandon(c), pc[c] # "dead" PROVE StepOf(c)
  BY <1>2, <1>3 DEF Abandon
<1>4. ASSUME NEW next, NEW then, Try(c, next, then), pc[c] # "dead", UNCHANGED mine
      PROVE  StepOf(c)
  BY <1>1, <1>2, <1>4 DEF Try
<1>5. CASE Start(c) \/ Begin(c)
  BY <1>1, <1>5 DEF Start, Begin
<1>6. CASE Crash(c) \/ Destroy(c)
  <2>1. Leave(c, "dead") /\ pc[c] # "dead" /\ mine' = Set(mine, c, None)
    BY <1>6 DEF Crash, Destroy, Vanish
  <2>2. \A d \in Controllers \ {c} : mine'[d] = mine[d]
    BY <1>0, <2>1 DEF Set, TypeOK
  <2> QED
    BY <2>1, <2>2, LeaveSteps
<1>7. CASE ReadActiveLock(c)
  <2>1. CASE Goto(c, "fence") /\ UNCHANGED <<mine, local>>
    BY <1>1, <1>7, <2>1 DEF ReadActiveLock
  <2>2. CASE Goto(c, "authorized") /\ local' = [local EXCEPT ![c].observed = disk.lock]
             /\ UNCHANGED mine
    BY <1>0, <1>7, <2>2, GotoSteps DEF ReadActiveLock, TypeOK
  <2>3. CASE Abandon(c)
    BY <1>3, <1>7, <2>3 DEF ReadActiveLock
  <2> QED
    BY <1>7, <2>1, <2>2, <2>3 DEF ReadActiveLock
<1>8. CASE PersistAuthorization(c)
  BY <1>1, <1>3, <1>8 DEF PersistAuthorization
<1>9. CASE Quarantine(c)
  <2>1. CASE /\ Goto(c, "acquire") /\ UNCHANGED mine
             /\ local' = [local EXCEPT ![c].recovered = Greater(@, local[c].observed.epoch)]
    BY <1>0, <1>9, <2>1, GotoSteps DEF Quarantine, TypeOK
  <2>2. CASE Abandon(c)
    BY <1>3, <1>9, <2>2 DEF Quarantine
  <2> QED
    BY <1>9, <2>1, <2>2 DEF Quarantine
<1>10. CASE ReadFence(c)
  BY <1>0, <1>10, GotoSteps DEF ReadFence, TypeOK
<1>11. CASE PlaceLock(c)
  <2>1. CASE /\ Goto(c, "own") /\ UNCHANGED local
             /\ mine' = Set(mine, c, [owner |-> c, epoch |-> NextEpoch(c)])
    BY <1>0, <1>11, <2>1, GotoSteps DEF PlaceLock, Set, TypeOK
  <2>2. CASE Abandon(c)
    BY <1>3, <1>11, <2>2 DEF PlaceLock
  <2> QED
    BY <1>11, <2>1, <2>2 DEF PlaceLock
<1>12. CASE WriteFence(c)
  BY <1>4, <1>12 DEF WriteFence
<1>13. CASE Reconcile(c)
  <2>1. pc[c] # "dead" /\ UNCHANGED mine
    BY <1>13 DEF Reconcile
  <2>2. CASE \E there : Goto(c, there) /\ UNCHANGED local
    BY <1>1, <2>1, <2>2
  <2>3. CASE \E next, then : Try(c, next, then)
    BY <1>4, <2>1, <2>3
  <2>4. CASE Leave(c, "held")
    BY <1>2, <2>1, <2>4
  <2> QED
    BY <1>13, <2>2, <2>3, <2>4 DEF Reconcile
<1>14. CASE Operate(c)
  <2>1. CASE /\ Goto(c, "replace")
             /\ local' = [local EXCEPT ![c].current = Append(disk.chain, mine[c])]
    BY <1>0, <1>14, <2>1, GotoSteps DEF Operate, TypeOK
  <2>2. CASE Leave(c, "held")
    BY <1>2, <1>14, <2>2 DEF Operate
  <2> QED
    BY <1>14, <2>1, <2>2 DEF Operate
<1>15. CASE ReplaceState(c)
  BY <1>4, <1>15 DEF ReplaceState
<1>16. CASE Answer(c)
  BY <1>2, <1>16 DEF Answer
<1>17. CASE Close(c)
  <2>1. /\ Goto(c, "closed") /\ pc[c] # "dead" /\ UNCHANGED local
        /\ mine' = mine \/ mine' = Set(mine, c, None)
    BY <1>17 DEF Close
  <2> QED
    BY <1>0, <2>1, GotoSteps DEF Set, TypeOK
<1> QED
  BY <1>5, <1>6, <1>7, <1>8, <1>9, <1>10, <1>11, <1>12, <1>13, <1>14, <1>15, <1>16, <1>17
  DEF Step

(* A step of c leaves d bound, unless it moves d's lock or the fence under *)
(* its transaction.                                                        *)
LEMMA OtherBound ==
    ASSUME NEW c \in Controllers, NEW d \in Controllers \ {c}, StepOf(c), Bound(d),
           mine[d] # None /\ pc[d] \notin {"closed", "dead"} => disk'.lock = disk.lock,
           pc[d] \in Working => disk'.fence = disk.fence /\ disk'.chain = disk.chain
    PROVE  Bound(d)'
<1>1. pc'[d] = pc[d] /\ mine'[d] = mine[d] /\ local'[d] = local[d]
  BY DEF StepOf
<1> QED
  BY <1>1 DEF Bound, Working

(* It keeps all if it leaves lock, fence and state.                        *)
LEMMA QuietReach ==
    ASSUME Reach, NEW c \in Controllers, StepOf(c), Bound(c)', ~stale' => ~stale,
           disk'.lock = disk.lock, disk'.chain = disk.chain, disk'.fence = disk.fence,
           disk.released \subseteq disk'.released,
           disk.quarantined \subseteq disk'.quarantined
    PROVE  Reach'
<1>1. \A d \in Controllers : Bound(d)'
  BY OtherBound DEF Reach
<1>2. WriterOnDisk'
  BY DEF Reach, WriterOnDisk
<1>3. OneAhead'
  BY DEF Reach, OneAhead, Linked, Last
<1> QED
  BY <1>1, <1>2, <1>3 DEF Reach

(* At a place that is no transaction's only the lock matters.              *)
LEMMA LooseBound ==
    ASSUME NEW d \in Controllers, pc'[d] \notin Working \cup {"own"},
           (mine'[d] # None /\ pc'[d] \notin {"closed", "dead"}) => disk'.lock = mine'[d]
    PROVE  Bound(d)'
  BY DEF Bound, Working

(* The steps that leave lock, fence and state.                             *)
LEMMA QuietReaches ==
    ASSUME Inductive, Reach, NEW c \in Controllers, UNCHANGED stale,
           \/ Start(c) \/ ReadActiveLock(c) \/ PersistAuthorization(c) \/ ReadFence(c)
           \/ Begin(c) \/ Operate(c) \/ Answer(c) \/ Destroy(c) \/ Crash(c)
    PROVE  Reach'
<1>0. TypeOK /\ StepOf(c) /\ Bound(c) /\ Relies(c)
  BY Known, EveryStep DEF Step, Reach
<1>1. /\ disk'.lock = disk.lock /\ disk'.chain = disk.chain /\ disk'.fence = disk.fence
      /\ disk'.released = disk.released /\ disk'.quarantined = disk.quarantined
  <2>1. CASE PersistAuthorization(c)
    BY <1>0, <2>1 DEF PersistAuthorization, TypeOK, Disks
  <2>2. CASE \/ Start(c) \/ ReadActiveLock(c) \/ ReadFence(c)
             \/ Begin(c) \/ Operate(c) \/ Answer(c) \/ Destroy(c) \/ Crash(c)
    <3>1. disk' = disk
      BY <2>2 DEF Start, ReadActiveLock, ReadFence, Begin, Operate, Answer, Destroy, Crash,
                  Vanish
    <3> QED
      BY <3>1
  <2> QED
    BY <2>1, <2>2
<1>2. ASSUME NEW there, Leave(c, there), there \notin Working \cup {"own"},
             pc[c] \notin {"closed", "dead"}, mine'[c] = mine[c]
      PROVE  Bound(c)'
  <2>1. pc'[c] = there
    BY <1>0, <1>2 DEF Leave, Goto, Set, TypeOK
  <2> QED
    BY <1>0, <1>1, <1>2, <2>1, LooseBound DEF Bound
<1>3. ASSUME NEW there, Goto(c, there), there \notin Working \cup {"own"},
             pc[c] \notin {"closed", "dead"}, mine'[c] = mine[c]
      PROVE  Bound(c)'
  <2>1. pc'[c] = there
    BY <1>0, <1>3 DEF Goto, Set, TypeOK
  <2> QED
    BY <1>0, <1>1, <1>3, <2>1, LooseBound DEF Bound
<1>4. Bound(c)'
  <2>1. CASE Start(c) \/ Begin(c) \/ ReadFence(c)
    BY <1>3, <2>1 DEF Start, Begin, ReadFence, Working
  <2>2. CASE ReadActiveLock(c)
    BY <1>2, <1>3, <2>2 DEF ReadActiveLock, Abandon, Working
  <2>3. CASE PersistAuthorization(c)
    BY <1>2, <1>3, <2>3 DEF PersistAuthorization, Abandon, Working
  <2>4. CASE Operate(c)
    <3>1. CASE Goto(c, "replace") /\ UNCHANGED mine
      <4>1. pc[c] = "write" /\ pc'[c] = "replace"
        BY <1>0, <2>4, <3>1 DEF Operate, Goto, Set, TypeOK
      <4> QED
        BY <1>0, <1>1, <3>1, <4>1 DEF Bound, Working
    <3>2. CASE Leave(c, "held") /\ UNCHANGED mine
      BY <1>2, <2>4, <3>2 DEF Operate, Working
    <3> QED
      BY <2>4, <3>1, <3>2 DEF Operate
  <2>5. CASE Answer(c)
    BY <1>2, <2>5 DEF Answer, Working
  <2>6. CASE Destroy(c) \/ Crash(c)
    <3>1. pc'[c] = "dead"
      BY <1>0, <2>6 DEF Destroy, Crash, Vanish, Leave, Goto, Set, TypeOK
    <3> QED
      BY <3>1, LooseBound DEF Working
  <2> QED
    BY <2>1, <2>2, <2>3, <2>4, <2>5, <2>6
<1> QED
  BY <1>0, <1>1, <1>4, QuietReach

(* A fence is written by the owner of the lock, so over nobody's           *)
(* transaction; it has the head that was read, and a higher epoch.         *)
LEMMA WriteFenceReaches ==
    ASSUME Inductive, Inductive', Reach, NEW c \in Controllers, WriteFence(c) PROVE Reach'
<1> DEFINE next == [disk EXCEPT !.fence = NewFence(c)]
<1>0. /\ TypeOK /\ StepOf(c) /\ Bound(c) /\ Relies(c) /\ pc[c] = "own" /\ mine' = mine
      /\ Try(c, next, "begin") /\ stale' = (stale \/ local[c].seen # disk.fence)
  BY Known, EveryStep DEF WriteFence, Step, Reach
<1>1. disk.lock = mine[c] /\ mine[c] # None /\ mine[c].owner = c
  BY <1>0 DEF Bound, Relies
<1>2. \A d \in Controllers \ {c} : pc[d] \notin Working
  BY <1>1, OneWriter
<1>3. /\ disk'.lock = disk.lock /\ disk'.chain = disk.chain
      /\ disk'.released = disk.released /\ disk'.quarantined = disk.quarantined
      /\ disk'.fence = disk.fence \/ disk'.fence = NewFence(c)
  BY <1>0 DEF Try, TypeOK, Disks
<1>4. Bound(c)'
  <2>1. pc'[c] \in {"begin", "held"}
    BY <1>0 DEF Try, Leave, Goto, Set, TypeOK
  <2> QED
    BY <1>0, <1>1, <1>3, <2>1, LooseBound DEF Working
<1>5. \A d \in Controllers : Bound(d)'
  BY <1>0, <1>2, <1>3, <1>4, OtherBound DEF Reach
<1>6. WriterOnDisk'
  BY <1>3 DEF Reach, WriterOnDisk, Last
<1>7. OneAhead'
  <2> SUFFICES ASSUME ~stale', disk'.fence = NewFence(c) PROVE OneAhead'
    BY <1>0, <1>3 DEF Reach, OneAhead, Linked, Last
  <2>1. ~stale /\ local[c].seen = disk.fence
    BY <1>0
  <2>2. disk'.fence.head = disk.fence.head /\ disk'.fence.epoch = mine[c].epoch
    BY <2>1 DEF NewFence
  <2>3. mine[c].epoch > disk.fence.epoch
    BY <1>0, <2>1 DEF Bound
  <2>4. mine[c].epoch \in Nat /\ disk.fence.epoch \in Nat
    BY <1>0, <1>1 DEF TypeOK, Locks, Disks, Fences
  <2>5. disk.chain # <<>> => Last(disk.chain).epoch \in Nat
    <3>1. disk.chain \in Seq(Locks)
      BY <1>0 DEF TypeOK, Disks, Envelopes
    <3>2. disk.chain # <<>> => Last(disk.chain) \in Locks
      BY <3>1 DEF Last
    <3> QED
      BY <3>2 DEF Locks
  <2> QED
    BY <1>3, <2>1, <2>2, <2>3, <2>4, <2>5 DEF Reach, OneAhead, Linked, Last
<1> QED
  BY <1>5, <1>6, <1>7 DEF Reach

(* The head becomes the state on disk.                                     *)
LEMMA ReconcileReaches ==
    ASSUME Inductive, Inductive', Reach, NEW c \in Controllers, Reconcile(c), UNCHANGED stale
    PROVE  Reach'
<1> DEFINE first == pc[c] = "begin"
           envelope == IF first THEN disk.chain ELSE local[c].current
           then == IF first THEN "write" ELSE "answer"
           next == [disk EXCEPT !.fence.head = envelope]
<1>0. /\ TypeOK /\ StepOf(c) /\ Bound(c) /\ Relies(c) /\ pc[c] \in {"begin", "advance"}
      /\ mine' = mine
  BY Known, EveryStep DEF Reconcile, Step, Reach
<1>1. envelope = disk.chain
  BY <1>0 DEF Bound
<1>2. /\ next.lock = disk.lock /\ next.chain = disk.chain
      /\ next.released = disk.released /\ next.quarantined = disk.quarantined
      /\ next.fence.lock = disk.fence.lock /\ next.fence.epoch = disk.fence.epoch
      /\ next.fence.head = disk.chain
  BY <1>0, <1>1 DEF TypeOK, Disks, Fences
<1>3. ASSUME disk' = disk, Leave(c, "held") PROVE Reach'
  <2>1. pc'[c] = "held"
    BY <1>0, <1>3 DEF Leave, Goto, Set, TypeOK
  <2>2. Bound(c)'
    BY <1>0, <1>3, <2>1, LooseBound DEF Bound, Working
  <2> QED
    BY <1>0, <1>3, <2>2, QuietReach
<1>4. ASSUME Owns(c), disk' = next, Bound(c)' PROVE Reach'
  <2>1. disk.lock # None /\ disk.lock.owner = c
    BY <1>0, <1>4 DEF Owns, Relies
  <2>2. \A d \in Controllers \ {c} : pc[d] \notin Working
    BY <2>1, OneWriter
  <2>3. \A d \in Controllers : Bound(d)'
    BY <1>0, <1>2, <1>4, <2>2, OtherBound DEF Reach
  <2>4. WriterOnDisk'
    BY <1>2, <1>4 DEF Reach, WriterOnDisk, Last
  <2>5. OneAhead'
    BY <1>2, <1>4 DEF Reach, OneAhead, Last
  <2> QED
    BY <2>3, <2>4, <2>5 DEF Reach
<1>5. ASSUME Owns(c), Goto(c, then), UNCHANGED local, disk' = next PROVE Bound(c)'
  <2>1. pc'[c] = then /\ local'[c] = local[c]
    BY <1>0, <1>5 DEF Goto, Set, TypeOK
  <2>2. CASE first
    BY <1>0, <1>2, <1>5, <2>1, <2>2 DEF Bound, Owns, Working
  <2>3. CASE ~first
    BY <1>0, <1>2, <1>5, <2>1, <2>3 DEF Bound, Owns, Working
  <2> QED
    BY <2>2, <2>3
<1>6. ASSUME Owns(c), Leave(c, "held"), disk' = next PROVE Bound(c)'
  <2>1. pc'[c] = "held"
    BY <1>0, <1>6 DEF Leave, Goto, Set, TypeOK
  <2> QED
    BY <1>0, <1>2, <1>6, <2>1, LooseBound DEF Bound, Working
<1>7. CASE Owns(c) /\ envelope = disk.fence.head /\ Goto(c, then) /\ UNCHANGED <<disk, local>>
  <2>1. disk = next
    BY <1>0, <1>7 DEF TypeOK, Disks, Fences
  <2> QED
    BY <1>4, <1>5, <1>7, <2>1
<1>8. CASE Owns(c) /\ Try(c, next, then)
  BY <1>3, <1>4, <1>5, <1>6, <1>8 DEF Try
<1>9. CASE Leave(c, "held") /\ UNCHANGED disk
  BY <1>3, <1>9
<1> QED
  BY <1>7, <1>8, <1>9 DEF Reconcile

(* A lock is placed where there is none, so nobody else owns one.          *)
LEMMA PlaceLockReaches ==
    ASSUME Inductive, Inductive', Reach, NEW c \in Controllers, PlaceLock(c), UNCHANGED stale
    PROVE  Reach'
<1> DEFINE lock == [owner |-> c, epoch |-> NextEpoch(c)]
           placed == [disk EXCEPT !.lock = lock]
<1>0. TypeOK /\ StepOf(c) /\ Bound(c) /\ Relies(c) /\ pc[c] = "rename" /\ lock # None
  <2>1. lock.epoch > local[c].seen.epoch /\ lock \in Locks
    BY Known DEF NextEpoch, Greater, TypeOK, Locals, Fences, Locks
  <2> QED
    BY <2>1, NoneIsNoLock, Known, EveryStep DEF PlaceLock, Step, Reach
<1>1. /\ placed.lock = lock /\ placed.chain = disk.chain /\ placed.fence = disk.fence
      /\ placed.released = disk.released /\ placed.quarantined = disk.quarantined
  BY <1>0 DEF TypeOK, Disks
<1>2. ASSUME disk' = disk, Abandon(c) PROVE Reach'
  <2>1. pc'[c] = "idle" /\ mine' = mine
    BY <1>0, <1>2 DEF Abandon, Leave, Goto, Set, TypeOK
  <2>2. Bound(c)'
    BY <1>0, <1>2, <2>1, LooseBound DEF Bound, Working
  <2> QED
    BY <1>0, <1>2, <2>2, QuietReach
<1>3. ASSUME disk.lock = None, disk' = placed, Bound(c)' PROVE Reach'
  <2>1. \A d \in Controllers \ {c} : pc[d] \notin Working
    BY <1>3, OneWriter
  <2>2. \A d \in Controllers \ {c} :
          mine[d] = None \/ pc[d] \in {"closed", "dead"}
    BY <1>3 DEF Reach, Bound
  <2>3. \A d \in Controllers : Bound(d)'
    BY <1>0, <1>3, <2>1, <2>2, OtherBound DEF Reach
  <2>4. disk.chain # <<>> => Last(disk.chain) \in Locks
    <3>1. disk.chain \in Seq(Locks)
      BY <1>0 DEF TypeOK, Disks, Envelopes
    <3> QED
      BY <3>1 DEF Last
  <2>5. WriterOnDisk'
    BY <1>1, <1>3, <2>4, NoneIsNoLock DEF Reach, WriterOnDisk, Last
  <2>6. OneAhead'
    BY <1>1, <1>3 DEF Reach, OneAhead, Linked, Last
  <2> QED
    BY <2>3, <2>5, <2>6 DEF Reach
<1>4. CASE disk.lock = None /\ disk' = placed /\ mine' = Set(mine, c, lock)
           /\ Goto(c, "own") /\ UNCHANGED local
  <2>1. pc'[c] = "own" /\ mine'[c] = lock /\ local'[c] = local[c]
    BY <1>0, <1>4 DEF Goto, Set, TypeOK
  <2>2. lock.epoch > local[c].seen.epoch
    BY <1>0 DEF NextEpoch, Greater, TypeOK, Locals, Fences
  <2>3. Bound(c)'
    BY <1>1, <1>4, <2>1, <2>2 DEF Bound, Working
  <2> QED
    BY <1>3, <1>4, <2>3
<1>5. CASE disk.lock = None /\ disk' = placed /\ Abandon(c)
  <2>1. pc'[c] = "idle" /\ mine'[c] = mine[c] /\ mine[c] = None
    BY <1>0, <1>5 DEF Abandon, Leave, Goto, Set, TypeOK, Bound
  <2>2. Bound(c)'
    BY <2>1, LooseBound DEF Working
  <2> QED
    BY <1>3, <1>5, <2>2
<1> QED
  BY <1>2, <1>4, <1>5 DEF PlaceLock

(* A quarantined lock's owner is destroyed, so it was nobody's that goes   *)
(* on, and the writer of the state is still on the volume.                 *)
LEMMA QuarantineReaches ==
    ASSUME Inductive, Inductive', Reach, NEW c \in Controllers, Quarantine(c), UNCHANGED stale
    PROVE  Reach'
<1> DEFINE observed == local[c].observed
           moved == [disk EXCEPT !.lock = None, !.quarantined = @ \cup {observed}]
<1>0. /\ TypeOK /\ StepOf(c) /\ Bound(c) /\ Relies(c) /\ pc[c] = "quarantine"
      /\ mine' = mine /\ observed # None /\ pc[observed.owner] = "dead"
  BY Known, EveryStep DEF Quarantine, Abandon, Step, Reach, Relies, Destroyed
<1>1. /\ moved.lock = None /\ moved.chain = disk.chain /\ moved.fence = disk.fence
      /\ moved.released = disk.released
      /\ moved.quarantined = disk.quarantined \cup {observed}
  BY <1>0 DEF TypeOK, Disks
<1>2. pc'[c] \in {"acquire", "idle"}
  BY <1>0 DEF Quarantine, Abandon, Leave, Goto, Set, TypeOK
<1>3. CASE disk' = disk
  <2>1. Bound(c)'
    BY <1>0, <1>2, <1>3, LooseBound DEF Bound, Working
  <2> QED
    BY <1>0, <1>3, <2>1, QuietReach
<1>4. CASE MayQuarantine(observed) /\ disk' = moved
  <2>1. disk.lock = observed
    BY <1>0, <1>4 DEF MayQuarantine, Relies
  <2>2. \A d \in Controllers :
          mine[d] = None \/ pc[d] \in {"closed", "dead"}
    <3> SUFFICES ASSUME NEW d \in Controllers, mine[d] # None, pc[d] \notin {"closed", "dead"}
                 PROVE  FALSE
      OBVIOUS
    <3>1. mine[d].owner = d /\ disk.lock = mine[d]
      BY Known DEF Reach, Bound
    <3> QED
      BY <1>0, <2>1, <3>1
  <2>3. \A d \in Controllers : pc[d] \notin Working
    <3> SUFFICES ASSUME NEW d \in Controllers, pc[d] \in Working PROVE FALSE
      OBVIOUS
    <3>1. mine[d] # None
      BY Known DEF Relies
    <3> QED
      BY <2>2, <3>1 DEF Working
  <2>4. Bound(c)'
    BY <1>0, <1>2, <2>2, LooseBound DEF Working
  <2>5. \A d \in Controllers : Bound(d)'
    BY <1>0, <2>2, <2>3, <2>4, OtherBound DEF Reach
  <2>6. WriterOnDisk'
    BY <1>1, <1>4, <2>1 DEF Reach, WriterOnDisk, Last
  <2>7. OneAhead'
    BY <1>1, <1>4 DEF Reach, OneAhead, Linked, Last
  <2> QED
    BY <2>5, <2>6, <2>7 DEF Reach
<1> QED
  BY <1>3, <1>4 DEF Quarantine

(* A released lock is its closing owner's.                                 *)
LEMMA CloseReaches ==
    ASSUME Inductive, Inductive', Reach, NEW c \in Controllers, Close(c), UNCHANGED stale
    PROVE  Reach'
<1> DEFINE released == [disk EXCEPT !.lock = None, !.released = @ \cup {mine[c]}]
<1>0. TypeOK /\ StepOf(c) /\ Bound(c) /\ Relies(c) /\ pc[c] \in {"idle", "held"}
  BY Known, EveryStep DEF Close, Step, Reach
<1>1. /\ released.lock = None /\ released.chain = disk.chain
      /\ released.fence = disk.fence
      /\ released.released = disk.released \cup {mine[c]}
      /\ released.quarantined = disk.quarantined
  BY <1>0 DEF TypeOK, Disks
<1>2. pc'[c] = "closed"
  BY <1>0 DEF Close, Goto, Set, TypeOK
<1>3. Bound(c)'
  BY <1>2, LooseBound DEF Working
<1>4. CASE disk' = disk
  BY <1>0, <1>3, <1>4, QuietReach
<1>5. CASE Owns(c) /\ disk' = released
  <2>1. disk.lock = mine[c] /\ mine[c] # None /\ mine[c].owner = c
    BY <1>0, <1>5 DEF Owns, Relies
  <2>2. \A d \in Controllers \ {c} : pc[d] \notin Working
    BY <2>1, OneWriter
  <2>3. \A d \in Controllers \ {c} :
          mine[d] = None \/ pc[d] \in {"closed", "dead"}
    BY <2>1, Known DEF Reach, Bound
  <2>4. \A d \in Controllers : Bound(d)'
    BY <1>0, <1>3, <2>2, <2>3, OtherBound DEF Reach
  <2>5. WriterOnDisk'
    BY <1>1, <1>5, <2>1 DEF Reach, WriterOnDisk, Last
  <2>6. OneAhead'
    BY <1>1, <1>5 DEF Reach, OneAhead, Linked, Last
  <2> QED
    BY <2>4, <2>5, <2>6 DEF Reach
<1> QED
  BY <1>4, <1>5 DEF Close

(* One element more is linked to what was there.                           *)
LEMMA AppendLinks ==
    ASSUME NEW S, NEW s \in Seq(S), NEW e \in S
    PROVE  Linked(s, Append(s, e)) /\ Last(Append(s, e)) = e
<1> DEFINE t == Append(s, e)
<1>1. t \in Seq(S) /\ Len(t) = Len(s) + 1 /\ Len(s) \in Nat /\ t[Len(s) + 1] = e
  OBVIOUS
<1>2. \A i \in 1..Len(s) : t[i] = s[i]
  OBVIOUS
<1>3. SubSeq(t, 1, Len(s)) = s
  <2>1. SubSeq(t, 1, Len(s)) \in Seq(S) /\ Len(SubSeq(t, 1, Len(s))) = Len(s)
    BY <1>1
  <2>2. \A i \in 1..Len(s) : SubSeq(t, 1, Len(s))[i] = t[i]
    BY <1>1
  <2> QED
    BY <1>2, <2>1, <2>2
<1> QED
  BY <1>1, <1>3 DEF Linked, Last

(* A transaction puts one envelope of its own epoch ahead of the head.     *)
LEMMA ReplaceStateReaches ==
    ASSUME Inductive, Inductive', Reach, NEW c \in Controllers, ReplaceState(c),
           UNCHANGED stale
    PROVE  Reach'
<1> DEFINE next == [disk EXCEPT !.chain = local[c].current]
<1>0. /\ TypeOK /\ StepOf(c) /\ Bound(c) /\ Relies(c) /\ pc[c] = "replace" /\ mine' = mine
      /\ Try(c, next, "advance")
  BY Known, EveryStep DEF ReplaceState, Step, Reach
<1>1. /\ next.lock = disk.lock /\ next.chain = local[c].current
      /\ next.fence = disk.fence
      /\ next.released = disk.released /\ next.quarantined = disk.quarantined
  BY <1>0 DEF TypeOK, Disks
<1>2. /\ disk.lock = mine[c] /\ mine[c] # None /\ mine[c].owner = c
      /\ disk.fence.epoch = mine[c].epoch /\ disk.fence.head = disk.chain
      /\ local[c].current = Append(disk.chain, mine[c])
  BY <1>0 DEF Bound, Relies, Working
<1>3. \A d \in Controllers \ {c} : pc[d] \notin Working
  BY <1>2, OneWriter
<1>4. disk.chain \in Seq(Locks) /\ mine[c] \in Locks /\ mine[c].epoch \in Nat
  BY <1>0, <1>2 DEF TypeOK, Disks, Envelopes, Locks
<1>5. Linked(disk.fence.head, local[c].current) /\ Last(local[c].current) = mine[c]
  BY <1>2, <1>4, AppendLinks
<1>6. CASE disk' = disk /\ Leave(c, "held")
  <2>1. pc'[c] = "held"
    BY <1>0, <1>6 DEF Leave, Goto, Set, TypeOK
  <2>2. Bound(c)'
    BY <1>0, <1>2, <1>6, <2>1, LooseBound DEF Working
  <2> QED
    BY <1>0, <1>6, <2>2, QuietReach
<1>7. CASE disk' = next
  <2>1. Bound(c)'
    <3>1. \/ pc'[c] = "held"
          \/ pc'[c] = "advance" /\ local'[c] = local[c]
      BY <1>0 DEF Try, Leave, Goto, Set, TypeOK
    <3>2. CASE pc'[c] = "held"
      BY <1>0, <1>1, <1>2, <1>7, <3>2, LooseBound DEF Working
    <3>3. CASE pc'[c] = "advance" /\ local'[c] = local[c]
      BY <1>0, <1>1, <1>2, <1>7, <3>3 DEF Bound, Working
    <3> QED
      BY <3>1, <3>2, <3>3
  <2>2. \A d \in Controllers : Bound(d)'
    BY <1>0, <1>1, <1>3, <1>7, <2>1, OtherBound DEF Reach
  <2>3. WriterOnDisk'
    BY <1>1, <1>2, <1>5, <1>7 DEF WriterOnDisk, Last
  <2>4. OneAhead'
    <3>1. disk'.chain = local[c].current /\ disk'.fence = disk.fence
      BY <1>1, <1>7
    <3>2. Linked(disk'.fence.head, disk'.chain)
      BY <1>5, <3>1 DEF Linked
    <3>3. Last(disk'.chain).epoch <= disk'.fence.epoch
      BY <1>2, <1>4, <1>5, <3>1 DEF Last
    <3> QED
      BY <3>2, <3>3 DEF OneAhead, Linked, Last
  <2> QED
    BY <2>2, <2>3, <2>4 DEF Reach
<1> QED
  BY <1>0, <1>6, <1>7 DEF Try

(* Every step keeps the state within reach of the fence.                    *)
LEMMA NextReaches == Inductive /\ Inductive' /\ Reach /\ [Next]_vars => Reach'
<1> SUFFICES ASSUME Inductive, Inductive', Reach, [Next]_vars PROVE Reach'
  OBVIOUS
<1>1. ASSUME NEW c \in Controllers, Step(c) PROVE Reach'
  BY <1>1, WriteFenceReaches, QuietReaches, QuarantineReaches, PlaceLockReaches,
     ReconcileReaches, ReplaceStateReaches, CloseReaches
  DEF Step
<1>2. ASSUME NEW c \in Controllers, Crash(c), UNCHANGED stale PROVE Reach'
  BY <1>2, QuietReaches
<1>3. CASE UNCHANGED vars
  BY <1>3 DEF vars, Reach, Bound, WriterOnDisk, OneAhead, Linked, Last
<1> QED
  BY <1>1, <1>2, <1>3 DEF Next

(* Who owns the lock can go on from the state.                             *)
LEMMA ReachSuffices == Inductive /\ Reach => HeadWithinReach
<1> SUFFICES ASSUME Inductive, Reach, NEW c \in Controllers,
                    Owns(c), ~stale, ~Unrecorded, ~HandedOver
             PROVE  Fits(c, disk.chain) /\ (~Pending \/ Adopts(c, disk.chain))
  BY DEF HeadWithinReach
<1>1. Fits(c, disk.chain)
  BY DEF Reach, OneAhead, Fits, Owns
<1>2. CASE Pending
  <2>1. TypeOK /\ disk.chain \in Seq(Locks) /\ disk.fence.head \in Seq(Locks)
    BY Known DEF TypeOK, Disks, Fences, Envelopes
  <2>2. Linked(disk.fence.head, disk.chain)
    BY <1>2 DEF Reach, OneAhead, Pending
  <2>3. disk.chain # <<>>
    BY <2>1, <2>2 DEF Linked
  <2>4. Last(disk.chain) = disk.lock \/ Last(disk.chain) \in disk.quarantined
    BY <1>2, <2>3 DEF Reach, WriterOnDisk, HandedOver
  <2>5. CASE Last(disk.chain) = disk.lock
    BY <1>1, <2>2, <2>5 DEF Owns, Adopts, AuthorizedWriter
  <2>6. CASE Last(disk.chain) \in disk.quarantined
    <3>1. Last(disk.chain).epoch \in Nat /\ disk.fence.authorized \in Nat
      BY <2>1, <2>6 DEF TypeOK, Disks, Fences, Locks
    <3> QED
      BY <1>1, <2>2, <2>6, <3>1 DEF Unrecorded, Adopts, AuthorizedWriter
  <2> QED
    BY <2>4, <2>5, <2>6
<1> QED
  BY <1>1, <1>2

(* Whoever owns the lock of the volume can go on from the state on disk:   *)
(* it is the head its fence names or the one linked envelope it is         *)
(* authorized to adopt, whatever controllers were destroyed between the    *)
(* two writes (mounted-volume-state.ts, reconcileStateHead), except in the *)
(* cases HeadWithinReach names.                                            *)
THEOREM OwnerCanGoOn == Spec => []HeadWithinReach
<1>1. Init => Reach
  BY InitReach
<1>2. Inductive /\ Inductive' /\ Reach /\ [Next]_vars => Reach'
  BY NextReaches
<1>3. Inductive /\ Reach => HeadWithinReach
  BY ReachSuffices
<1> QED
  BY <1>1, <1>2, <1>3, InductiveInvariant, PTL DEF Spec
=============================================================================
