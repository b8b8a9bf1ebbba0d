----------------------------- MODULE RunnerLock -----------------------------
(***************************************************************************)
(* The runner lock of a campaign (src/local/real/state.ts,                 *)
(* acquireLocalRealRunnerLock and localRealRunnerLockIsStale): a directory *)
(* made by mkdir, with an owner.json inside.  LocalRunner takes the lock   *)
(* as held; this module is what holds it.                                  *)
(*                                                                         *)
(* An action is one file-system call of one process, or one signal; the    *)
(* recursive rm is two, for the file and for the directory.  Time is       *)
(* abstract: a directory is "aged" thirty seconds after an entry of it     *)
(* came or went, and a lock is "preboot" once it is older than the boot.   *)
(***************************************************************************)
EXTENDS Naturals, FiniteSets

CONSTANTS
    None,         \* no directory; no owner.json in it; no pid read
    Runners,      \* the pids the runners of the campaign can have
    MaxAttempts,  \* the attempts of the acquisition loop (4 in the code)
    MaxFaults     \* bound: runners killed or paused before owner.json is written,
                  \* reboots, pids given to an unrelated process, or to a new
                  \* runner while the lock names them

(* maker is the process that made the directory, owner the one that        *)
(* created the owner.json in it, written whether the pid is in it yet.     *)
Directory == [maker : Runners, owner : Runners \cup {None}, written : BOOLEAN,
              aged : BOOLEAN, preboot : BOOLEAN]

ASSUME LockAssumption ==
    /\ None \notin Runners \cup Directory
    /\ MaxAttempts \in Nat \ {0}
    /\ MaxFaults \in Nat

VARIABLES
    lock,      \* the directory .runner.lock, or None
    pc,        \* where the runner of each pid is
    sawAged,   \* whether the directory it looked at is aged
    seen,      \* the pid it has read in owner.json
    attempts,  \* how often it has gone round the loop
    foreign,   \* the pids that are unrelated processes
    faults,    \* faults still to come
    current,   \* history: the runners whose directory, the one they made or
               \* looked at last, is the one in place
    displaced, \* history: a rename or an rm has hit a directory other than
               \* the one its runner had looked at or made
    paused     \* history: a runner was paused for thirty seconds between its
               \* mkdir and the pid in its owner.json

local == <<sawAged, seen, attempts, current>>
past == <<displaced, paused>>
world == <<foreign, faults>>
vars == <<lock, pc, local, past, world>>

Judging == {"stat", "look", "read", "kill", "rename"}
Claiming == {"assert", "create", "fill"}
Removing == {"rm", "rmdir"}
Places == {"none", "mkdir", "running"} \cup Judging \cup Claiming \cup Removing

Init ==
    /\ lock = None
    /\ pc = [p \in Runners |-> "none"]
    /\ sawAged = [p \in Runners |-> FALSE]
    /\ seen = [p \in Runners |-> None]
    /\ attempts = [p \in Runners |-> 0]
    /\ foreign = {} /\ faults = MaxFaults
    /\ current = {} /\ displaced = FALSE /\ paused = FALSE

Goto(p, there) == pc' = [pc EXCEPT ![p] = there]
Fault == faults > 0 /\ faults' = faults - 1

NewDirectory(p) == [maker |-> p, owner |-> None, written |-> FALSE,
                    aged |-> FALSE, preboot |-> FALSE]

Owned == lock # None /\ lock.owner # None
Vacant == lock # None /\ lock.owner = None
Readable == Owned /\ lock.written

Alive(p) == pc[p] # "none"

(* What process.kill(pid, 0) finds.                                        *)
InUse(p) == Alive(p) \/ p \in foreign

Forget(p) == /\ sawAged' = [sawAged EXCEPT ![p] = FALSE]
             /\ seen' = [seen EXCEPT ![p] = None]

(* The process ends: the run is over, the acquisition threw, or a kill.    *)
End(p) == /\ Goto(p, "none") /\ Forget(p)
          /\ attempts' = [attempts EXCEPT ![p] = 0]
          /\ current' = IF lock' = None THEN {} ELSE current \ {p}

(* A runner is started, by the operator or the watchdog.                   *)
Begin(p) ==
    /\ ~InUse(p) /\ ~(Owned /\ lock.owner = p)
    /\ Goto(p, "mkdir")
    /\ UNCHANGED <<lock, local, past, world>>

(* By coincidence it is given the pid that an old lock names.              *)
BeginNamed(p) ==
    /\ ~InUse(p) /\ Owned /\ lock.owner = p
    /\ Fault
    /\ Goto(p, "mkdir")
    /\ UNCHANGED <<lock, local, past, foreign>>

(* Fault: mkdir succeeds on a directory that exists.                       *)
MakeDirectory_Recursive(p) ==
    /\ pc[p] = "mkdir" /\ attempts[p] < MaxAttempts
    /\ lock' = IF lock = None THEN NewDirectory(p) ELSE lock
    /\ current' = current \cup {p}
    /\ Goto(p, "assert")
    /\ UNCHANGED <<sawAged, seen, attempts, past, world>>

MakeDirectory(p) ==
    /\ pc[p] = "mkdir"
    /\ \/ /\ attempts[p] = MaxAttempts
          /\ UNCHANGED lock
          /\ End(p)
       \/ /\ attempts[p] < MaxAttempts /\ lock = None
          /\ lock' = NewDirectory(p)
          /\ current' = {p}
          /\ Goto(p, "assert")
          /\ UNCHANGED <<sawAged, seen, attempts>>
       \/ /\ attempts[p] < MaxAttempts /\ lock # None
          /\ Goto(p, "stat")
          /\ UNCHANGED <<lock, local>>
    /\ UNCHANGED <<past, world>>

---------------------------------------------------------------------------
(* localRealRunnerLockIsStale *)

(* The directory may be gone by now: that error is not caught.             *)
StatLock(p) ==
    /\ pc[p] = "stat"
    /\ UNCHANGED lock
    /\ \/ lock = None /\ End(p)
       \/ /\ lock # None
          /\ sawAged' = [sawAged EXCEPT ![p] = lock.aged]
          /\ current' = current \cup {p}
          /\ Goto(p, "look")
          /\ UNCHANGED <<seen, attempts>>
    /\ UNCHANGED <<past, world>>

(* A lock that is not stale has an owner, and the acquisition throws.      *)
Stale(p) == Goto(p, "rename") /\ Forget(p) /\ UNCHANGED <<attempts, current>>
Verdict(p, stale) == (stale /\ Stale(p)) \/ (~stale /\ End(p))

(* Without an owner.json the age that lstat told decides.              *)
LookForOwner(p) ==
    /\ pc[p] = "look"
    /\ UNCHANGED lock
    /\ \/ Owned /\ Goto(p, "read") /\ UNCHANGED local
       \/ ~Owned /\ Verdict(p, sawAged[p])
    /\ UNCHANGED <<past, world>>

Note(p, owner) == /\ seen' = [seen EXCEPT ![p] = owner]
                  /\ Goto(p, "kill")
                  /\ UNCHANGED <<sawAged, attempts, current>>

(* Fault: a file without a pid makes the lock stale at once.               *)
ReadOwner_Impatient(p) ==
    /\ pc[p] = "read"
    /\ UNCHANGED lock
    /\ \/ ~Readable /\ Stale(p)
       \/ Readable /\ lock.preboot /\ Stale(p)
       \/ Readable /\ ~lock.preboot /\ Note(p, lock.owner)
    /\ UNCHANGED <<past, world>>

(* Fault: the time of the boot is not looked at.                           *)
ReadOwner_Bootless(p) ==
    /\ pc[p] = "read"
    /\ UNCHANGED lock
    /\ \/ ~Readable /\ Verdict(p, sawAged[p])
       \/ Readable /\ Note(p, lock.owner)
    /\ UNCHANGED <<past, world>>

(* So it does if the file is gone or empty by now.                         *)
ReadOwner(p) ==
    /\ pc[p] = "read"
    /\ UNCHANGED lock
    /\ \/ ~Readable /\ Verdict(p, sawAged[p])
       \/ Readable /\ lock.preboot /\ Stale(p)
       \/ Readable /\ ~lock.preboot /\ Note(p, lock.owner)
    /\ UNCHANGED <<past, world>>

(* process.kill of the pid that was read.                                  *)
ProbeOwner(p) ==
    /\ pc[p] = "kill"
    /\ UNCHANGED lock
    /\ Verdict(p, ~InUse(seen[p]))
    /\ UNCHANGED <<past, world>>

(* p takes away what has the name by now, or an entry of it.               *)
Displaces(p) == displaced' = (displaced \/ p \notin current)

Quarantine(p) ==
    /\ pc[p] = "rename"
    /\ IF lock = None THEN UNCHANGED displaced ELSE Displaces(p)
    /\ lock' = None
    /\ current' = {}
    /\ attempts' = [attempts EXCEPT ![p] = @ + 1]
    /\ Goto(p, "mkdir")
    /\ UNCHANGED <<sawAged, seen, paused, world>>

---------------------------------------------------------------------------
(* Owning and releasing *)

(* assertRealDirectory is outside the try: nothing is cleaned up.          *)
AssertDirectory(p) ==
    /\ pc[p] = "assert"
    /\ UNCHANGED lock
    /\ \/ lock = None /\ End(p)
       \/ lock # None /\ Goto(p, "create") /\ UNCHANGED local
    /\ UNCHANGED <<past, world>>

(* The exclusive create of owner.json in the directory of that name.       *)
CreateOwner(p) ==
    /\ pc[p] = "create"
    /\ \/ /\ Vacant
          /\ lock' = [lock EXCEPT !.owner = p, !.aged = FALSE]
          /\ Goto(p, "fill")
       \/ ~Vacant /\ Goto(p, "rm") /\ UNCHANGED lock
    /\ UNCHANGED <<local, past, world>>

(* The pid goes into the file that was created, wherever that is by now;   *)
(* the write may fail.                                                     *)
FillOwner(p) ==
    /\ pc[p] = "fill"
    /\ \/ /\ Goto(p, "running")
          /\ IF Owned /\ lock.owner = p THEN lock' = [lock EXCEPT !.written = TRUE]
                                        ELSE UNCHANGED lock
       \/ Goto(p, "rm") /\ UNCHANGED lock
    /\ UNCHANGED <<local, past, world>>

(* The run is over.  Only the owner.json of its own acquisition is removed. *)
CheckOwn(p) ==
    /\ pc[p] = "running"
    /\ UNCHANGED lock
    /\ \/ Readable /\ lock.owner = p /\ Goto(p, "rm") /\ UNCHANGED local
       \/ ~(Readable /\ lock.owner = p) /\ End(p)
    /\ UNCHANGED <<past, world>>

(* The rm of a release, or of an owner.json that could not be written:     *)
(* recursive and forced.  A directory without an owner.json is removed at  *)
(* once, otherwise the file first.                                         *)
RemoveOwner(p) ==
    /\ pc[p] = "rm"
    /\ \/ lock = None /\ UNCHANGED <<lock, displaced>> /\ End(p)
       \/ Vacant /\ lock' = None /\ Displaces(p) /\ End(p)
       \/ /\ Owned
          /\ lock' = [lock EXCEPT !.owner = None, !.written = FALSE, !.aged = FALSE]
          /\ Displaces(p)
          /\ Goto(p, "rmdir")
          /\ UNCHANGED local
    /\ UNCHANGED <<paused, world>>

(* Then the directory.  If it has an owner.json again, rm fails.           *)
RemoveDirectory(p) ==
    /\ pc[p] = "rmdir"
    /\ IF Vacant THEN lock' = None /\ Displaces(p) ELSE UNCHANGED <<lock, displaced>>
    /\ End(p)
    /\ UNCHANGED <<paused, world>>

---------------------------------------------------------------------------
(* The machine *)

Crash(p) ==
    /\ Alive(p)
    /\ Fault
    /\ UNCHANGED lock
    /\ End(p)
    /\ UNCHANGED <<past, foreign>>

(* Thirty seconds have passed since an entry of the directory changed.     *)
Age ==
    /\ lock # None /\ ~lock.aged /\ pc[lock.maker] \notin Claiming
    /\ lock' = [lock EXCEPT !.aged = TRUE]
    /\ UNCHANGED <<pc, local, past, world>>

(* Or since it did when p looked at it: p subtracts the time it was told   *)
(* from the time at which it decides.                                      *)
AgeReading(p) ==
    /\ pc[p] \in {"look", "read"} /\ ~sawAged[p]
    /\ p \in current => pc[lock.maker] \notin Claiming
    /\ sawAged' = [sawAged EXCEPT ![p] = TRUE]
    /\ UNCHANGED <<lock, pc, seen, attempts, current, past, world>>

(* They have passed, and the runner that made the directory has yet to     *)
(* write its pid.                                                          *)
Pause ==
    /\ lock # None /\ pc[lock.maker] \in Claiming
    /\ Fault
    /\ lock' = [lock EXCEPT !.aged = TRUE]
    /\ sawAged' = [p \in Runners |-> pc[p] \in {"look", "read"}]
    /\ paused' = TRUE
    /\ UNCHANGED <<pc, seen, attempts, current, displaced, foreign>>

(* Every process ends.  The lock predates the boot, unless it was taken    *)
(* in the five seconds before.                                             *)
Reboot ==
    /\ Fault
    /\ pc' = [p \in Runners |-> "none"]
    /\ sawAged' = [p \in Runners |-> FALSE]
    /\ seen' = [p \in Runners |-> None]
    /\ attempts' = [p \in Runners |-> 0]
    /\ foreign' = {}
    /\ \/ UNCHANGED lock
       \/ lock # None /\ lock' = [lock EXCEPT !.preboot = TRUE]
    /\ current' = {}
    /\ UNCHANGED past

(* The pid of a process that has ended is given to an unrelated one.       *)
Reuse(p) ==
    /\ ~InUse(p)
    /\ Fault
    /\ foreign' = foreign \cup {p}
    /\ UNCHANGED <<lock, pc, local, past>>

Free(p) ==
    /\ p \in foreign
    /\ foreign' = foreign \ {p}
    /\ UNCHANGED <<lock, pc, local, past, faults>>

Step(p) ==
    \/ MakeDirectory(p) \/ StatLock(p) \/ LookForOwner(p) \/ ReadOwner(p) \/ ProbeOwner(p)
    \/ Quarantine(p) \/ AssertDirectory(p) \/ CreateOwner(p) \/ FillOwner(p)
    \/ CheckOwn(p) \/ RemoveOwner(p) \/ RemoveDirectory(p)

Next ==
    \/ \E p \in Runners : \/ Begin(p) \/ BeginNamed(p) \/ Step(p)
                          \/ AgeReading(p) \/ Crash(p) \/ Reuse(p) \/ Free(p)
    \/ Age \/ Pause \/ Reboot

Spec == Init /\ [][Next]_vars

(* A runner that has begun takes its steps, time passes, and the operator  *)
(* or the watchdog starts the campaign again, under some free pid.         *)
FairSpec ==
    /\ Spec
    /\ \A p \in Runners : WF_vars(Step(p)) /\ SF_vars(Begin(p))
    /\ WF_vars(Age)

---------------------------------------------------------------------------
(* Properties *)

TypeOK ==
    /\ lock \in Directory \cup {None}
    /\ pc \in [Runners -> Places]
    /\ sawAged \in [Runners -> BOOLEAN]
    /\ seen \in [Runners -> Runners \cup {None}]
    /\ attempts \in [Runners -> 0..MaxAttempts]
    /\ foreign \subseteq Runners /\ faults \in 0..MaxFaults
    /\ current \subseteq Runners /\ displaced \in BOOLEAN /\ paused \in BOOLEAN

Holding == {p \in Runners : pc[p] = "running"}

(* Every directory that was taken away was the one its runner had judged   *)
(* or made, and no runner was paused for thirty seconds before its pid was *)
(* written.  The code enforces neither: rename and rm go by the name.      *)
Undisturbed == ~displaced /\ ~paused

(* At most one process runs the campaign: acquisition excludes a second    *)
(* owner ("already owned by another runner", state.ts:212), through kills, *)
(* reboots and reused pids, as long as the history is undisturbed.         *)
MutualExclusion == Undisturbed => Cardinality(Holding) <= 1

(* While a runner runs, the lock on disk names it, so that nobody judges   *)
(* it stale and its own release will find it.                              *)
HolderNamed == Undisturbed => \A p \in Holding : Readable /\ lock.owner = p

(* The lock is in place and nobody is left that would remove it.           *)
AtWork == Claiming \cup {"running"} \cup Removing
Abandoned == /\ lock # None
             /\ pc[lock.maker] \notin AtWork
             /\ Owned => pc[lock.owner] \notin AtWork

(* Its pid is another process by now, and the boot does not tell.          *)
Kept == Abandoned /\ Readable /\ ~lock.preboot /\ InUse(lock.owner)

(* The lock of a runner that is gone does not keep the campaign from ever  *)
(* running again, unless its pid is in use again for good.                 *)
StaleLockReclaimed == []<>~Abandoned \/ <>[]Kept

=============================================================================
