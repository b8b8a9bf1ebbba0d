-------------------------- MODULE RunnerLock_proofs --------------------------
(***************************************************************************)
(* The runner lock excludes a second runner, for any number of contenders, *)
(* kills, reboots and reused pids, as long as every directory that is      *)
(* taken away is the one its runner had judged or made (~displaced), and   *)
(* nobody is paused between its mkdir and its pid (~paused).  The proof is *)
(* that a judgement, once made of a directory, stays right for as long as  *)
(* that directory is in place.                                             *)
(***************************************************************************)
EXTENDS RunnerLock, FiniteSetTheorems, TLAPS

(* A runner that claims or holds the campaign has the directory it made in *)
(* place, as it left it.                                                   *)
Tenure == Claiming \cup {"running"}
Held(p) ==
    /\ p \in current
    /\ lock # None /\ lock.maker = p /\ ~lock.preboot
    /\ pc[p] \in Claiming => ~lock.aged
    /\ pc[p] \in {"assert", "create"} => lock.owner = None
    /\ pc[p] \in {"fill", "running"} => lock.owner = p
    /\ pc[p] = "running" => lock.written
Tenured == \A p \in Runners : pc[p] \in Tenure => Held(p)

(* What a runner has found out about the directory in place is still true  *)
(* of it.                                                                  *)
Judges(q) ==
    /\ lock # None
    /\ pc[q] \in {"look", "read"} /\ sawAged[q] => pc[lock.maker] \notin Claiming
    /\ pc[q] = "kill" => seen[q] = lock.maker
    /\ pc[q] = "rename" => pc[lock.maker] \notin Tenure
    /\ pc[q] \in Removing => lock.maker = q
Judged == \A q \in current : Judges(q)

(* Nobody writes an owner.json but into its own directory.                 *)
OwnMaker == lock # None => lock.owner \in {None, lock.maker}

Orderly == Tenured /\ Judged /\ OwnMaker

Typed ==
    /\ lock \in Directory \cup {None}
    /\ pc \in [Runners -> Places]
    /\ sawAged \in [Runners -> BOOLEAN]
    /\ seen \in [Runners -> Runners \cup {None}]
    /\ current \subseteq Runners /\ displaced \in BOOLEAN /\ paused \in BOOLEAN

LInv == Typed /\ (Undisturbed => Orderly)

---------------------------------------------------------------------------

(* What a directory is, field by field, and after each change of it.       *)
LEMMA Fields ==
    ASSUME lock \in Directory
    PROVE  /\ lock # None
           /\ lock.maker \in Runners /\ lock.owner \in Runners \cup {None}
           /\ lock.written \in BOOLEAN /\ lock.aged \in BOOLEAN /\ lock.preboot \in BOOLEAN
           /\ [lock EXCEPT !.aged = TRUE] \in Directory
           /\ [lock EXCEPT !.preboot = TRUE] \in Directory
           /\ [lock EXCEPT !.written = TRUE] \in Directory
           /\ [lock EXCEPT !.owner = None, !.written = FALSE, !.aged = FALSE] \in Directory
           /\ \A p \in Runners : [lock EXCEPT !.owner = p, !.aged = FALSE] \in Directory
BY LockAssumption DEF Directory

(* A new directory is one.                                                 *)
LEMMA NewFields ==
    ASSUME NEW p \in Runners
    PROVE  /\ NewDirectory(p) \in Directory /\ NewDirectory(p) # None
           /\ NewDirectory(p).maker = p /\ NewDirectory(p).owner = None
           /\ ~NewDirectory(p).aged /\ ~NewDirectory(p).preboot
<1>1. NewDirectory(p) \in Directory
  BY DEF NewDirectory, Directory
<1> QED BY <1>1, LockAssumption DEF NewDirectory

(* What the end of a process changes.                                      *)
LEMMA Ends ==
    ASSUME Typed, NEW p \in Runners, End(p)
    PROVE  /\ pc' = [pc EXCEPT ![p] = "none"] /\ pc' \in [Runners -> Places]
           /\ sawAged' = [sawAged EXCEPT ![p] = FALSE] /\ sawAged' \in [Runners -> BOOLEAN]
           /\ seen' = [seen EXCEPT ![p] = None] /\ seen' \in [Runners -> Runners \cup {None}]
           /\ current' \subseteq current
           /\ lock' # None => p \notin current' /\ \A q \in current : q # p => q \in current'
           /\ lock' = None => current' = {}
BY DEF Typed, End, Goto, Forget, Places

(* Only p moves.                                                           *)
Moves(p) ==
    /\ \A q \in Runners : q # p => /\ pc'[q] = pc[q]
                                   /\ sawAged'[q] = sawAged[q] /\ seen'[q] = seen[q]
    /\ pc' \in [Runners -> Places] /\ sawAged' \in [Runners -> BOOLEAN]
    /\ seen' \in [Runners -> Runners \cup {None}]
    /\ current' \subseteq current \cup {p}
    /\ \A q \in current : q # p /\ lock' = lock => q \in current'

(* A step of p that leaves the directory as it is leaves the others in the *)
(* right; what p itself claims or has found out is to be shown.            *)
LEMMA Bystanders ==
    ASSUME Typed, Orderly, NEW p \in Runners, Moves(p), lock' = lock,
           pc'[p] \in Tenure => pc[p] \in Tenure /\ Held(p)',
           pc'[p] \in Claiming => pc[p] \in Claiming,
           p \in current' => Judges(p)'
    PROVE  Orderly'
<1>1. \A q \in Runners : q # p /\ pc[q] \in Tenure => Held(q)'
  <2> SUFFICES ASSUME NEW q \in Runners, q # p, pc[q] \in Tenure PROVE Held(q)'
    OBVIOUS
  <2>1. Held(q)
    BY DEF Orderly, Tenured
  <2> QED BY <2>1 DEF Held, Moves
<1>2. Tenured'
  BY <1>1 DEF Tenured, Moves
<1>3. ASSUME NEW q \in current', q # p PROVE Judges(q)'
  <2>1. q \in current /\ q \in Runners
    BY <1>3 DEF Moves, Typed
  <2>2. Judges(q)
    BY <2>1 DEF Orderly, Judged
  <2>3. lock \in Directory /\ lock.maker \in Runners
    BY <2>2, Fields DEF Typed, Judges
  <2>4. /\ pc[lock.maker] \notin Claiming => pc'[lock.maker] \notin Claiming
        /\ pc[lock.maker] \notin Tenure => pc'[lock.maker] \notin Tenure
    BY <2>3 DEF Moves
  <2> QED BY <1>3, <2>1, <2>2, <2>4 DEF Judges, Moves
<1>4. Judged'
  BY <1>3 DEF Judged
<1> QED BY <1>2, <1>4 DEF Orderly, OwnMaker

(* A process that ends leaves the lock as it is, and the others in the     *)
(* right.                                                                  *)
LEMMA EndOrderly ==
    ASSUME Typed, Orderly, NEW p \in Runners, End(p), lock' = lock
    PROVE  Orderly'
<1>1. Moves(p)
  BY Ends DEF Moves, Typed, Orderly, Judged, Judges
<1>2. pc'[p] = "none" /\ p \notin current'
  BY Ends DEF Typed
<1> QED BY <1>1, <1>2, Bystanders DEF Tenure, Claiming

(* So does one that finds the directory in place stale, if nobody is left  *)
(* that claims or holds it.                                                *)
LEMMA StaleOrderly ==
    ASSUME Typed, Orderly, NEW p \in Runners, Stale(p), lock' = lock,
           p \in current => pc[lock.maker] \notin Tenure, pc[p] \notin Tenure
    PROVE  Orderly'
<1>1. /\ pc' = [pc EXCEPT ![p] = "rename"] /\ current' = current
      /\ sawAged' = [sawAged EXCEPT ![p] = FALSE] /\ seen' = [seen EXCEPT ![p] = None]
  BY DEF Stale, Goto, Forget
<1>2. Moves(p)
  BY <1>1 DEF Moves, Typed, Places, Judging
<1>3. ASSUME p \in current' PROVE Judges(p)'
  <2>1. Judges(p) /\ lock # None /\ lock.maker \in Runners
    BY <1>1, <1>3, Fields DEF Orderly, Judged, Judges, Typed
  <2>2. pc'[lock.maker] \notin Tenure
    BY <1>1, <1>3, <2>1 DEF Typed, Tenure, Claiming
  <2>3. pc'[p] = "rename"
    BY <1>1 DEF Typed
  <2> QED BY <2>1, <2>2, <2>3 DEF Judges, Removing
<1>4. pc'[p] = "rename"
  BY <1>1 DEF Typed
<1> QED BY <1>2, <1>3, <1>4, Bystanders DEF Tenure, Claiming

---------------------------------------------------------------------------
(* Judging *)

(* lstat: the age that is seen is that of the directory in place, and a    *)
(* directory that is being claimed is young.                               *)
LEMMA StatOrderly ==
    ASSUME Typed, Orderly, NEW p \in Runners, StatLock(p)
    PROVE  Orderly'
<1>1. CASE lock = None
  BY <1>1, EndOrderly DEF StatLock
<1>2. CASE lock # None
  <2>1. /\ lock' = lock /\ pc' = [pc EXCEPT ![p] = "look"] /\ pc[p] = "stat"
        /\ sawAged' = [sawAged EXCEPT ![p] = lock.aged] /\ seen' = seen
        /\ current' = current \cup {p}
    BY <1>2 DEF StatLock, Goto
  <2>2. lock \in Directory /\ lock.maker \in Runners /\ lock.aged \in BOOLEAN
    BY <1>2, Fields DEF Typed
  <2>3. Moves(p)
    BY <2>1, <2>2 DEF Moves, Typed, Places, Judging
  <2>4. pc'[p] = "look" /\ sawAged'[p] = lock.aged
    BY <2>1 DEF Typed
  <2>5. lock.aged => pc[lock.maker] \notin Claiming
    BY <2>2 DEF Orderly, Tenured, Held, Tenure
  <2>6. pc'[lock.maker] \in Claiming => pc[lock.maker] \in Claiming
    BY <2>1, <2>2 DEF Typed, Claiming
  <2>7. Judges(p)'
    BY <1>2, <2>1, <2>4, <2>5, <2>6 DEF Judges, Removing
  <2> QED BY <2>1, <2>3, <2>4, <2>7, Bystanders DEF Tenure, Claiming
<1> QED BY <1>1, <1>2

(* A directory without a pid that was seen aged is nobody's.               *)
LEMMA AgedAbandoned ==
    ASSUME Typed, Orderly, NEW p \in current, pc[p] \in {"look", "read"}, sawAged[p], ~Readable
    PROVE  pc[lock.maker] \notin Tenure
<1>1. Judges(p) /\ lock # None /\ lock.maker \in Runners
  BY Fields DEF Orderly, Judged, Judges, Typed
<1>2. pc[lock.maker] \notin Claiming
  BY <1>1 DEF Judges
<1>3. pc[lock.maker] # "running"
  <2> SUFFICES ASSUME pc[lock.maker] = "running" PROVE FALSE
    OBVIOUS
  <2>1. Held(lock.maker)
    BY <1>1 DEF Orderly, Tenured, Tenure
  <2> QED BY <1>1, <2>1, LockAssumption DEF Held, Readable, Owned
<1> QED BY <1>2, <1>3 DEF Tenure

(* lstat of owner.json.                                                    *)
LEMMA LookOrderly ==
    ASSUME Typed, Orderly, NEW p \in Runners, LookForOwner(p)
    PROVE  Orderly'
<1>1. pc[p] = "look" /\ lock' = lock
  BY DEF LookForOwner
<1>2. CASE Owned /\ Goto(p, "read") /\ UNCHANGED local
  <2>1. pc' = [pc EXCEPT ![p] = "read"] /\ UNCHANGED <<sawAged, seen, current>>
    BY <1>2 DEF Goto, local
  <2>2. Moves(p) /\ pc'[p] = "read"
    BY <2>1 DEF Moves, Typed, Places, Judging
  <2>3. ASSUME p \in current' PROVE Judges(p)'
    <3>1. Judges(p) /\ lock.maker \in Runners
      BY <2>1, <2>3, Fields DEF Orderly, Judged, Judges, Typed
    <3>2. pc'[lock.maker] \in Claiming => pc[lock.maker] \in Claiming
      BY <2>1, <3>1 DEF Typed, Claiming
    <3> QED BY <1>1, <2>1, <2>2, <3>1, <3>2 DEF Judges, Removing
  <2> QED BY <1>1, <2>2, <2>3, Bystanders DEF Tenure, Claiming
<1>3. CASE ~Owned /\ Verdict(p, sawAged[p])
  <2>1. CASE sawAged[p] /\ Stale(p)
    <3>1. p \in current => pc[lock.maker] \notin Tenure
      BY <1>1, <1>3, <2>1, AgedAbandoned DEF Readable
    <3> QED BY <1>1, <2>1, <3>1, StaleOrderly DEF Tenure, Claiming
  <2>2. CASE End(p)
    BY <1>1, <2>2, EndOrderly
  <2> QED BY <1>3, <2>1, <2>2 DEF Verdict
<1> QED BY <1>2, <1>3 DEF LookForOwner

(* The read of it: the pid is that of the maker of the directory in place. *)
LEMMA ReadOrderly ==
    ASSUME Typed, Orderly, NEW p \in Runners, ReadOwner(p)
    PROVE  Orderly'
<1>1. pc[p] = "read" /\ lock' = lock
  BY DEF ReadOwner
<1>2. CASE ~Readable /\ Verdict(p, sawAged[p])
  <2>1. CASE sawAged[p] /\ Stale(p)
    <3>1. p \in current => pc[lock.maker] \notin Tenure
      BY <1>1, <1>2, <2>1, AgedAbandoned
    <3> QED BY <1>1, <2>1, <3>1, StaleOrderly DEF Tenure, Claiming
  <2>2. CASE End(p)
    BY <1>1, <2>2, EndOrderly
  <2> QED BY <1>2, <2>1, <2>2 DEF Verdict
<1>3. CASE Readable /\ lock.preboot /\ Stale(p)
  <2>1. lock.maker \in Runners
    BY <1>3, Fields DEF Typed, Readable, Owned
  <2>2. pc[lock.maker] \notin Tenure
    BY <1>3, <2>1 DEF Orderly, Tenured, Held
  <2> QED BY <1>1, <1>3, <2>2, StaleOrderly DEF Tenure, Claiming
<1>4. CASE Readable /\ ~lock.preboot /\ Note(p, lock.owner)
  <2>1. /\ pc' = [pc EXCEPT ![p] = "kill"] /\ UNCHANGED <<sawAged, current>>
        /\ seen' = [seen EXCEPT ![p] = lock.owner]
    BY <1>4 DEF Note, Goto
  <2>2. lock # None /\ lock.maker \in Runners /\ lock.owner = lock.maker
    BY <1>4, Fields DEF Typed, Readable, Owned, Orderly, OwnMaker
  <2>3. Moves(p) /\ pc'[p] = "kill" /\ seen'[p] = lock.maker
    BY <2>1, <2>2 DEF Moves, Typed, Places, Judging
  <2>4. Judges(p)'
    BY <1>1, <2>2, <2>3 DEF Judges, Removing
  <2> QED BY <1>1, <2>3, <2>4, Bystanders DEF Tenure, Claiming
<1> QED BY <1>2, <1>3, <1>4 DEF ReadOwner

(* The signal: a process that is gone neither claims nor holds.            *)
LEMMA ProbeOrderly ==
    ASSUME Typed, Orderly, NEW p \in Runners, ProbeOwner(p)
    PROVE  Orderly'
<1>1. pc[p] = "kill" /\ lock' = lock /\ Verdict(p, ~InUse(seen[p]))
  BY DEF ProbeOwner
<1>2. CASE ~InUse(seen[p]) /\ Stale(p)
  <2>1. p \in current => pc[lock.maker] \notin Tenure
    BY <1>1, <1>2 DEF InUse, Alive, Orderly, Judged, Judges, Tenure, Claiming
  <2> QED BY <1>1, <1>2, <2>1, StaleOrderly DEF Tenure, Claiming
<1>3. CASE End(p)
  BY <1>1, <1>3, EndOrderly
<1> QED BY <1>1, <1>2, <1>3 DEF Verdict

---------------------------------------------------------------------------
(* Taking away *)

(* When the directory is gone, nobody may have been claiming or holding it.*)
LEMMA GoneOrderly ==
    ASSUME lock' = None, current' = {},
           \A q \in Runners : pc'[q] \notin Tenure
    PROVE  Orderly'
BY DEF Orderly, Tenured, Judged, OwnMaker

(* Nobody claims or holds the campaign while there is no directory.        *)
LEMMA NoLockNoTenure ==
    ASSUME Orderly, lock = None
    PROVE  current = {} /\ \A q \in Runners : pc[q] \notin Tenure
BY DEF Orderly, Tenured, Held, Judged, Judges

(* Whoever claims or holds it is the maker of the directory in place.      *)
LEMMA MakerAlone ==
    ASSUME Typed, Orderly, pc[lock.maker] \notin Tenure
    PROVE  \A q \in Runners : pc[q] \notin Tenure
BY DEF Orderly, Tenured, Held

(* The rename takes a directory nobody claims or holds.                    *)
LEMMA QuarantineOrderly ==
    ASSUME Typed, Orderly, NEW p \in Runners, Quarantine(p), ~displaced'
    PROVE  Orderly'
<1>1. pc[p] = "rename" /\ lock' = None /\ current' = {} /\ pc' = [pc EXCEPT ![p] = "mkdir"]
  BY DEF Quarantine, Goto
<1>2. \A q \in Runners : pc[q] \notin Tenure
  <2>1. CASE lock = None
    BY <2>1, NoLockNoTenure
  <2>2. CASE lock # None
    <3>1. p \in current
      BY <2>2 DEF Quarantine, Displaces
    <3>2. pc[lock.maker] \notin Tenure
      BY <1>1, <3>1 DEF Orderly, Judged, Judges
    <3> QED BY <3>2, MakerAlone
  <2> QED BY <2>1, <2>2
<1>3. \A q \in Runners : pc'[q] \notin Tenure
  BY <1>1, <1>2 DEF Typed, Tenure, Claiming
<1> QED BY <1>1, <1>3, GoneOrderly

(* A runner that removes a directory that is in place made it, and no      *)
(* longer claims it.                                                       *)
LEMMA RemoverAlone ==
    ASSUME Typed, Orderly, NEW p \in current, pc[p] \in Removing
    PROVE  lock.maker = p /\ \A q \in Runners : pc[q] \notin Tenure
<1>1. lock.maker = p
  BY DEF Orderly, Judged, Judges
<1>2. pc[p] \notin Tenure
  BY DEF Removing, Tenure, Claiming
<1> QED BY <1>1, <1>2, MakerAlone

(* The end of a runner that has removed the directory.                     *)
LEMMA LastStepOrderly ==
    ASSUME Typed, Orderly, NEW p \in current, pc[p] \in Removing, lock' = None, End(p)
    PROVE  Orderly'
<1>1. current' = {} /\ pc' = [pc EXCEPT ![p] = "none"]
  BY Ends DEF Typed
<1>2. \A q \in Runners : pc'[q] \notin Tenure
  BY <1>1, RemoverAlone DEF Typed, Tenure, Claiming
<1> QED BY <1>1, <1>2, GoneOrderly

(* rm, of the file: the directory in place stays its maker's.              *)
LEMMA RemoveOwnerOrderly ==
    ASSUME Typed, Orderly, NEW p \in Runners, RemoveOwner(p), ~displaced'
    PROVE  Orderly'
<1>1. pc[p] = "rm" /\ pc[p] \in Removing
  BY DEF RemoveOwner, Removing
<1>2. CASE lock = None /\ UNCHANGED <<lock, displaced>> /\ End(p)
  BY <1>2, EndOrderly
<1>3. CASE Vacant /\ lock' = None /\ Displaces(p) /\ End(p)
  BY <1>1, <1>3, LastStepOrderly DEF Displaces
<1>4. CASE /\ Owned
           /\ lock' = [lock EXCEPT !.owner = None, !.written = FALSE, !.aged = FALSE]
           /\ Displaces(p)
           /\ Goto(p, "rmdir")
           /\ UNCHANGED local
  <2>1. /\ pc' = [pc EXCEPT ![p] = "rmdir"] /\ UNCHANGED <<sawAged, seen, current>>
        /\ p \in current
    BY <1>4 DEF Goto, Displaces, local
  <2>2. lock.maker = p /\ \A q \in Runners : pc[q] \notin Tenure
    BY <1>1, <2>1, RemoverAlone
  <2>3. lock' # None /\ lock'.maker = p /\ lock'.owner = None
    <3>1. lock \in Directory /\ lock' \in Directory
      BY <1>4, Fields DEF Typed, Owned
    <3> QED BY <1>4, <2>2, <3>1, LockAssumption DEF Directory
  <2>4. \A q \in Runners : pc'[q] \notin Tenure
    BY <2>1, <2>2 DEF Typed, Tenure, Claiming
  <2>5. ASSUME NEW q \in current' PROVE Judges(q)'
    <3>1. Judges(q) /\ q \in Runners /\ p \in Runners
      BY <2>1, <2>5 DEF Orderly, Judged, Typed
    <3>2. q # p => pc'[q] = pc[q] /\ sawAged'[q] = sawAged[q] /\ seen'[q] = seen[q]
      BY <2>1, <3>1
    <3>3. pc'[p] = "rmdir"
      BY <2>1 DEF Typed
    <3>4. CASE q = p
      BY <2>3, <3>3, <3>4 DEF Judges
    <3>5. CASE q # p
      BY <2>2, <2>3, <2>4, <3>1, <3>2, <3>5 DEF Judges, Tenure
    <3> QED BY <3>4, <3>5
  <2> QED BY <2>3, <2>4, <2>5 DEF Orderly, Tenured, Judged, OwnMaker
<1> QED BY <1>2, <1>3, <1>4 DEF RemoveOwner

(* And of the directory.                                                   *)
LEMMA RemoveDirectoryOrderly ==
    ASSUME Typed, Orderly, NEW p \in Runners, RemoveDirectory(p), ~displaced'
    PROVE  Orderly'
<1>1. pc[p] \in Removing /\ End(p)
  BY DEF RemoveDirectory, Removing
<1>2. CASE Vacant
  BY <1>1, <1>2, LastStepOrderly DEF RemoveDirectory, Displaces
<1>3. CASE ~Vacant
  BY <1>1, <1>3, EndOrderly DEF RemoveDirectory
<1> QED BY <1>2, <1>3

---------------------------------------------------------------------------
(* Claiming *)

(* mkdir: whoever makes the directory is the only one that claims it.      *)
LEMMA MakeOrderly ==
    ASSUME Typed, Orderly, NEW p \in Runners, MakeDirectory(p)
    PROVE  Orderly'
<1>1. CASE lock' = lock /\ End(p)
  BY <1>1, EndOrderly
<1>2. CASE /\ lock = None /\ lock' = NewDirectory(p) /\ current' = {p} /\ Goto(p, "assert")
           /\ UNCHANGED <<sawAged, seen>>
  <2>1. pc' = [pc EXCEPT ![p] = "assert"]
    BY <1>2 DEF Goto
  <2>2. \A q \in Runners : pc'[q] \in Tenure => q = p
    BY <1>2, <2>1, NoLockNoTenure DEF Typed
  <2>3. pc'[p] = "assert"
    BY <2>1 DEF Typed
  <2>4. Held(p)'
    BY <1>2, <2>3, NewFields DEF Held
  <2>5. Judges(p)'
    BY <1>2, <2>3, NewFields DEF Judges, Removing
  <2>6. OwnMaker'
    BY <1>2, NewFields DEF OwnMaker
  <2> QED BY <1>2, <2>2, <2>4, <2>5, <2>6 DEF Orderly, Tenured, Judged
<1>3. CASE Goto(p, "stat") /\ lock' = lock /\ UNCHANGED <<sawAged, seen, current>>
  <2>1. pc' = [pc EXCEPT ![p] = "stat"] /\ pc[p] = "mkdir"
    BY <1>3 DEF Goto, MakeDirectory
  <2>2. Moves(p) /\ pc'[p] = "stat"
    BY <1>3, <2>1 DEF Moves, Typed, Places, Judging
  <2>3. p \in current' => Judges(p)'
    BY <1>3, <2>2 DEF Orderly, Judged, Judges, Removing
  <2> QED BY <1>3, <2>2, <2>3, Bystanders DEF Tenure, Claiming
<1> QED BY <1>1, <1>2, <1>3 DEF MakeDirectory, local

(* A runner that claims or holds moves on with the directory in its hands. *)
LEMMA TenureMoves ==
    ASSUME Typed, Orderly, NEW p \in Runners, pc[p] \in Tenure, lock' = lock,
           NEW there \in Places, pc' = [pc EXCEPT ![p] = there], UNCHANGED <<sawAged, seen, current>>,
           there \in Tenure => Held(p)', there \in Claiming => pc[p] \in Claiming,
           there \in Tenure \cup Removing
    PROVE  Orderly'
<1>1. Held(p)
  BY DEF Orderly, Tenured
<1>2. Moves(p) /\ pc'[p] = there
  BY DEF Moves, Typed
<1>3. Judges(p)'
  BY <1>1, <1>2 DEF Held, Judges, Removing, Tenure, Claiming
<1> QED BY <1>2, <1>3, Bystanders

(* The directory that was made is found.                                   *)
LEMMA AssertOrderly ==
    ASSUME Typed, Orderly, NEW p \in Runners, AssertDirectory(p)
    PROVE  Orderly'
<1>1. pc[p] = "assert" /\ lock' = lock /\ pc[p] \in Tenure
  BY DEF AssertDirectory, Tenure, Claiming
<1>2. Held(p)
  BY <1>1 DEF Orderly, Tenured
<1>3. pc' = [pc EXCEPT ![p] = "create"] /\ UNCHANGED <<sawAged, seen, current>>
  BY <1>2 DEF AssertDirectory, Held, Goto, local
<1>4. pc'[p] = "create"
  BY <1>3 DEF Typed
<1>5. Held(p)'
  BY <1>1, <1>2, <1>3, <1>4 DEF Held, Claiming
<1> QED BY <1>1, <1>3, <1>5, TenureMoves DEF Places, Tenure, Claiming

(* The exclusive create succeeds: nobody else creates a file in it.        *)
LEMMA CreateOrderly ==
    ASSUME Typed, Orderly, NEW p \in Runners, CreateOwner(p)
    PROVE  Orderly'
<1>1. pc[p] = "create" /\ pc[p] \in Tenure
  BY DEF CreateOwner, Tenure, Claiming
<1>2. Held(p) /\ lock.owner = None
  BY <1>1 DEF Orderly, Tenured, Held
<1>3. /\ lock' = [lock EXCEPT !.owner = p, !.aged = FALSE]
      /\ pc' = [pc EXCEPT ![p] = "fill"] /\ UNCHANGED <<sawAged, seen, current>>
  BY <1>2 DEF CreateOwner, Vacant, Held, Goto, local
<1>4. /\ lock' # None /\ lock'.maker = p /\ lock'.owner = p /\ ~lock'.aged
      /\ lock'.preboot = lock.preboot
  <2>1. lock \in Directory /\ lock' \in Directory
    BY <1>2, <1>3, Fields DEF Typed, Held
  <2> QED BY <1>2, <1>3, <2>1, LockAssumption DEF Directory, Held
<1>5. pc'[p] = "fill" /\ \A q \in Runners : q # p => pc'[q] = pc[q] /\ pc[q] \notin Tenure
  BY <1>2, <1>3 DEF Typed, Orderly, Tenured, Held
<1>6. Held(p)'
  BY <1>2, <1>3, <1>4, <1>5 DEF Held
<1>7. ASSUME NEW q \in current' PROVE Judges(q)'
  <2>1. Judges(q) /\ q \in Runners
    BY <1>3, <1>7 DEF Orderly, Judged, Typed
  <2>2. CASE q = p
    BY <1>4, <1>5, <2>2 DEF Judges, Removing
  <2>3. CASE q # p
    BY <1>1, <1>2, <1>3, <1>4, <1>5, <2>1, <2>3 DEF Judges, Held, Claiming
  <2> QED BY <2>2, <2>3
<1> QED BY <1>3, <1>4, <1>5, <1>6, <1>7 DEF Orderly, Tenured, Judged, OwnMaker

(* The pid is written, or the directory is to be removed again.            *)
LEMMA FillOrderly ==
    ASSUME Typed, Orderly, NEW p \in Runners, FillOwner(p)
    PROVE  Orderly'
<1>1. pc[p] = "fill" /\ pc[p] \in Tenure
  BY DEF FillOwner, Tenure, Claiming
<1>2. Held(p) /\ lock.owner = p /\ Owned
  BY <1>1, LockAssumption DEF Orderly, Tenured, Held, Owned
<1>3. CASE Goto(p, "rm") /\ UNCHANGED lock
  BY <1>1, <1>3, TenureMoves DEF FillOwner, Goto, local, Places, Removing, Tenure, Claiming
<1>4. CASE Goto(p, "running") /\ lock' = [lock EXCEPT !.written = TRUE]
  <2>1. pc' = [pc EXCEPT ![p] = "running"] /\ UNCHANGED <<sawAged, seen, current>>
    BY <1>4 DEF FillOwner, Goto, local
  <2>2. /\ lock' # None /\ lock'.maker = p /\ lock'.owner = p /\ lock'.written
        /\ lock'.preboot = lock.preboot
    <3>1. lock \in Directory /\ lock' \in Directory
      BY <1>2, <1>4, Fields DEF Typed, Held
    <3> QED BY <1>2, <1>4, <3>1, LockAssumption DEF Directory, Held
  <2>3. pc'[p] = "running" /\ \A q \in Runners : q # p => pc'[q] = pc[q] /\ pc[q] \notin Tenure
    BY <1>2, <2>1 DEF Typed, Orderly, Tenured, Held
  <2>4. Held(p)'
    BY <1>2, <2>1, <2>2, <2>3 DEF Held, Claiming
  <2>5. ASSUME NEW q \in current' PROVE Judges(q)'
    <3>1. Judges(q) /\ q \in Runners
      BY <2>1, <2>5 DEF Orderly, Judged, Typed
    <3>2. CASE q = p
      BY <2>2, <2>3, <3>2 DEF Judges, Removing
    <3>3. CASE q # p
      BY <1>1, <1>2, <2>1, <2>2, <2>3, <3>1, <3>3 DEF Judges, Held, Claiming, Tenure
    <3> QED BY <3>2, <3>3
  <2> QED BY <2>1, <2>2, <2>3, <2>4, <2>5 DEF Orderly, Tenured, Judged, OwnMaker
<1> QED BY <1>2, <1>3, <1>4 DEF FillOwner

(* The holder finds its own name, and turns to removing what it made.      *)
LEMMA CheckOrderly ==
    ASSUME Typed, Orderly, NEW p \in Runners, CheckOwn(p)
    PROVE  Orderly'
<1>1. pc[p] = "running" /\ pc[p] \in Tenure /\ lock' = lock
  BY DEF CheckOwn, Tenure
<1>2. CASE End(p)
  BY <1>1, <1>2, EndOrderly
<1>3. CASE Goto(p, "rm") /\ UNCHANGED local
  BY <1>1, <1>3, TenureMoves DEF Goto, local, Places, Removing, Tenure, Claiming
<1> QED BY <1>2, <1>3 DEF CheckOwn

---------------------------------------------------------------------------
(* The machine *)

(* A process that begins has no part in the lock, whatever it names.       *)
LEMMA BeginOrderly ==
    ASSUME Typed, Orderly, NEW p \in Runners, Begin(p) \/ BeginNamed(p)
    PROVE  Orderly'
<1>1. /\ pc' = [pc EXCEPT ![p] = "mkdir"] /\ lock' = lock
      /\ UNCHANGED <<sawAged, seen, current>>
  BY DEF Begin, BeginNamed, Goto, local
<1>2. Moves(p) /\ pc'[p] = "mkdir"
  BY <1>1 DEF Moves, Typed, Places
<1>3. p \in current' => Judges(p)'
  BY <1>1, <1>2 DEF Orderly, Judged, Judges, Removing
<1> QED BY <1>1, <1>2, <1>3, Bystanders DEF Tenure, Claiming

(* Only a directory that nobody is claiming ages.                          *)
LEMMA AgeOrderly ==
    ASSUME Typed, Orderly, Age
    PROVE  Orderly'
<1>1. /\ lock # None /\ pc[lock.maker] \notin Claiming /\ lock' = [lock EXCEPT !.aged = TRUE]
      /\ UNCHANGED <<pc, sawAged, seen, current>>
  BY DEF Age, local
<1>2. /\ lock' # None /\ lock'.maker = lock.maker /\ lock'.owner = lock.owner
      /\ lock'.written = lock.written /\ lock'.preboot = lock.preboot
  <2>1. lock \in Directory /\ lock' \in Directory
    BY <1>1, Fields DEF Typed
  <2> QED BY <1>1, <2>1, LockAssumption DEF Directory
<1>3. ASSUME NEW q \in Runners, pc[q] \in Tenure PROVE Held(q)'
  <2>1. Held(q)
    BY <1>3 DEF Orderly, Tenured
  <2> QED BY <1>1, <1>2, <2>1 DEF Held
<1>4. Judged'
  BY <1>1, <1>2 DEF Orderly, Judged, Judges
<1> QED BY <1>1, <1>2, <1>3, <1>4 DEF Orderly, Tenured, OwnMaker

(* And only the reading of one.                                            *)
LEMMA AgeReadingOrderly ==
    ASSUME Typed, Orderly, NEW p \in Runners, AgeReading(p)
    PROVE  Typed' /\ Orderly'
<1>1. /\ sawAged' = [sawAged EXCEPT ![p] = TRUE] /\ pc[p] \in {"look", "read"}
      /\ p \in current => pc[lock.maker] \notin Claiming
      /\ UNCHANGED <<lock, pc, seen, current, displaced, paused>>
  BY DEF AgeReading, past
<1>2. Typed' /\ Moves(p)
  BY <1>1 DEF Moves, Typed
<1>3. p \in current' => Judges(p)'
  BY <1>1 DEF Orderly, Judged, Judges, Removing
<1> QED BY <1>1, <1>2, <1>3, Bystanders DEF Tenure, Claiming

(* After a reboot nobody claims, holds or judges anything.                 *)
LEMMA RebootOrderly ==
    ASSUME Typed, Orderly, Reboot
    PROVE  Orderly'
<1>1. pc' = [p \in Runners |-> "none"] /\ current' = {}
  BY DEF Reboot
<1>2. OwnMaker'
  <2>1. CASE lock' = lock
    BY <2>1 DEF Orderly, OwnMaker
  <2>2. CASE lock # None /\ lock' = [lock EXCEPT !.preboot = TRUE]
    <3>1. lock \in Directory
      BY <2>2 DEF Typed
    <3>2. lock'.maker = lock.maker /\ lock'.owner = lock.owner
      BY <2>2, <3>1 DEF Directory
    <3> QED BY <2>2, <3>2 DEF Orderly, OwnMaker
  <2> QED BY <2>1, <2>2 DEF Reboot
<1> QED BY <1>1, <1>2 DEF Orderly, Tenured, Judged, Tenure, Claiming

(* Every step of a runner keeps the types.                                 *)
LEMMA StepTyped ==
    ASSUME Typed, NEW p \in Runners, Step(p)
    PROVE  Typed'
<1> USE DEF Goto, local, past, Places, Judging, Claiming, Removing
<1>1. CASE MakeDirectory(p)
  BY <1>1, NewFields, Ends DEF MakeDirectory, Typed
<1>2. CASE StatLock(p)
  BY <1>2, Fields, Ends DEF StatLock, Typed
<1>3. ASSUME NEW stale \in BOOLEAN, Verdict(p, stale), lock' = lock, UNCHANGED past PROVE Typed'
  BY <1>3, Ends DEF Verdict, Stale, Forget, Typed
<1>4. CASE LookForOwner(p)
  BY <1>3, <1>4 DEF LookForOwner, Typed
<1>5. CASE ReadOwner(p)
  <2>1. CASE ~Readable /\ Verdict(p, sawAged[p])
    BY <1>3, <1>5, <2>1 DEF ReadOwner, Typed
  <2>2. CASE Stale(p)
    BY <1>5, <2>2 DEF ReadOwner, Stale, Forget, Typed
  <2>3. CASE Readable /\ Note(p, lock.owner)
    BY <1>5, <2>3, Fields DEF ReadOwner, Note, Readable, Owned, Typed
  <2> QED BY <1>5, <2>1, <2>2, <2>3 DEF ReadOwner
<1>6. CASE ProbeOwner(p)
  BY <1>6, Ends DEF ProbeOwner, Verdict, Stale, Forget, Typed
<1>7. CASE Quarantine(p)
  BY <1>7 DEF Quarantine, Displaces, Typed
<1>8. CASE AssertDirectory(p)
  BY <1>8, Ends DEF AssertDirectory, Typed
<1>9. CASE CreateOwner(p)
  BY <1>9, Fields DEF CreateOwner, Vacant, Typed
<1>10. CASE FillOwner(p)
  BY <1>10, Fields DEF FillOwner, Owned, Typed
<1>11. CASE CheckOwn(p)
  BY <1>11, Ends DEF CheckOwn, Typed
<1>12. CASE RemoveOwner(p)
  BY <1>12, Ends, Fields DEF RemoveOwner, Displaces, Owned, Typed
<1>13. CASE RemoveDirectory(p)
  BY <1>13, Ends DEF RemoveDirectory, Displaces, Typed
<1> QED BY <1>1, <1>2, <1>4, <1>5, <1>6, <1>7, <1>8, <1>9, <1>10, <1>11, <1>12, <1>13 DEF Step

(* What has been disturbed stays disturbed.                                *)
LEMMA StepPast ==
    ASSUME Typed, NEW p \in Runners, Step(p)
    PROVE  (displaced => displaced') /\ paused' = paused
BY DEF Step, MakeDirectory, StatLock, LookForOwner, ReadOwner, ProbeOwner, Quarantine,
   AssertDirectory, CreateOwner, FillOwner, CheckOwn, RemoveOwner, RemoveDirectory,
   Displaces, past

(* The invariant is inductive.                                             *)
LEMMA LInvNext == LInv /\ [Next]_vars => LInv'
<1> SUFFICES ASSUME LInv, [Next]_vars PROVE LInv'
  OBVIOUS
<1>0. Typed
  BY DEF LInv
<1>1. ASSUME NEW p \in Runners, Step(p) PROVE LInv'
  <2>1. Typed'
    BY <1>0, <1>1, StepTyped
  <2>2. ASSUME Undisturbed' PROVE Orderly'
    <3>1. Orderly /\ ~displaced'
      BY <1>0, <1>1, <2>2, StepPast DEF LInv, Undisturbed
    <3> QED BY <1>0, <1>1, <3>1, MakeOrderly, StatOrderly, LookOrderly, ReadOrderly,
            ProbeOrderly, QuarantineOrderly, AssertOrderly, CreateOrderly, FillOrderly,
            CheckOrderly, RemoveOwnerOrderly, RemoveDirectoryOrderly DEF Step
  <2> QED BY <2>1, <2>2 DEF LInv
<1>2. ASSUME NEW p \in Runners, Begin(p) \/ BeginNamed(p) PROVE LInv'
  BY <1>0, <1>2, BeginOrderly
  DEF LInv, Undisturbed, Begin, BeginNamed, Goto, local, past, Typed, Places
<1>3. ASSUME NEW p \in Runners, Crash(p) PROVE LInv'
  BY <1>0, <1>3, Ends, EndOrderly DEF LInv, Undisturbed, Crash, past, Typed
<1>4. ASSUME NEW p \in Runners, Reuse(p) \/ Free(p) PROVE LInv'
  <2>1. UNCHANGED <<lock, pc, sawAged, seen, current, displaced, paused>>
    BY <1>4 DEF Reuse, Free, local, past
  <2> QED BY <2>1 DEF LInv, Undisturbed, Typed, Orderly, Tenured, Held, Judged, Judges, OwnMaker
<1>5. CASE Age
  <2>1. Typed' /\ UNCHANGED past
    BY <1>0, <1>5, Fields DEF Age, local, past, Typed
  <2> QED BY <1>0, <1>5, <2>1, AgeOrderly DEF LInv, Undisturbed, past
<1>6. CASE Pause
  <2>1. sawAged' \in [Runners -> BOOLEAN]
    BY <1>6 DEF Pause
  <2>2. Typed'
    BY <1>0, <1>6, <2>1, Fields DEF Pause, Typed
  <2> QED BY <1>6, <2>2 DEF Pause, LInv, Undisturbed
<1>7. CASE Reboot
  <2>1. Typed' /\ UNCHANGED past
    BY <1>0, <1>7, Fields DEF Reboot, past, Typed, Places
  <2> QED BY <1>0, <1>7, <2>1, RebootOrderly DEF LInv, Undisturbed, past
<1>8. CASE UNCHANGED vars
  BY <1>8 DEF vars, local, past, LInv, Undisturbed, Typed, Orderly, Tenured, Held, Judged,
     Judges, OwnMaker
<1>9. ASSUME NEW p \in Runners, AgeReading(p) PROVE LInv'
  <2>1. Typed' /\ UNCHANGED past
    BY <1>0, <1>9 DEF AgeReading, past, Typed
  <2> QED BY <1>0, <1>9, <2>1, AgeReadingOrderly DEF LInv, Undisturbed, past
<1> QED BY <1>1, <1>2, <1>3, <1>4, <1>5, <1>6, <1>7, <1>8, <1>9 DEF Next

(* Initially there is no lock and nobody contends.                         *)
LEMMA LInvInit == Init => LInv
BY LockAssumption DEF Init, LInv, Typed, Orderly, Tenured, Judged, OwnMaker, Tenure, Claiming,
   Places

(* Whoever holds the campaign made the directory in place, and only one    *)
(* process did.                                                            *)
LEMMA LInvExcludes == LInv => MutualExclusion /\ HolderNamed
<1> SUFFICES ASSUME Typed, Orderly
             PROVE  /\ Cardinality(Holding) <= 1
                    /\ \A p \in Holding : Readable /\ lock.owner = p
  BY DEF LInv, MutualExclusion, HolderNamed
<1>1. \A p \in Holding : Readable /\ lock.owner = p
  BY LockAssumption DEF Holding, Orderly, Tenured, Tenure, Held, Readable, Owned
<1>2. CASE Holding = {}
  BY <1>1, <1>2, FS_EmptySet
<1>3. CASE Holding # {}
  <2>1. PICK p : p \in Holding
    BY <1>3
  <2>2. Holding = {p}
    BY <1>1, <2>1
  <2>3. Cardinality({p}) = 1
    BY FS_Singleton
  <2>. QED  BY <1>1, <2>2, <2>3
<1> QED BY <1>2, <1>3

(* The rest of the types: a runner that judges has an attempt left.        *)
Counted ==
    /\ attempts \in [Runners -> 0..MaxAttempts] /\ foreign \subseteq Runners
    /\ faults \in 0..MaxFaults
    /\ \A p \in Runners : pc[p] \in Judging => attempts[p] < MaxAttempts

(* A process that ends or judges on keeps its count.                       *)
LEMMA VerdictCounted ==
    ASSUME Typed, Counted, NEW p \in Runners, UNCHANGED world,
           End(p) \/ (Stale(p) /\ pc[p] \in Judging)
    PROVE  Counted'
BY LockAssumption DEF Typed, Counted, End, Stale, Goto, Judging, world

(* No step exceeds a bound.                                                *)
LEMMA CountedNext == Typed /\ Counted /\ [Next]_vars => Counted'
<1> SUFFICES ASSUME Typed, Counted, [Next]_vars PROVE Counted'
  OBVIOUS
<1> USE LockAssumption DEF Goto, Judging
<1>1. ASSUME NEW p \in Runners, Step(p) PROVE Counted'
  <2>1. CASE MakeDirectory(p)
    BY <1>1, <2>1, VerdictCounted DEF MakeDirectory, local, world, Typed, Counted
  <2>2. CASE StatLock(p) \/ LookForOwner(p) \/ ReadOwner(p) \/ ProbeOwner(p)
    BY <1>1, <2>2, VerdictCounted
    DEF StatLock, LookForOwner, ReadOwner, ProbeOwner, Verdict, Note, local, world, Typed, Counted
  <2>3. CASE Quarantine(p)
    BY <2>3 DEF Quarantine, world, Typed, Counted
  <2>4. CASE AssertDirectory(p) \/ CreateOwner(p) \/ FillOwner(p) \/ CheckOwn(p)
    BY <1>1, <2>4, VerdictCounted
    DEF AssertDirectory, CreateOwner, FillOwner, CheckOwn, local, world, Typed, Counted
  <2>5. CASE RemoveOwner(p) \/ RemoveDirectory(p)
    BY <1>1, <2>5, VerdictCounted DEF RemoveOwner, RemoveDirectory, local, world, Typed, Counted
  <2> QED BY <1>1, <2>1, <2>2, <2>3, <2>4, <2>5 DEF Step
<1>2. ASSUME NEW p \in Runners, Begin(p) \/ BeginNamed(p) PROVE Counted'
  BY <1>2 DEF Begin, BeginNamed, Fault, local, world, Typed, Counted
<1>3. ASSUME NEW p \in Runners, Crash(p) PROVE Counted'
  BY <1>3 DEF Crash, Fault, End, Typed, Counted
<1>4. ASSUME NEW p \in Runners, Reuse(p) \/ Free(p) \/ AgeReading(p) PROVE Counted'
  BY <1>4 DEF Reuse, Free, AgeReading, Fault, local, world, Counted
<1>5. CASE Age \/ Pause \/ Reboot
  BY <1>5 DEF Age, Pause, Reboot, Fault, local, world, Counted
<1>6. CASE UNCHANGED vars
  BY <1>6 DEF vars, local, world, Counted
<1> QED BY <1>1, <1>2, <1>3, <1>4, <1>5, <1>6 DEF Next

(* The state of the lock protocol has its type: what is read, counted and  *)
(* remembered of a directory (state.ts:198-305).                           *)
THEOREM TypeCorrect == Spec => []TypeOK
<1>1. Init => Counted
  BY LockAssumption DEF Init, Counted, Judging
<1>2. LInv /\ Counted => TypeOK
  BY DEF LInv, Typed, Counted, TypeOK
<1>3. LInv /\ Counted /\ [Next]_vars => LInv' /\ Counted'
  BY LInvNext, CountedNext DEF LInv
<1>. QED  BY <1>1, <1>2, <1>3, LInvInit, PTL DEF Spec

(* At most one process runs the campaign, however many contend for its     *)
(* lock and whatever is killed, rebooted or reused, until a rename or an   *)
(* rm hits another directory than the one that was judged or made          *)
(* (acquireLocalRealRunnerLock).                                           *)
THEOREM ExclusiveUndisturbed == Spec => []MutualExclusion
<1>1. LInv => MutualExclusion
  BY LInvExcludes
<1>. QED  BY <1>1, LInvInit, LInvNext, PTL DEF Spec

(* Until then the lock on disk names whoever runs, so that nobody judges   *)
(* it stale and its release finds it.                                      *)
THEOREM HolderNamedUndisturbed == Spec => []HolderNamed
<1>1. LInv => HolderNamed
  BY LInvExcludes
<1>. QED  BY <1>1, LInvInit, LInvNext, PTL DEF Spec
====
