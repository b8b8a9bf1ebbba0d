----------------------------- MODULE EvidenceStore -----------------------------
(***************************************************************************)
(* The evidence store (evidence/store.ts over evidence/atomic.ts): one      *)
(* directory per experiment with its chain of events, its artifacts and at  *)
(* last its attestation, which names the sealed experiment before it.       *)
(*                                                                          *)
(* Every mutation holds a lock file made with an exclusive open.  Nothing   *)
(* ever reclaims one: a process that dies inside leaves it for good.        *)
(***************************************************************************)
EXTENDS Experiments, Sequences, FiniteSetsExt

VARIABLES
    evidence,       \* per experiment: its directory, or None
    leftLocks       \* lock files a dead process left behind

evidenceVars == <<evidence, leftLocks>>

Allocation == 0     \* the store's own lock; an experiment's is its number

Allocated(n) == evidence[n] # None
Events(n) == evidence[n].events
Attested(n) == Allocated(n) /\ evidence[n].attestation # None
Unsealed(n) == Allocated(n) /\ ~Attested(n)
LockFree(l) == l \notin leftLocks

(* createExperiment. *)
MayAllocate(n) == LockFree(Allocation) /\ ~Allocated(n)
Directory == [events |-> <<>>, artifacts |-> FALSE, attestation |-> None]
Allocate(n) == evidence' = [evidence EXCEPT ![n] = Directory]

(* appendEvent. *)
MayMutate(n) == LockFree(n) /\ Unsealed(n)
AppendEvent(n, event) == evidence' = [evidence EXCEPT ![n].events = Append(@, event)]

(* writeArtifact, for the artifacts an experiment must have to be sealed. *)
WriteArtifacts(n) == evidence' = [evidence EXCEPT ![n].artifacts = TRUE]

(* sealExperiment under the lock: the predecessor is looked up, the seal's   *)
(* own event is appended, then the attestation is installed.                 *)
PriorSeal(n) ==
    LET prior == {m \in Numbers : m < n /\ Attested(m)}
    IN  IF prior = {} THEN 0 ELSE Max(prior)
MaySeal(n, previous) == MayMutate(n) /\ evidence[n].artifacts /\ previous = PriorSeal(n)
(* Fault: the attestation names no predecessor. *)
Attest_Unlinked(n, previous) ==
    evidence' = [evidence EXCEPT ![n].attestation = [previous |-> 0]]
Attest(n, previous) ==
    evidence' = [evidence EXCEPT ![n].attestation = [previous |-> previous]]

EvidenceInit == evidence = [n \in Numbers |-> None] /\ leftLocks = {}

(* verifySealLineage: the attestations form one chain in number order. *)
Lineage == \A n \in Numbers : Attested(n) => evidence[n].attestation.previous = PriorSeal(n)
=============================================================================
