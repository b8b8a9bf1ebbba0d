----------------------------- MODULE AtomicStore -----------------------------
(***************************************************************************)
(* What the ports of the cloud control plane take a mounted-volume store   *)
(* for: one document that callers replace by transactions, one after the   *)
(* other.  A document is identified with the chain of envelopes that led   *)
(* to it, as its hash chain does.  A transaction that fails may still have *)
(* taken effect; one that is answered has, and stays.                      *)
(***************************************************************************)
EXTENDS Sequences, Naturals

CONSTANT Writers

VARIABLES
    chain,      \* the committed envelopes, each named by its writer's lock
    answered    \* the chain the last successful caller was told about

vars == <<chain, answered>>

PrefixOf(s, t) ==
    /\ Len(s) <= Len(t)
    /\ \A i \in 1..Len(s) : s[i] = t[i]

Init == chain = <<>> /\ answered = <<>>

(* A transaction replaces the document it has read, and no other.          *)
Commit ==
    /\ Len(chain') = Len(chain) + 1
    /\ PrefixOf(chain, chain')
    /\ chain'[Len(chain')] \in Writers
    /\ UNCHANGED answered

Answer == answered' = chain /\ UNCHANGED chain

Next == Commit \/ Answer

Spec == Init /\ [][Next]_vars

(* No answered transaction is ever lost. *)
AnsweredKept == PrefixOf(answered, chain)
=============================================================================
