------------------------------ MODULE Campaign ------------------------------
(***************************************************************************)
(* What an optimization campaign promises, whatever its runner goes        *)
(* through: experiments finish one at a time and in order; a commit is     *)
(* pushed to the champion ref only on top of the champion, by the          *)
(* experiment in progress, and at most once; the experiment that pushed    *)
(* is the next to finish, and finishing installs its commit; and a cost    *)
(* is charged to the experiment in progress only.                          *)
(*                                                                         *)
(* LocalRunner implements it (src/local/real/runner.ts).                   *)
(***************************************************************************)
EXTENDS Integers, Sequences

CONSTANT Charges   \* the possible ledger entries, records with a field exp

VARIABLES
    champion,   \* the installed revision: 0, or the experiment it came from
    finished,   \* how many experiments are over
    remote,     \* the commits pushed to the champion ref, oldest first
    ledger      \* the entries charged

vars == <<champion, finished, remote, ledger>>

Init ==
    /\ champion = 0
    /\ finished = 0
    /\ remote = <<>>
    /\ ledger = {}

(* The commit that the remote shows; the baseline while there is none. *)
RemoteChampion == IF remote = <<>> THEN 0 ELSE remote[Len(remote)]

(* The experiment in progress. *)
Current == finished + 1

Charge(c) ==
    /\ c.exp = Current
    /\ ledger' = ledger \cup {c}
    /\ UNCHANGED <<champion, finished, remote>>

Push ==
    /\ RemoteChampion = champion
    /\ remote' = Append(remote, Current)
    /\ UNCHANGED <<champion, finished, ledger>>

Complete ==
    /\ finished' = Current
    /\ champion' = RemoteChampion
    /\ UNCHANGED <<remote, ledger>>

Next == Push \/ Complete \/ \E c \in Charges : Charge(c)

Spec == Init /\ [][Next]_vars

---------------------------------------------------------------------------
TypeOK ==
    /\ champion \in Nat
    /\ finished \in Nat
    /\ remote \in Seq(Nat \ {0})
    /\ ledger \subseteq Charges

(* The remote is never more than one commit ahead of the champion, and     *)
(* that commit is the one of the experiment in progress.                   *)
InstalledOrInFlight == champion = RemoteChampion \/ RemoteChampion = Current

=============================================================================
