------------------------------ MODULE CampaignStore ------------------------------
(***************************************************************************)
(* CampaignStateStore of the autonomous optimizer: a campaign is a chain of *)
(* immutable state files.  Every operation takes the hash of the state its  *)
(* caller read, reads the whole history again under the update lock and     *)
(* appends one state.  A content hash is the position of a state in the     *)
(* chain; an attestation, an authorization or a ledger pointer is a token.  *)
(*                                                                          *)
(* The operations are given as a condition (May...) and the state appended, *)
(* the modules that use the store decide what a refusal does to them.       *)
(* Feedback-dark shadow audits are left out: nothing allocates one.         *)
(***************************************************************************)
EXTENDS Integers, Sequences, FiniteSets

CONSTANTS
    None,           \* null
    Auths,          \* authorization hashes an operator can present
    InitialLimit,   \* budget of the campaign, one dimension for the seven
    InitialFresh    \* fresh validation panels at the start

ASSUME StoreAssumption ==
    /\ InitialLimit \in Nat \ {0}
    /\ InitialFresh \in Nat \ {0}
    /\ None \notin Auths
    /\ None \notin Nat

VARIABLES
    states,         \* the chain of state files, revision i at position i + 1
    lock            \* .update.lock: free between operations, or left by a crash

storeVars == <<states, lock>>

Statuses == {"running", "stop-requested", "stopped", "paused"}

(* The state that opens a campaign (assertInitialCampaignState). *)
InitialState ==
    [ status |-> "running", epoch |-> 0, reason |-> None, pause |-> None,
      resumeAuth |-> None,
      next |-> 1, inFlight |-> None, interrupted |-> 0,
      champion |-> 0, sealed |-> 0, disposition |-> None,
      used |-> 0, acct |-> <<"acct", 0>>,
      limit |-> InitialLimit, limitAuth |-> <<"limit", None>>,
      fresh |-> InitialFresh, generation |-> 0,
      availability |-> <<"genesis", 0>>, replenishAuth |-> None,
      exposure |-> <<"genesis", 0>>, ledger |-> <<"genesis", 0>>,
      recoveryAuth |-> None,
      late |-> FALSE ]

Current == states[Len(states)]

(* A hard budget is exhausted: usage has reached the limit. *)
Exhausted(s) == s.used >= s.limit

(* A one-use hash that some state of the history already carries. *)
Consumed(field, value) == \E i \in DOMAIN states : states[i][field] = value

----------------------------------------------------------------------------
(* The operations. *)

MayAllocate == /\ Current.status = "running"
               /\ Current.inFlight = None
               /\ ~Exhausted(Current)
               /\ Current.fresh > 0
Allocated == [Current EXCEPT !.next = @ + 1, !.inFlight = Current.next]

MayRecordUsage(usage, token) == /\ ~Consumed("acct", token)
                                /\ usage \in Current.used .. Current.limit
UsageRecorded(usage, token) == [Current EXCEPT !.used = usage, !.acct = token]

MayExtend(limit, auth) == /\ ~Consumed("limitAuth", <<"limit", auth>>)
                          /\ limit > Current.limit
Extended(limit, auth) ==
    [Current EXCEPT !.limit = limit, !.limitAuth = <<"limit", auth>>]

MayReplenish(auth) == /\ ~Consumed("replenishAuth", auth)
                      /\ Current.inFlight = None
                      /\ Current.status # "running"
Replenished(auth) ==
    [Current EXCEPT !.fresh = @ + 1, !.generation = @ + 1,
                 !.availability = <<"replenish", Current.generation + 1>>,
                 !.replenishAuth = auth]

MayCheckpoint(token) == token # Current.ledger
Checkpointed(token) == [Current EXCEPT !.ledger = token]

(* A sealed decision carries the time of the journal's decision, which must *)
(* not precede the state it extends: "late" says the head was written after *)
(* that decision.                                                           *)
MaySeal(n, stage, disposition, candidate) ==
    /\ Current.inFlight = n
    /\ Current.sealed # n
    /\ stage = "pre-validation" => disposition \in {"rejected", "inconclusive"}
    /\ (disposition = "promoted") = (candidate # None)
    /\ stage = "validation" => Current.fresh > 0
    /\ ~Current.late

Sealed(n, stage, disposition, candidate) ==
    [Current EXCEPT
        !.inFlight = None, !.sealed = n, !.disposition = disposition,
        !.champion = IF disposition = "promoted" THEN candidate ELSE @,
        !.fresh = IF stage = "validation" THEN @ - 1 ELSE @,
        !.availability = IF stage = "validation" THEN <<"seal", n>> ELSE @,
        !.exposure = <<"seal", n>>, !.ledger = <<"seal", n>>,
        !.late = FALSE]

MayArchive(n, exposure) == /\ Current.inFlight = n
                           /\ Current.exposure # exposure

(* Fault: the interrupted pointer does not advance. *)
Archived_Unnamed(n, exposure) ==
    [Current EXCEPT !.inFlight = None, !.exposure = exposure, !.late = FALSE]

Archived(n, exposure) ==
    [Current EXCEPT !.inFlight = None, !.interrupted = n,
                 !.exposure = exposure, !.late = FALSE]

MayRequestStop == Current.status \notin {"stop-requested", "stopped"}
StopRequested(reason) ==
    [Current EXCEPT !.status = "stop-requested", !.reason = reason, !.pause = None]

MayAcknowledge == /\ Current.status = "stop-requested"
                  /\ Current.inFlight = None
Acknowledged == [Current EXCEPT !.status = "stopped"]

(* Fault: a pause attestation may be used again. *)
MayPause_Again(token) == /\ Current.status = "running"
                         /\ Current.inFlight = None

MayPause(token) == /\ Current.status = "running"
                   /\ Current.inFlight = None
                   /\ ~Consumed("pause", token)
Paused(token) == [Current EXCEPT !.status = "paused", !.pause = token]

MayResume(auth) == /\ Current.status \in {"stopped", "paused"}
                   /\ Current.inFlight = None
                   /\ ~Exhausted(Current)
                   /\ Current.fresh > 0
                   /\ ~Consumed("resumeAuth", auth)
Resumed(auth) ==
    [Current EXCEPT !.status = "running", !.epoch = @ + 1, !.reason = None,
                 !.pause = None, !.resumeAuth = auth]

(* recoverAbandonedLock: the lock a crash left behind is moved aside and the *)
(* authorization is recorded, once.                                          *)
MayRecover(auth) == /\ lock = "abandoned"
                    /\ ~Consumed("recoveryAuth", auth)
Recovered(auth) == [Current EXCEPT !.recoveryAuth = auth]

----------------------------------------------------------------------------
(* Compare and swap: the caller's hash must be the head's.  The transition   *)
(* check of the code is LawfulTransition below; it is not a guard here, the  *)
(* property HistoryReadable shows that it refuses nothing an operation       *)
(* accepts.                                                                  *)
CanSwap(expected, may) == lock = "free" /\ expected = Len(states) /\ may

Append1(s, late) == states' = Append(states, [s EXCEPT !.late = late])

StoreInit == states = <<InitialState>> /\ lock = "free"

----------------------------------------------------------------------------
(* assertCampaignStateTransition, one operator per section of the state.     *)

ControlLawful(p, q) ==
    LET allowed == [s \in Statuses |->
            CASE s = "running"        -> {"running", "stop-requested", "paused"}
              [] s = "stop-requested" -> {"stop-requested", "stopped"}
              [] s = "stopped"        -> {"stopped", "running"}
              [] s = "paused"         -> {"paused", "stop-requested", "running"}]
        resumed == q.status = "running" /\ p.status \in {"stopped", "paused"}
    IN  /\ q.status \in allowed[p.status]
        /\ q.epoch = IF resumed THEN p.epoch + 1 ELSE p.epoch
        /\ resumed => q.resumeAuth \notin {None, p.resumeAuth}
        /\ ~resumed => q.resumeAuth = p.resumeAuth
        /\ p.status = "stop-requested" => q.reason = p.reason
        /\ p.status = "paused" /\ q.status = "paused" => q.pause = p.pause

NumberingLawful(p, q) ==
    LET allocated == q.next = p.next + 1
    IN  /\ q.next \in {p.next, p.next + 1}
        /\ allocated => p.inFlight = None /\ q.inFlight = p.next
        /\ ~allocated => q.inFlight \in {p.inFlight, None}
        /\ q.interrupted >= p.interrupted
        /\ q.interrupted > p.interrupted =>
              q.interrupted = p.inFlight /\ q.inFlight = None
        /\ p.inFlight # None /\ q.inFlight = None =>
              p.inFlight \in {q.interrupted, q.sealed}
        /\ q.status = "stopped" => q.inFlight = None

ChampionLawful(p, q) ==
    /\ q.champion >= p.champion
    /\ q.champion > p.champion =>
          /\ q.sealed = q.champion /\ q.sealed > p.sealed
          /\ q.fresh = p.fresh - 1

BudgetLawful(p, q) ==
    /\ q.used >= p.used /\ q.used <= q.limit /\ q.limit >= p.limit
    /\ (q.limit # p.limit) = (q.limitAuth # p.limitAuth)
    /\ (q.used # p.used) = (q.acct # p.acct)

HoldoutLawful(p, q) ==
    /\ q.generation \in {p.generation, p.generation + 1}
    /\ (q.generation > p.generation) = (q.fresh > p.fresh)
    /\ (q.generation > p.generation) = (q.replenishAuth # p.replenishAuth)
    /\ (<<q.fresh, q.generation>> # <<p.fresh, p.generation>>)
          = (q.availability # p.availability)

(* The seal pointer advances only to the experiment that was in flight, with *)
(* the panel its stage consumes and a decision not older than the state it   *)
(* extends; nothing is both sealed and interrupted.                          *)
ReconstructionLawful(p, q) ==
    /\ q.sealed >= p.sealed
    /\ q.sealed > p.sealed =>
          /\ q.sealed = p.inFlight /\ q.inFlight = None
          /\ q.interrupted = p.interrupted
          /\ ~p.late
          /\ q.fresh \in {p.fresh, p.fresh - 1}
          /\ (q.disposition = "promoted") = (q.champion > p.champion)
    /\ q.sealed = p.sealed => q.disposition = p.disposition
    /\ q.interrupted > p.interrupted => q.exposure # p.exposure
    /\ p.recoveryAuth # None => q.recoveryAuth # None

LawfulTransition(p, q) ==
    /\ ControlLawful(p, q)
    /\ NumberingLawful(p, q)
    /\ ChampionLawful(p, q)
    /\ BudgetLawful(p, q)
    /\ HoldoutLawful(p, q)
    /\ ReconstructionLawful(p, q)

(* assertHistoryWideUniqueness: a hash that enters the history (with the     *)
(* first state, or where a state changes it) never enters it again.          *)
OneUseFields == {"resumeAuth", "pause", "limitAuth", "acct", "replenishAuth",
                 "availability", "recoveryAuth", "exposure", "ledger"}
Enters(h, f) == {i \in DOMAIN h : /\ h[i][f] # None
                                  /\ i > 1 => h[i][f] # h[i - 1][f]}
NoReuse(h) == \A f \in OneUseFields :
                 \A i, j \in Enters(h, f) : h[i][f] = h[j][f] => i = j

(* validateHistory, which every read and every write of the store runs.      *)
ValidHistory(h) == /\ h[1] = InitialState
                   /\ NoReuse(h)
                   /\ \A i \in 2 .. Len(h) : LawfulTransition(h[i - 1], h[i])
=============================================================================
