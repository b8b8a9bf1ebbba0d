--------------------------- MODULE ComparisonGate ---------------------------
(***************************************************************************)
(* When a panel is worth an experiment, and when a candidate wins it:      *)
(* assessLocalChampionPanel (src/local/real/panel.ts) and                  *)
(* decideLocalRealComparison (src/local/real/decision.ts).                 *)
(*                                                                         *)
(* Each arm runs the five tasks of the panel three times, and a run is     *)
(* rewarded 0 or 1, so that an arm is the number of rewarded runs of each  *)
(* task.  The thresholds on means, which the code computes in floating     *)
(* point, are inequalities of integers here; none of them is met with      *)
(* equality by an arm of 0s and 1s, so rounding decides nothing.           *)
(***************************************************************************)
EXTENDS Naturals, Integers, FiniteSets, FiniteSetsExt, Combinatorics

CONSTANTS
    None,
    ChampionArms,   \* the champion's results that are looked at
    CandidateArms   \* the candidate's

Tasks == 1..5
Repetitions == 3
Observations == 15
Arm == [Tasks -> 0..Repetitions]

ASSUME ArmsAssumption ==
    /\ ChampionArms \subseteq Arm /\ CandidateArms \subseteq Arm
    /\ None \notin Arm \cup {"accepted", "saturated", "infrastructure-invalid"}
    /\ None \notin {"promote", "reject", "inconclusive"}

VARIABLES
    champion,    \* the champion's arm on the panel
    assessment,  \* what it makes of the panel
    candidate,   \* the candidate's arm
    decision     \* the disposition and its reason

vars == <<champion, assessment, candidate, decision>>

(* The rewarded runs of an arm; its mean is Total over Observations.       *)
Total(arm) == MapThenSumSet(LAMBDA t : arm[t], Tasks)

---------------------------------------------------------------------------
(* assessLocalChampionPanel *)

(* Mean at most 0.95. *)
AggregateThresholdSatisfied(arm) == 100 * Total(arm) <= 95 * Observations

(* Headroom of more than 0.01.  Diagnostic only: acceptance ignores it.    *)
CanProduceTaskWin(arm, t) == 100 * (Repetitions - arm[t]) > Repetitions
EveryTaskCanProduceWin(arm) == \A t \in Tasks : CanProduceTaskWin(arm, t)

Assess(arm, valid) ==
    IF ~valid THEN "infrastructure-invalid"
    ELSE IF AggregateThresholdSatisfied(arm) THEN "accepted"
    ELSE "saturated"

---------------------------------------------------------------------------
(* decideLocalRealComparison *)

(* A task is won, or lost, by a difference of means of more than 0.01.     *)
Beats(a, b, t) == 100 * (a[t] - b[t]) > Repetitions
Wins(a, b) == Cardinality({t \in Tasks : Beats(a, b, t)})

(* binomialCoefficient: the running product is always divisible.           *)
BinomialCoefficient(n, k) ==
    LET bounded == IF k <= n - k THEN k ELSE n - k
        product[i \in 0..bounded] ==
            IF i = 0 THEN 1 ELSE (product[i - 1] * (n - bounded + i)) \div i
    IN  product[bounded]

(* Fault: the tail begins above the observed number of successes. *)
UpperTail_Exclusive(n, least) ==
    MapThenSumSet(LAMBDA k : BinomialCoefficient(n, k), (least + 1)..n)

(* binomialUpperTail, in units of 2^-n.                                    *)
UpperTail(n, least) == MapThenSumSet(LAMBDA k : BinomialCoefficient(n, k), least..n)

(* directionalConfidence at least 0.95; with nothing discordant it is 0.5. *)
Confident(wins, losses) ==
    LET n == wins + losses
    IN  n > 0 /\ 20 * (2^n - UpperTail(n, wins)) >= 19 * 2^n

(* Fault: an arm that is nearly perfect needs no confidence. *)
Surpasses_NearPerfect(a, b) ==
    /\ 20 * (Total(a) - Total(b)) >= Observations
    /\ Wins(a, b) > Wins(b, a)
    /\ Confident(Wins(a, b), Wins(b, a)) \/ Total(a) = Observations - 1

(* Mean higher by at least 0.05, more tasks won than lost, and confident.  *)
Surpasses(a, b) ==
    /\ 20 * (Total(a) - Total(b)) >= Observations
    /\ Wins(a, b) > Wins(b, a)
    /\ Confident(Wins(a, b), Wins(b, a))

Decide(c, h, valid) ==
    IF ~valid THEN "inconclusive"
    ELSE IF Surpasses(c, h) THEN "promote"
    ELSE IF Surpasses(h, c) THEN "reject"
    ELSE "inconclusive"

---------------------------------------------------------------------------

Init ==
    /\ champion = None /\ assessment = None
    /\ candidate = None /\ decision = None

ScreenChampion ==
    /\ champion = None
    /\ champion' \in ChampionArms
    /\ \E valid \in BOOLEAN : assessment' = Assess(champion', valid)
    /\ UNCHANGED <<candidate, decision>>

(* Only an accepted panel is evaluated with a candidate.                   *)
EvaluateCandidate ==
    /\ assessment = "accepted" /\ candidate = None
    /\ candidate' \in CandidateArms
    /\ \E valid \in BOOLEAN : decision' = Decide(candidate', champion, valid)
    /\ UNCHANGED <<champion, assessment>>

(* The panel is rejected, and another is screened.                         *)
Rotate ==
    /\ assessment \in {"saturated", "infrastructure-invalid"}
    /\ champion' = None /\ assessment' = None
    /\ UNCHANGED <<candidate, decision>>

Next == ScreenChampion \/ EvaluateCandidate \/ Rotate

Spec == Init /\ [][Next]_vars

---------------------------------------------------------------------------
(* Properties *)

Rank == [reject |-> 0, inconclusive |-> 1, promote |-> 2]
Verdict == Decide(candidate, champion, TRUE)

(* One more rewarded run of the candidate never makes its verdict worse.   *)
GateMonotone == candidate # None =>
    \A t \in Tasks : candidate[t] < Repetitions =>
        Rank[Decide([candidate EXCEPT ![t] = @ + 1], champion, TRUE)] >= Rank[Verdict]

(* Whether some candidate can still surpass the champion: the best one is   *)
(* rewarded every time.                                                     *)
Perfect == [t \in Tasks |-> Repetitions]
Promotable(arm) == Surpasses(Perfect, arm)

(* The tails the confidence is made of are those of the binomial of the    *)
(* discordant tasks: each coefficient is exact, and the chances of as many *)
(* wins and of fewer add up to one.                                        *)
BinomialExact == candidate # None =>
    LET wins == Wins(candidate, champion)
        losses == Wins(champion, candidate)
        n == wins + losses
    IN  /\ BinomialCoefficient(n, wins) = choose(n, wins)
        /\ UpperTail(n, wins) + UpperTail(n, losses + 1) = 2^n
=============================================================================
