----------------------- MODULE ComparisonGate_proofs -----------------------
(***************************************************************************)
(* The proofs of ComparisonGate's properties, for every choice of the arms *)
(* that are looked at.                                                     *)
(*                                                                         *)
(* The invariant of the steps is small (Screened); the argument is about   *)
(* the operators.  The sums that the model writes as folds get a closed    *)
(* form over at most six terms: that form is a function such as the fold   *)
(* asks for, and any other agrees with it, because a smallest set on which *)
(* they differed would have one still smaller.  In the same way the        *)
(* running product of the code and the quotient of factorials of the       *)
(* library are, for up to five tasks, both of them Pascal's triangle.      *)
(* From the triangle's rows, the confidence of the decision reaches 0.95   *)
(* exactly when all five tasks are won (ConfidentIsFive), and so one arm   *)
(* surpasses another exactly when it sweeps it (SurpassesIsSweep).         *)
(***************************************************************************)
EXTENDS ComparisonGate, FiniteSetTheorems, WellFoundedInduction, TLAPS

---------------------------------------------------------------------------
(* Sums over a few numbers *)

(* A set of numbers that is not empty has a least.                         *)
LEMMA LeastNat ==
    ASSUME NEW T, T \subseteq Nat, T # {}
    PROVE  \E n \in T : \A m \in T : ~(m < n)
<1>1. \E x \in T : \A y \in T : ~(<<y, x>> \in OpToRel(<, Nat))
  BY WFMin, NatLessThanWellFounded
<1> QED BY <1>1 DEF OpToRel

(* The sum of w over a subset of 0..5, without the fold.                   *)
At(w, s, k) == IF k \in s THEN w[k] ELSE 0
Six(w, s) == At(w, s, 0) + At(w, s, 1) + At(w, s, 2) + At(w, s, 3) + At(w, s, 4) + At(w, s, 5)

(* What the fold's function says of each set it is defined on.             *)
Picked(s) == CHOOSE x \in s : TRUE
Sums(g, w, S) ==
    g = [s \in SUBSET S |-> IF s = {} THEN 0 ELSE w[Picked(s)] + g[s \ {Picked(s)}]]

(* Picked takes an element, where there is one.                            *)
LEMMA PickedIn == ASSUME NEW s, s # {} PROVE Picked(s) \in s
BY DEF Picked

(* Taking one element out takes its value out of the sum.                  *)
LEMMA SixWithout ==
    ASSUME NEW s \in SUBSET (0..5), NEW w, \A k \in s : w[k] \in Nat, NEW p \in s
    PROVE  Six(w, s) = w[p] + Six(w, s \ {p})
<1>1. p = 0 \/ p = 1 \/ p = 2 \/ p = 3 \/ p = 4 \/ p = 5
  OBVIOUS
<1>2. \A k \in 0..5 : /\ At(w, s, k) \in Nat /\ At(w, s \ {p}, k) \in Nat
                      /\ k # p => At(w, s, k) = At(w, s \ {p}, k)
  BY DEF At
<1>3. At(w, s, p) = w[p] /\ At(w, s \ {p}, p) = 0 /\ w[p] \in Nat
  BY DEF At
<1> QED BY <1>1, <1>2, <1>3 DEF Six

(* The closed form is one such function.                                   *)
LEMMA SixSums ==
    ASSUME NEW S \in SUBSET (0..5), NEW w, \A k \in S : w[k] \in Nat
    PROVE  Sums([s \in SUBSET S |-> Six(w, s)], w, S)
<1> DEFINE g == [s \in SUBSET S |-> Six(w, s)]
<1>1. ASSUME NEW s \in SUBSET S, s # {} PROVE g[s] = w[Picked(s)] + g[s \ {Picked(s)}]
  <2>1. Picked(s) \in s /\ s \in SUBSET (0..5) /\ \A k \in s : w[k] \in Nat
    BY <1>1, PickedIn
  <2>2. Six(w, s) = w[Picked(s)] + Six(w, s \ {Picked(s)})
    BY <2>1, SixWithout
  <2> QED BY <2>2
<1>2. ASSUME NEW s \in SUBSET S, s = {} PROVE g[s] = 0
  BY <1>2 DEF Six, At
<1>3. \A s \in SUBSET S : g[s] = IF s = {} THEN 0 ELSE w[Picked(s)] + g[s \ {Picked(s)}]
  BY <1>1, <1>2
<1> HIDE DEF g
<1>4. g = [s \in SUBSET S |-> g[s]]
  BY DEF g
<1>5. Sums(g, w, S)
  BY <1>3, <1>4 DEF Sums
<1> QED BY <1>5 DEF g

(* And it is the only one.                                                 *)
LEMMA SumsAreSix ==
    ASSUME NEW S \in SUBSET (0..5), NEW w, \A k \in S : w[k] \in Nat, NEW g, Sums(g, w, S)
    PROVE  g[S] = Six(w, S)
<1> DEFINE Bad == {n \in Nat : \E s \in SUBSET S : Cardinality(s) = n /\ g[s] # Six(w, s)}
<1>0. IsFiniteSet(S)
  <2>1. 0 \in Int /\ 5 \in Int
    OBVIOUS
  <2>2. IsFiniteSet(0..5)
    BY <2>1, FS_Interval
  <2> QED BY <2>2, FS_Subset
<1>1. Bad = {}
  <2>1. SUFFICES ASSUME Bad # {} PROVE FALSE
    OBVIOUS
  <2>2. PICK n \in Bad : \A m \in Bad : ~(m < n)
    BY <2>1, LeastNat
  <2>3. PICK s \in SUBSET S : Cardinality(s) = n /\ g[s] # Six(w, s)
    BY <2>2
  <2>4. s # {}
    <3>1. SUFFICES ASSUME s = {} PROVE FALSE
      OBVIOUS
    <3>2. g[s] = 0
      BY <3>1 DEF Sums
    <3>3. Six(w, s) = 0
      BY <3>1 DEF Six, At
    <3> QED BY <2>3, <3>2, <3>3
  <2>5. Picked(s) \in s /\ IsFiniteSet(s)
    BY <2>4, <1>0, PickedIn, FS_Subset
  <2>6. Cardinality(s \ {Picked(s)}) = Cardinality(s) - 1 /\ Cardinality(s) \in Nat
        /\ Cardinality(s \ {Picked(s)}) \in Nat
    BY <2>5, FS_RemoveElement, FS_CardinalityType
  <2>7. s \ {Picked(s)} \in SUBSET S
    OBVIOUS
  <2>8. g[s \ {Picked(s)}] = Six(w, s \ {Picked(s)})
    <3>1. Cardinality(s \ {Picked(s)}) < n
      BY <2>3, <2>6
    <3>2. Cardinality(s \ {Picked(s)}) \notin Bad
      BY <2>2, <3>1
    <3> QED BY <3>2, <2>6, <2>7
  <2>9. g[s] = w[Picked(s)] + g[s \ {Picked(s)}]
    BY <2>4 DEF Sums
  <2>10. Six(w, s) = w[Picked(s)] + Six(w, s \ {Picked(s)})
    BY <2>5, SixWithout
  <2> QED BY <2>3, <2>8, <2>9, <2>10
<1>2. Cardinality(S) \in Nat
  BY <1>0, FS_CardinalityType
<1> QED BY <1>1, <1>2

(* So the function that the fold chooses gives the closed form.            *)
LEMMA ChosenSum ==
    ASSUME NEW S \in SUBSET (0..5), NEW w, \A k \in S : w[k] \in Nat
    PROVE  (CHOOSE g : Sums(g, w, S))[S] = Six(w, S)
<1>1. \E g : Sums(g, w, S)
  BY SixSums
<1>2. Sums(CHOOSE g : Sums(g, w, S), w, S)
  BY <1>1
<1> QED BY <1>2, SumsAreSix

(* The rewarded runs of an arm.                                            *)
LEMMA TotalIs ==
    ASSUME NEW a \in Arm
    PROVE  Total(a) = a[1] + a[2] + a[3] + a[4] + a[5]
<1>1. Total(a) = (CHOOSE g : Sums(g, a, Tasks))[Tasks]
  BY Zenon DEF Total, MapThenSumSet, MapThenFoldSet, Sums, Picked
<1>2. Tasks \in SUBSET (0..5) /\ \A k \in Tasks : a[k] \in Nat
  BY DEF Tasks, Arm, Repetitions
<1>3. Total(a) = Six(a, Tasks)
  BY <1>1, <1>2, ChosenSum
<1> QED BY <1>3, <1>2 DEF Six, At, Tasks

---------------------------------------------------------------------------
(* The coefficients and the tails *)

(* Pascal's triangle, down to the row of five tasks.                       *)
Pascal(n, k) ==
    IF k = 0 \/ k = n THEN 1
    ELSE IF k = 1 \/ k = n - 1 THEN n
    ELSE IF n = 4 THEN 6 ELSE 10

(* The running product has a closed form for the few factors there are.    *)
Factor(n, b, i) ==
    IF i = 0 THEN 1 ELSE IF i = 1 THEN n - b + 1 ELSE ((n - b + 1) * (n - b + 2)) \div 2

(* The code's running product reaches it.                                  *)
LEMMA ProductIs ==
    ASSUME NEW n \in 0..5, NEW b \in 0..2, b <= n - b
    PROVE  LET product[i \in 0..b] ==
                   IF i = 0 THEN 1 ELSE (product[i - 1] * (n - b + i)) \div i
           IN  product[b] = Factor(n, b, b)
<1> DEFINE Runs(g) == g = [i \in 0..b |-> IF i = 0 THEN 1 ELSE (g[i - 1] * (n - b + i)) \div i]
<1>1. Runs([i \in 0..b |-> Factor(n, b, i)])
  <2> DEFINE h == [i \in 0..b |-> Factor(n, b, i)]
  <2>1. \A i \in 0..b : h[i] = IF i = 0 THEN 1 ELSE (h[i - 1] * (n - b + i)) \div i
    BY DEF Factor
  <2>2. h = [i \in 0..b |-> h[i]]
    OBVIOUS
  <2> HIDE DEF h
  <2>3. Runs(h)
    BY <2>1, <2>2
  <2> QED BY <2>3 DEF h
<1>2. ASSUME NEW g, Runs(g) PROVE g[b] = Factor(n, b, b)
  <2>1. g[0] = 1
    BY <1>2
  <2>2. b >= 1 => g[1] = n - b + 1
    BY <1>2, <2>1
  <2>3. b >= 2 => g[2] = ((n - b + 1) * (n - b + 2)) \div 2
    BY <1>2, <2>2
  <2> QED BY <2>1, <2>2, <2>3 DEF Factor
<1>3. Runs(CHOOSE g : Runs(g))
  BY <1>1
<1> QED BY <1>2, <1>3

(* The coefficients of the code are those of the triangle.                 *)
LEMMA BinomialIsPascal ==
    ASSUME NEW n \in 0..5, NEW k \in 0..n
    PROVE  BinomialCoefficient(n, k) = Pascal(n, k)
<1> DEFINE b == IF k <= n - k THEN k ELSE n - k
<1>1. b \in 0..2 /\ b <= n - b
  OBVIOUS
<1>2. BinomialCoefficient(n, k) = Factor(n, b, b)
  BY <1>1, ProductIs DEF BinomialCoefficient
<1>3. Factor(n, b, b) = Pascal(n, k)
  <2>1. n = 0 \/ n = 1 \/ n = 2 \/ n = 3 \/ n = 4 \/ n = 5
    OBVIOUS
  <2>2. k = 0 \/ k = 1 \/ k = 2 \/ k = 3 \/ k = 4 \/ k = 5
    OBVIOUS
  <2> QED BY <2>1, <2>2 DEF Factor, Pascal
<1> QED BY <1>2, <1>3

(* One term of a tail, and the tail.                                       *)
Term(n, least, k) == IF least <= k /\ k <= n THEN Pascal(n, k) ELSE 0
Tail(n, least) ==
    Term(n, least, 0) + Term(n, least, 1) + Term(n, least, 2)
        + Term(n, least, 3) + Term(n, least, 4) + Term(n, least, 5)

(* binomialUpperTail is the sum of the terms from its first success on.    *)
LEMMA UpperTailIs ==
    ASSUME NEW n \in 0..5, NEW least \in 0..(n + 1)
    PROVE  UpperTail(n, least) = Tail(n, least)
<1> DEFINE S == least..n
           w == [k \in 0..5 |-> BinomialCoefficient(n, k)]
           Fold(g) == g = [s \in SUBSET S |->
               IF s = {} THEN 0 ELSE BinomialCoefficient(n, Picked(s)) + g[s \ {Picked(s)}]]
<1>1. UpperTail(n, least) = (CHOOSE g : Fold(g))[S]
  BY Zenon DEF UpperTail, MapThenSumSet, MapThenFoldSet, Picked
<1>2. S \in SUBSET (0..5) /\ S \in SUBSET (0..n)
  OBVIOUS
<1>3. \A k \in S : w[k] = BinomialCoefficient(n, k) /\ w[k] = Pascal(n, k) /\ w[k] \in Nat
  <2>1. \A k \in S : BinomialCoefficient(n, k) = Pascal(n, k) /\ k \in 0..n
    BY <1>2, BinomialIsPascal
  <2>2. \A k \in 0..n : Pascal(n, k) \in Nat
    BY DEF Pascal
  <2> QED BY <1>2, <2>1, <2>2
<1>4. ASSUME NEW g PROVE Fold(g) <=> Sums(g, w, S)
  <2>1. ASSUME NEW s \in SUBSET S
        PROVE  (IF s = {} THEN 0 ELSE BinomialCoefficient(n, Picked(s)) + g[s \ {Picked(s)}])
               = (IF s = {} THEN 0 ELSE w[Picked(s)] + g[s \ {Picked(s)}])
    <3>1. s # {} => Picked(s) \in S
      BY PickedIn
    <3> QED BY <3>1, <1>3
  <2> HIDE DEF w, S
  <2> QED BY <2>1 DEF Sums
<1>5. Fold(CHOOSE g : Fold(g))
  <2>1. \E g : Sums(g, w, S)
    BY <1>2, <1>3, SixSums
  <2> HIDE DEF Fold, w, S
  <2> QED BY <2>1, <1>4
<1>6. (CHOOSE g : Fold(g))[S] = Six(w, S)
  <2>1. Sums(CHOOSE g : Fold(g), w, S)
    BY <1>4, <1>5
  <2> HIDE DEF Fold, w, S
  <2> QED BY <2>1, <1>2, <1>3, SumsAreSix
<1>7. \A k \in 0..5 : At(w, S, k) = Term(n, least, k)
  BY <1>3 DEF At, Term
<1> QED BY <1>1, <1>6, <1>7 DEF Six, Tail

(* The units of the tails.                                                 *)
LEMMA Powers == 2^0 = 1 /\ 2^1 = 2 /\ 2^2 = 4 /\ 2^3 = 8 /\ 2^4 = 16 /\ 2^5 = 32
OBVIOUS

(* As many wins and fewer make up the whole row.                           *)
LEMMA RowIsComplete ==
    ASSUME NEW n \in 0..5, NEW k \in 0..n
    PROVE  Tail(n, k) + Tail(n, n - k + 1) = 2^n
<1>1. k = 0 \/ k = 1 \/ k = 2 \/ k = 3 \/ k = 4 \/ k = 5
  OBVIOUS
<1>2. CASE n = 0
  BY <1>1, <1>2, Powers DEF Tail, Term, Pascal
<1>3. CASE n = 1
  BY <1>1, <1>3, Powers DEF Tail, Term, Pascal
<1>4. CASE n = 2
  BY <1>1, <1>4, Powers DEF Tail, Term, Pascal
<1>5. CASE n = 3
  BY <1>1, <1>5, Powers DEF Tail, Term, Pascal
<1>6. CASE n = 4
  BY <1>1, <1>6, Powers DEF Tail, Term, Pascal
<1>7. CASE n = 5
  BY <1>1, <1>7, Powers DEF Tail, Term, Pascal
<1> QED BY <1>2, <1>3, <1>4, <1>5, <1>6, <1>7

(* So the tails of the wins and of the losses add up to one.               *)
LEMMA TailsComplete ==
    ASSUME NEW wins \in 0..5, NEW losses \in 0..5, wins + losses <= 5
    PROVE  UpperTail(wins + losses, wins) + UpperTail(wins + losses, losses + 1)
               = 2^(wins + losses)
<1> DEFINE n == wins + losses
<1>1. n \in 0..5 /\ wins \in 0..n /\ wins \in 0..(n + 1) /\ losses + 1 \in 0..(n + 1)
      /\ n - wins + 1 = losses + 1
  OBVIOUS
<1> HIDE DEF n
<1>2. UpperTail(n, wins) = Tail(n, wins) /\ UpperTail(n, losses + 1) = Tail(n, losses + 1)
  BY <1>1, UpperTailIs
<1>3. Tail(n, wins) + Tail(n, losses + 1) = 2^n
  BY <1>1, RowIsComplete
<1>4. UpperTail(n, wins) + UpperTail(n, losses + 1) = 2^n
  BY <1>2, <1>3
<1> QED BY <1>4 DEF n

(* A directional confidence of 0.95 takes every one of five tasks.         *)
LEMMA ConfidentIsFive ==
    ASSUME NEW wins \in 0..5, NEW losses \in 0..5, wins + losses <= 5
    PROVE  Confident(wins, losses) <=> wins = 5
<1> DEFINE n == wins + losses
<1>1. n \in 0..5 /\ wins \in 0..(n + 1)
  OBVIOUS
<1>2. UpperTail(n, wins) = Tail(n, wins)
  BY <1>1, UpperTailIs
<1>3. n = 0 \/ n = 1 \/ n = 2 \/ n = 3 \/ n = 4 \/ n = 5
  OBVIOUS
<1>4. wins = 0 \/ wins = 1 \/ wins = 2 \/ wins = 3 \/ wins = 4 \/ wins = 5
  OBVIOUS
<1>5. UpperTail(n, wins) >= 1 /\ (wins < 5 /\ n = 5 => UpperTail(n, wins) >= 6)
      /\ (wins = 5 => UpperTail(n, wins) = 1) /\ UpperTail(n, wins) \in Nat
  BY <1>1, <1>2, <1>3, <1>4 DEF Tail, Term, Pascal
<1>6. wins = 5 => n = 5
  OBVIOUS
<1>7. Confident(wins, losses) <=> n > 0 /\ 20 * (2^n - UpperTail(n, wins)) >= 19 * 2^n
  BY DEF Confident
<1>8. n # 0 => (20 * (2^n - UpperTail(n, wins)) >= 19 * 2^n <=> wins = 5)
  <2> DEFINE u == UpperTail(n, wins)
  <2>1. u \in Nat /\ u >= 1 /\ (wins < 5 /\ n = 5 => u >= 6) /\ (wins = 5 => u = 1)
    BY <1>5
  <2> HIDE DEF n, u
  <2>2. n = 1 => ~(20 * (2^n - u) >= 19 * 2^n)
    BY <2>1, Powers
  <2>3. n = 2 => ~(20 * (2^n - u) >= 19 * 2^n)
    BY <2>1, Powers
  <2>4. n = 3 => ~(20 * (2^n - u) >= 19 * 2^n)
    BY <2>1, Powers
  <2>5. n = 4 => ~(20 * (2^n - u) >= 19 * 2^n)
    BY <2>1, Powers
  <2>6. n = 5 => (20 * (2^n - u) >= 19 * 2^n <=> wins = 5)
    BY <2>1, <1>4, Powers
  <2>7. n # 0 => (20 * (2^n - u) >= 19 * 2^n <=> wins = 5)
    BY <2>2, <2>3, <2>4, <2>5, <2>6, <1>3, <1>6
  <2> QED BY <2>7 DEF u
<1> QED BY <1>6, <1>7, <1>8

---------------------------------------------------------------------------
(* Factorials *)

Fact(g, D) == g = [n \in D |-> IF n = 0 THEN 1 ELSE n * g[n - 1]]

(* There is one up to every number, ...                                    *)
LEMMA FactUpTo == ASSUME NEW N \in Nat PROVE \E g : Fact(g, 0..N)
<1> DEFINE Bad == {n \in Nat : ~(\E g : Fact(g, 0..n))}
<1>1. Bad = {}
  <2>1. SUFFICES ASSUME Bad # {} PROVE FALSE
    OBVIOUS
  <2>2. PICK n \in Bad : \A m \in Bad : ~(m < n)
    BY <2>1, LeastNat
  <2>3. CASE n = 0
    <3>1. Fact([i \in 0..0 |-> 1], 0..0)
      BY DEF Fact
    <3> QED BY <2>2, <2>3, <3>1
  <2>4. CASE n # 0
    <3>1. n - 1 \in Nat /\ n - 1 < n /\ n \in Nat
      BY <2>4
    <3>2. PICK g : Fact(g, 0..(n - 1))
      BY <2>2, <3>1
    <3> DEFINE h == [i \in 0..n |-> IF i = 0 THEN 1 ELSE i * g[i - 1]]
    <3>3. g = [i \in 0..(n - 1) |-> IF i = 0 THEN 1 ELSE i * g[i - 1]]
      BY <3>2 DEF Fact
    <3>4. \A i \in 0..(n - 1) : g[i] = IF i = 0 THEN 1 ELSE i * g[i - 1]
      BY <3>3
    <3>5. \A i \in 0..(n - 1) : i \in 0..n /\ h[i] = g[i]
      BY <3>1, <3>4
    <3>6. \A i \in 0..n : i # 0 => i - 1 \in 0..(n - 1)
      BY <3>1
    <3>7. \A i \in 0..n : h[i] = IF i = 0 THEN 1 ELSE i * h[i - 1]
      BY <3>5, <3>6
    <3>8. h = [i \in 0..n |-> h[i]]
      OBVIOUS
    <3> HIDE DEF h
    <3>9. Fact(h, 0..n)
      BY <3>7, <3>8 DEF Fact
    <3> QED BY <2>2, <3>9
  <2> QED BY <2>3, <2>4
<1> QED BY <1>1

(* ... two of them agree where both are defined, ...                       *)
LEMMA FactsAgree ==
    ASSUME NEW N \in Nat, NEW M \in Nat, N <= M,
           NEW g, Fact(g, 0..N), NEW h, Fact(h, 0..M)
    PROVE  g[N] = h[N]
<1> DEFINE Bad == {n \in Nat : n <= N /\ g[n] # h[n]}
<1>1. Bad = {}
  <2>1. SUFFICES ASSUME Bad # {} PROVE FALSE
    OBVIOUS
  <2>2. PICK n \in Bad : \A m \in Bad : ~(m < n)
    BY <2>1, LeastNat
  <2>3. n \in 0..N /\ n \in 0..M /\ g[n] # h[n]
    BY <2>2
  <2>4. g[n] = (IF n = 0 THEN 1 ELSE n * g[n - 1]) /\ h[n] = (IF n = 0 THEN 1 ELSE n * h[n - 1])
    BY <2>3 DEF Fact
  <2>5. n # 0
    BY <2>3, <2>4
  <2>6. n - 1 \in Nat /\ n - 1 <= N /\ n - 1 < n
    BY <2>3, <2>5
  <2>7. g[n - 1] = h[n - 1]
    BY <2>2, <2>6
  <2> QED BY <2>3, <2>4, <2>5, <2>7
<1> QED BY <1>1

(* ... and so the code's library has a factorial for all of them.          *)
LEMMA FactorialExists == Fact(factorial, Nat)
<1> DEFINE f == [n \in Nat |-> (CHOOSE g : Fact(g, 0..n))[n]]
<1>1. ASSUME NEW n \in Nat PROVE Fact(CHOOSE g : Fact(g, 0..n), 0..n)
  BY FactUpTo
<1>2. ASSUME NEW n \in Nat PROVE f[n] = IF n = 0 THEN 1 ELSE n * f[n - 1]
  <2>1. PICK g : Fact(g, 0..n) /\ f[n] = g[n]
    BY <1>1
  <2>2. g[n] = IF n = 0 THEN 1 ELSE n * g[n - 1]
    BY <2>1 DEF Fact
  <2>3. n # 0 => f[n - 1] = g[n - 1]
    <3>1. SUFFICES ASSUME n # 0 PROVE f[n - 1] = g[n - 1]
      OBVIOUS
    <3>2. n - 1 \in Nat /\ n - 1 <= n
      BY <3>1
    <3>3. PICK h : Fact(h, 0..(n - 1)) /\ f[n - 1] = h[n - 1]
      BY <1>1, <3>2
    <3> QED BY <2>1, <3>2, <3>3, FactsAgree
  <2> QED BY <2>1, <2>2, <2>3
<1>3. f = [n \in Nat |-> f[n]]
  OBVIOUS
<1> HIDE DEF f
<1>4. Fact(f, Nat)
  BY <1>2, <1>3 DEF Fact
<1>5. factorial = CHOOSE g : Fact(g, Nat)
  BY Zenon DEF factorial, Fact
<1> QED BY <1>4, <1>5

(* The factorials of up to five tasks.                                     *)
LEMMA Factorials ==
    /\ factorial[0] = 1 /\ factorial[1] = 1 /\ factorial[2] = 2
    /\ factorial[3] = 6 /\ factorial[4] = 24 /\ factorial[5] = 120
<1>1. \A n \in Nat : factorial[n] = IF n = 0 THEN 1 ELSE n * factorial[n - 1]
  BY FactorialExists DEF Fact
<1>2. factorial[0] = 1
  BY <1>1
<1>3. factorial[1] = 1
  BY <1>1, <1>2
<1>4. factorial[2] = 2
  BY <1>1, <1>3
<1>5. factorial[3] = 6
  BY <1>1, <1>4
<1>6. factorial[4] = 24
  BY <1>1, <1>5
<1>7. factorial[5] = 120
  BY <1>1, <1>6
<1> QED BY <1>2, <1>3, <1>4, <1>5, <1>6, <1>7

(* The binomial coefficients are those of the triangle.                    *)
LEMMA ChooseIsPascal ==
    ASSUME NEW n \in 0..5, NEW k \in 0..n
    PROVE  choose(n, k) = Pascal(n, k)
<1>1. n = 0 \/ n = 1 \/ n = 2 \/ n = 3 \/ n = 4 \/ n = 5
  OBVIOUS
<1>2. k = 0 \/ k = 1 \/ k = 2 \/ k = 3 \/ k = 4 \/ k = 5
  OBVIOUS
<1> QED BY <1>1, <1>2, Factorials DEF choose, Pascal

---------------------------------------------------------------------------
(* The decision on two arms *)

(* A task is rewarded at most three times.                                 *)
LEMMA ArmIs ==
    ASSUME NEW a \in Arm
    PROVE  \A t \in Tasks : a[t] \in Nat /\ a[t] <= 3
BY DEF Arm, Repetitions

(* One rewarded run more is a difference of means of a third.              *)
LEMMA BeatsIs ==
    ASSUME NEW a \in Arm, NEW b \in Arm, NEW t \in Tasks
    PROVE  Beats(a, b, t) <=> a[t] > b[t]
BY ArmIs DEF Beats, Repetitions

(* LOCAL_REAL_TASKS_PER_PANEL.                                             *)
LEMMA TasksAreFive == IsFiniteSet(Tasks) /\ Cardinality(Tasks) = 5
<1>1. 1 \in Int /\ 5 \in Int
  OBVIOUS
<1>2. IsFiniteSet(1..5) /\ Cardinality(1..5) = (IF 1 > 5 THEN 0 ELSE 5 - 1 + 1)
  BY <1>1, FS_Interval
<1> QED BY <1>2 DEF Tasks

(* At most five tasks are won or lost.                                     *)
LEMMA WinsAndLosses ==
    ASSUME NEW a \in Arm, NEW b \in Arm
    PROVE  /\ Wins(a, b) \in 0..5 /\ Wins(b, a) \in 0..5
           /\ Wins(a, b) + Wins(b, a) <= 5
           /\ Wins(a, b) = 5 <=> \A t \in Tasks : a[t] > b[t]
<1> DEFINE W == {t \in Tasks : Beats(a, b, t)}
           L == {t \in Tasks : Beats(b, a, t)}
<1>1. W \subseteq Tasks /\ L \subseteq Tasks /\ W \cup L \subseteq Tasks
  OBVIOUS
<1>2. W \cap L = {}
  <2>1. \A t \in Tasks : ~(a[t] > b[t] /\ b[t] > a[t])
    BY ArmIs
  <2> QED BY <2>1, BeatsIs
<1>3. W = Tasks <=> \A t \in Tasks : a[t] > b[t]
  BY BeatsIs
<1> HIDE DEF W, L
<1>4. IsFiniteSet(W) /\ IsFiniteSet(L)
  BY <1>1, TasksAreFive, FS_Subset
<1>5. Cardinality(W \cup L) = Cardinality(W) + Cardinality(L) - Cardinality(W \cap L)
  BY <1>4, FS_Union
<1>6. Cardinality(W \cup L) <= 5
  BY <1>1, TasksAreFive, FS_Subset
<1>7. Cardinality(W) \in Nat /\ Cardinality(L) \in Nat
  BY <1>4, FS_CardinalityType
<1>8. Cardinality(W \cap L) = 0
  BY <1>2, FS_EmptySet
<1>9. Cardinality(W) + Cardinality(L) <= 5
  BY <1>5, <1>6, <1>7, <1>8
<1>10. Cardinality(W) = 5 <=> W = Tasks
  BY <1>1, TasksAreFive, FS_Subset
<1>11. Wins(a, b) = Cardinality(W) /\ Wins(b, a) = Cardinality(L)
  BY DEF Wins, W, L
<1> QED BY <1>3, <1>7, <1>9, <1>10, <1>11

(* One arm surpasses another exactly when it is rewarded more often on     *)
(* each of the five tasks: with fewer than five wins, or with one loss,    *)
(* no difference of the means is confident enough.                         *)
LEMMA SurpassesIsSweep ==
    ASSUME NEW a \in Arm, NEW b \in Arm
    PROVE  Surpasses(a, b) <=> \A t \in Tasks : a[t] > b[t]
<1>1. /\ Wins(a, b) \in 0..5 /\ Wins(b, a) \in 0..5 /\ Wins(a, b) + Wins(b, a) <= 5
      /\ Wins(a, b) = 5 <=> \A t \in Tasks : a[t] > b[t]
  BY WinsAndLosses
<1>2. Confident(Wins(a, b), Wins(b, a)) <=> Wins(a, b) = 5
  BY <1>1, ConfidentIsFive
<1>3. Wins(a, b) = 5 => Wins(a, b) > Wins(b, a)
  BY <1>1
<1>4. (\A t \in Tasks : a[t] > b[t]) => 20 * (Total(a) - Total(b)) >= Observations
  <2>1. SUFFICES ASSUME \A t \in Tasks : a[t] > b[t]
                 PROVE  20 * (Total(a) - Total(b)) >= Observations
    OBVIOUS
  <2>2. 1 \in Tasks /\ 2 \in Tasks /\ 3 \in Tasks /\ 4 \in Tasks /\ 5 \in Tasks
    BY DEF Tasks
  <2>3. a[1] > b[1] /\ a[2] > b[2] /\ a[3] > b[3] /\ a[4] > b[4] /\ a[5] > b[5]
    BY <2>1, <2>2
  <2> QED BY <2>2, <2>3, ArmIs, TotalIs DEF Observations
<1> QED BY <1>1, <1>2, <1>3, <1>4 DEF Surpasses

(* No task can be won against an arm that is never without its reward, and *)
(* a mean above 0.95 is that of no other.                                  *)
LEMMA SaturatedIsPerfect ==
    ASSUME NEW a \in Arm, ~AggregateThresholdSatisfied(a)
    PROVE  a[1] = 3
<1>1. 1 \in Tasks /\ 2 \in Tasks /\ 3 \in Tasks /\ 4 \in Tasks /\ 5 \in Tasks
  BY DEF Tasks
<1> QED BY <1>1, ArmIs, TotalIs DEF AggregateThresholdSatisfied, Observations

---------------------------------------------------------------------------
(* The arms of the panel *)

(* A candidate is compared with the champion that was screened, and what   *)
(* an assessment says of the mean is what the champion's arm has.          *)
Screened ==
    /\ champion \in Arm \cup {None} /\ candidate \in Arm \cup {None}
    /\ champion # None => \E valid \in BOOLEAN : assessment = Assess(champion, valid)
    /\ champion = None => assessment = None /\ candidate = None
    /\ candidate # None => assessment = "accepted"
    /\ decision # None => candidate # None
           /\ \E valid \in BOOLEAN : decision = Decide(candidate, champion, valid)

(* No panel has been screened.                                             *)
LEMMA InitScreened == Init => Screened
BY DEF Init, Screened

(* Every step of the gate keeps this.                                      *)
LEMMA NextScreened == Screened /\ [Next]_vars => Screened'
<1> SUFFICES ASSUME Screened, [Next]_vars PROVE Screened'
  OBVIOUS
<1>1. CASE ScreenChampion
  <2>1. champion' \in Arm /\ champion' # None
    BY <1>1, ArmsAssumption DEF ScreenChampion
  <2>2. candidate' = None /\ decision' = None
    BY <1>1 DEF ScreenChampion, Screened
  <2>3. \E valid \in BOOLEAN : assessment' = Assess(champion', valid)
    BY <1>1 DEF ScreenChampion
  <2> QED BY <2>1, <2>2, <2>3 DEF Screened
<1>2. CASE EvaluateCandidate
  <2>1. candidate' \in Arm /\ candidate' # None
    BY <1>2, ArmsAssumption DEF EvaluateCandidate
  <2>2. champion' = champion /\ assessment' = assessment /\ assessment = "accepted"
    BY <1>2 DEF EvaluateCandidate
  <2>3. \E valid \in BOOLEAN : decision' = Decide(candidate', champion', valid)
    BY <1>2, <2>2 DEF EvaluateCandidate
  <2>4. champion # None
    BY <2>2, ArmsAssumption DEF Screened
  <2> QED BY <2>1, <2>2, <2>3, <2>4 DEF Screened
<1>3. CASE Rotate
  <2>1. assessment # "accepted" /\ champion' = None /\ assessment' = None
        /\ candidate' = candidate /\ decision' = decision
    BY <1>3 DEF Rotate
  <2>2. candidate = None /\ decision = None
    BY <2>1 DEF Screened
  <2> QED BY <2>1, <2>2 DEF Screened
<1>4. CASE UNCHANGED vars
  <2>1. champion' = champion /\ assessment' = assessment /\ candidate' = candidate
        /\ decision' = decision
    BY <1>4 DEF vars
  <2> QED BY <2>1 DEF Screened
<1> QED BY <1>1, <1>2, <1>3, <1>4 DEF Next

(* So it is always the case.                                               *)
LEMMA AlwaysScreened == Spec => []Screened
BY InitScreened, NextScreened, PTL DEF Spec

---------------------------------------------------------------------------
(* The theorems *)

(* decideLocalRealComparison on two valid arms, without the statistics.    *)
LEMMA DecideIs ==
    ASSUME NEW c \in Arm, NEW h \in Arm
    PROVE  Decide(c, h, TRUE) =
               IF \A t \in Tasks : c[t] > h[t] THEN "promote"
               ELSE IF \A t \in Tasks : h[t] > c[t] THEN "reject"
               ELSE "inconclusive"
BY SurpassesIsSweep DEF Decide

(* One more rewarded run of the candidate never makes the decision of      *)
(* decision.ts worse for it.                                               *)
THEOREM MoreRewardNeverHurts == Spec => []GateMonotone
<1>1. Screened => GateMonotone
  <2> SUFFICES ASSUME Screened, candidate # None,
                      NEW t \in Tasks, candidate[t] < Repetitions
               PROVE  Rank[Decide([candidate EXCEPT ![t] = @ + 1], champion, TRUE)]
                          >= Rank[Verdict]
    BY DEF GateMonotone
  <2>1. candidate \in Arm /\ champion \in Arm
    BY ArmsAssumption DEF Screened
  <2> DEFINE more == [candidate EXCEPT ![t] = @ + 1]
  <2>2. more \in Arm
    BY <2>1 DEF Arm, Repetitions
  <2>3. \A u \in Tasks : /\ more[u] \in Nat /\ candidate[u] \in Nat /\ champion[u] \in Nat
                         /\ more[u] >= candidate[u]
    BY <2>1 DEF Arm, Repetitions
  <2> HIDE DEF more
  <2>4. (\A u \in Tasks : candidate[u] > champion[u]) => \A u \in Tasks : more[u] > champion[u]
    BY <2>3
  <2>5. (\A u \in Tasks : champion[u] > more[u]) => \A u \in Tasks : champion[u] > candidate[u]
    BY <2>3
  <2>7. /\ Decide(more, champion, TRUE) =
               IF \A u \in Tasks : more[u] > champion[u] THEN "promote"
               ELSE IF \A u \in Tasks : champion[u] > more[u] THEN "reject"
               ELSE "inconclusive"
        /\ Verdict =
               IF \A u \in Tasks : candidate[u] > champion[u] THEN "promote"
               ELSE IF \A u \in Tasks : champion[u] > candidate[u] THEN "reject"
               ELSE "inconclusive"
    BY <2>1, <2>2, DecideIs DEF Verdict
  <2>8. Rank["reject"] = 0 /\ Rank["inconclusive"] = 1 /\ Rank["promote"] = 2
    BY DEF Rank
  <2>9. Rank[Decide(more, champion, TRUE)] >= Rank[Verdict]
    <3>1. CASE \A u \in Tasks : candidate[u] > champion[u]
      <4>1. Decide(more, champion, TRUE) = "promote" /\ Verdict = "promote"
        BY <3>1, <2>4, <2>7
      <4>2. Rank[Decide(more, champion, TRUE)] = 2 /\ Rank[Verdict] = 2
        BY Zenon, <4>1, <2>8
      <4> QED BY <4>2
    <3>2. CASE \A u \in Tasks : champion[u] > more[u]
      <4>1. \A u \in Tasks : champion[u] > candidate[u]
        BY <3>2, <2>5
      <4>2. ~(\A u \in Tasks : candidate[u] > champion[u])
        BY <4>1, <2>3 DEF Tasks
      <4>3. Verdict = "reject"
        BY <4>1, <4>2, <2>7
      <4>4. Decide(more, champion, TRUE) \in {"promote", "inconclusive", "reject"}
        BY <2>7
      <4>5. Rank[Decide(more, champion, TRUE)] \in {0, 1, 2} /\ Rank[Verdict] = 0
        BY Zenon, <4>3, <4>4, <2>8
      <4>6. \A x \in {0, 1, 2} : x >= 0
        OBVIOUS
      <4> QED BY Zenon, <4>5, <4>6
    <3>3. CASE /\ ~(\A u \in Tasks : candidate[u] > champion[u])
               /\ ~(\A u \in Tasks : champion[u] > more[u])
      <4>1. Decide(more, champion, TRUE) \in {"promote", "inconclusive"}
        BY <3>3, <2>7
      <4>2. Verdict \in {"reject", "inconclusive"}
        BY <3>3, <2>7
      <4>3. Rank[Decide(more, champion, TRUE)] \in {1, 2} /\ Rank[Verdict] \in {0, 1}
        BY Zenon, <4>1, <4>2, <2>8
      <4>4. \A x \in {1, 2}, y \in {0, 1} : x >= y
        OBVIOUS
      <4> QED BY Zenon, <4>3, <4>4
    <3> QED BY <3>1, <3>2, <3>3
  <2> QED BY <2>9 DEF more
<1> QED BY <1>1, AlwaysScreened, PTL

(* A candidate can be promoted on exactly the panels with headroom on      *)
(* every task, which panel.ts computes and does not ask for: the bound on  *)
(* the mean turns none of them down (panel.ts:305), but lets others pass.  *)
THEOREM HeadroomIsWhatPromotes ==
    ASSUME NEW arm \in Arm
    PROVE  /\ Promotable(arm) <=> EveryTaskCanProduceWin(arm)
           /\ Promotable(arm) => AggregateThresholdSatisfied(arm)
<1>1. Perfect \in Arm /\ \A t \in Tasks : Perfect[t] = 3
  BY DEF Perfect, Arm, Repetitions
<1>2. Promotable(arm) <=> \A t \in Tasks : 3 > arm[t]
  BY <1>1, SurpassesIsSweep DEF Promotable
<1>3. \A t \in Tasks : CanProduceTaskWin(arm, t) <=> 3 > arm[t]
  BY ArmIs DEF CanProduceTaskWin, Repetitions
<1>4. ~AggregateThresholdSatisfied(arm) => arm[1] = 3
  BY SaturatedIsPerfect
<1>5. 1 \in Tasks
  BY DEF Tasks
<1> QED BY <1>2, <1>3, <1>4, <1>5 DEF EveryTaskCanProduceWin

(* A panel with one task the champion never fails is accepted, and nobody  *)
(* can be promoted on it.                                                  *)
THEOREM AcceptedNotPromotable ==
    \E arm \in Arm : Assess(arm, TRUE) = "accepted" /\ ~Promotable(arm)
<1> DEFINE arm == [t \in Tasks |-> IF t = 1 THEN 3 ELSE 0]
<1>1. arm \in Arm /\ arm[1] = 3 /\ arm[2] = 0 /\ arm[3] = 0 /\ arm[4] = 0 /\ arm[5] = 0
  BY DEF Arm, Tasks, Repetitions
<1> HIDE DEF arm
<1>2. Total(arm) = 3
  BY <1>1, TotalIs
<1>3. Assess(arm, TRUE) = "accepted"
  BY <1>2 DEF Assess, AggregateThresholdSatisfied, Observations
<1>4. ~CanProduceTaskWin(arm, 1) /\ 1 \in Tasks
  BY <1>1 DEF CanProduceTaskWin, Repetitions, Tasks
<1>5. ~Promotable(arm)
  BY <1>1, <1>4, HeadroomIsWhatPromotes DEF EveryTaskCanProduceWin
<1> QED BY <1>1, <1>3, <1>5

(* The running product of binomialCoefficient is the binomial coefficient, *)
(* and the two tails of binomialUpperTail add up to all there is.          *)
THEOREM TailsAreBinomial == Spec => []BinomialExact
<1>1. Screened => BinomialExact
  <2> SUFFICES ASSUME Screened, candidate # None PROVE BinomialExact
    BY DEF BinomialExact
  <2>1. candidate \in Arm /\ champion \in Arm
    BY ArmsAssumption DEF Screened
  <2> DEFINE wins == Wins(candidate, champion)
             losses == Wins(champion, candidate)
  <2>2. wins \in 0..5 /\ losses \in 0..5 /\ wins + losses <= 5
    BY <2>1, WinsAndLosses
  <2>3. wins + losses \in 0..5 /\ wins \in 0..(wins + losses)
    BY <2>2
  <2>4. BinomialCoefficient(wins + losses, wins) = choose(wins + losses, wins)
    BY <2>3, BinomialIsPascal, ChooseIsPascal
  <2>5. UpperTail(wins + losses, wins) + UpperTail(wins + losses, losses + 1)
            = 2^(wins + losses)
    BY <2>2, TailsComplete
  <2> QED BY <2>4, <2>5 DEF BinomialExact
<1> QED BY <1>1, AlwaysScreened, PTL

(* A candidate is promoted only when it was rewarded more often than the   *)
(* champion on each of the five tasks: LOCAL.md:193 says that the rule of  *)
(* decision.ts needs wins on all of them to exceed its confidence.  One    *)
(* task on which the arms are level prevents a promotion, however large    *)
(* the difference of the means.                                            *)
THEOREM PromotionIsASweep ==
    Spec => [](decision = "promote" => \A t \in Tasks : candidate[t] > champion[t])
<1>1. Screened => (decision = "promote" => \A t \in Tasks : candidate[t] > champion[t])
  <2> SUFFICES ASSUME Screened, decision = "promote"
               PROVE  \A t \in Tasks : candidate[t] > champion[t]
    OBVIOUS
  <2>1. candidate # None
    BY ArmsAssumption DEF Screened
  <2>2. candidate \in Arm /\ champion \in Arm
    BY <2>1, ArmsAssumption DEF Screened
  <2>3. PICK valid \in BOOLEAN : decision = Decide(candidate, champion, valid)
    BY ArmsAssumption DEF Screened
  <2>4. Surpasses(candidate, champion)
    BY <2>3 DEF Decide
  <2> QED BY <2>2, <2>4, SurpassesIsSweep
<1> QED BY <1>1, AlwaysScreened, PTL

=============================================================================
