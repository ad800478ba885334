-------------------------- MODULE AroraScreenProofs --------------------------
(***************************************************************************)
(* Proofs about the Arora-GB screen, for every set of candidates, every    *)
(* instance the assumptions admit and every budget.                        *)
(*                                                                         *)
(* The first half is about the algebra: SeriesDegree, the solving degree   *)
(* the code computes is the first negative degree of the series, multiplied*)
(* and divided factor by factor.  It rests on the least element of a set   *)
(* of numbers, from which induction and the existence of a function with a *)
(* given recursion follow.  Pascal's rule turns the binomials of the code  *)
(* into one factor more (PowerStep) and one division more (CoefficientStep)*)
(*                                                                         *)
(* The second half is about the control.  ClearedIsAbove is not inductive: *)
(* that a candidate the walk has passed cannot fall below the threshold    *)
(* follows from what the bisection knows of the candidate in hand          *)
(* (BisectInv) and from the entries of the cache, whichever tier wrote     *)
(* them (MemoInv).  AlarmMeansExact and NoStrayAlarm follow from what the  *)
(* alarm has done so far (AlarmInv).                                       *)
(***************************************************************************)
EXTENDS AroraScreen, WellFoundedInduction, TLAPS

----------------------------------------------------------------------------
(* Least elements, induction and recursion *)

LessThan == {pair \in Nat \X Nat : pair[1] < pair[2]}

LEMMA LeastElement ==
    ASSUME NEW T \in SUBSET Nat, T # {}
    PROVE  \E x \in T : \A y \in T : x <= y
<1>1. IsWellFoundedOn(LessThan, Nat)
  BY NatLessThanWellFounded DEF OpToRel, LessThan
<1>2. PICK x \in T : \A y \in T : <<y, x>> \notin LessThan
  BY <1>1, WFMin
<1>3. \A y \in T : ~(y < x)
  BY <1>2 DEF LessThan
<1> QED
  BY <1>3

LEMMA Induction ==
    ASSUME NEW S, 0 \in S, \A n \in Nat : n \in S => n + 1 \in S
    PROVE  Nat \subseteq S
<1>1. SUFFICES ASSUME Nat \ S # {} PROVE FALSE
  OBVIOUS
<1>2. PICK x \in Nat \ S : \A y \in Nat \ S : x <= y
  BY <1>1, LeastElement
<1>3. x - 1 \in Nat /\ x - 1 \in S /\ (x - 1) + 1 = x
  BY <1>2
<1> QED
  BY <1>3

\* f is computed from base by the steps 1 .. n
IsStep(step, X) == step \in [Nat -> [X -> X]]
Computed(f, base, step, n, X) ==
    /\ f \in [0 .. n -> X]
    /\ f[0] = base
    /\ \A i \in 1 .. n : f[i] = step[i][f[i - 1]]

LEMMA ComputedExists ==
    ASSUME NEW X, NEW base \in X, NEW step, IsStep(step, X), NEW N \in Nat
    PROVE  \E f : Computed(f, base, step, N, X)
<1> USE DEF IsStep, Computed
<1> DEFINE S == {m \in Nat : \E f : Computed(f, base, step, m, X)}
<1>1. 0 \in S
  <2> DEFINE f == [n \in 0 .. 0 |-> base]
  <2>1. Computed(f, base, step, 0, X)
    OBVIOUS
  <2> HIDE DEF f
  <2> QED
    BY <2>1
<1>2. ASSUME NEW m \in Nat, m \in S PROVE m + 1 \in S
  <2>1. PICK f \in [0 .. m -> X] :
            f[0] = base /\ \A i \in 1 .. m : f[i] = step[i][f[i - 1]]
    BY <1>2
  <2> DEFINE g == [n \in 0 .. m + 1 |-> IF n = m + 1 THEN step[m + 1][f[m]] ELSE f[n]]
  <2>2. step[m + 1][f[m]] \in X
    OBVIOUS
  <2>3. g \in [0 .. m + 1 -> X] /\ g[m + 1] = step[m + 1][f[m]]
    BY <2>2
  <2>4. \A n \in 0 .. m : g[n] = f[n]
    OBVIOUS
  <2> HIDE DEF g
  <2>5. ASSUME NEW n \in 1 .. m + 1 PROVE g[n] = step[n][g[n - 1]]
    <3>1. CASE n = m + 1
      <4>1. n - 1 = m /\ m \in 0 .. m
        BY <3>1
      <4> QED
        BY <2>3, <2>4, <3>1, <4>1
    <3>2. CASE n \in 1 .. m
      <4>1. f[n] = step[n][f[n - 1]]
        BY <2>1, <3>2
      <4>2. n \in 0 .. m /\ n - 1 \in 0 .. m
        BY <3>2
      <4>3. g[n] = f[n] /\ g[n - 1] = f[n - 1]
        BY <2>4, <4>2
      <4> QED
        BY <4>1, <4>3
    <3>3. n = m + 1 \/ n \in 1 .. m
      OBVIOUS
    <3> QED
      BY <3>1, <3>2, <3>3
  <2>6. g[0] = base
    <3>1. f[0] = base /\ 0 \in 0 .. m
      BY <2>1
    <3> QED
      BY <2>4, <3>1
  <2> QED
    BY <2>3, <2>5, <2>6
<1>3. Nat \subseteq S
  <2> HIDE DEF S
  <2> QED
    BY <1>1, <1>2, Induction
<1> QED
  BY <1>3

LEMMA ComputedAgree ==
    ASSUME NEW X, NEW base \in X, NEW step, NEW m \in Nat, NEW n \in Nat, m <= n,
           NEW f, Computed(f, base, step, m, X), NEW g, Computed(g, base, step, n, X)
    PROVE  \A i \in 0 .. m : f[i] = g[i]
<1> DEFINE S == {i \in Nat : i <= m => f[i] = g[i]}
<1>1. 0 \in S
  BY DEF Computed
<1>2. ASSUME NEW i \in Nat, i \in S PROVE i + 1 \in S
  <2> SUFFICES ASSUME i + 1 <= m PROVE f[i + 1] = g[i + 1]
    OBVIOUS
  <2>1. f[i] = g[i] /\ i + 1 \in 1 .. m /\ i + 1 \in 1 .. n /\ (i + 1) - 1 = i
    BY <1>2
  <2> QED
    BY <2>1 DEF Computed
<1>3. Nat \subseteq S
  <2> HIDE DEF S
  <2> QED
    BY <1>1, <1>2, Induction
<1> QED
  BY <1>3

LEMMA RecursionOnNat ==
    ASSUME NEW X, NEW base \in X, NEW step, IsStep(step, X)
    PROVE  \E f \in [Nat -> X] :
              f[0] = base /\ \A n \in Nat : f[n + 1] = step[n + 1][f[n]]
<1> DEFINE upTo(n) == CHOOSE g : Computed(g, base, step, n, X)
           f == [n \in Nat |-> upTo(n)[n]]
<1>1. \A n \in Nat : Computed(upTo(n), base, step, n, X)
  BY ComputedExists
<1> HIDE DEF upTo
<1>2. \A n \in Nat : upTo(n)[n] \in X
  BY <1>1 DEF Computed
<1>3. f \in [Nat -> X] /\ f[0] = base
  BY <1>1, <1>2 DEF Computed
<1>4. ASSUME NEW n \in Nat PROVE f[n + 1] = step[n + 1][f[n]]
  <2>1. upTo(n)[n] = upTo(n + 1)[n]
    <3>1. Computed(upTo(n), base, step, n, X) /\ Computed(upTo(n + 1), base, step, n + 1, X)
      BY <1>1
    <3>0. n + 1 \in Nat /\ n <= n + 1
      OBVIOUS
    <3>2. \A i \in 0 .. n : upTo(n)[i] = upTo(n + 1)[i]
      BY <3>0, <3>1, ComputedAgree
    <3> QED
      BY <3>2
  <2>2. upTo(n + 1)[n + 1] = step[n + 1][upTo(n + 1)[n]]
    <3>1. Computed(upTo(n + 1), base, step, n + 1, X) /\ n + 1 \in 1 .. n + 1 /\ (n + 1) - 1 = n
      BY <1>1
    <3> QED
      BY <3>1 DEF Computed
  <2> QED
    BY <2>1, <2>2
<1> QED
  BY <1>3, <1>4

\* factorial
IsFactorial(f) == f = [n \in Nat |-> IF n = 0 THEN 1 ELSE n * f[n - 1]]

LEMMA FactorialExists == \E f : IsFactorial(f)
<1> DEFINE X == Nat
           step == [n \in Nat |-> [x \in X |-> n * x]]
<1>1. IsStep(step, X) /\ 1 \in X
  <2>1. \A n, x \in Nat : n * x \in Nat
    OBVIOUS
  <2> QED
    BY <2>1 DEF IsStep
<1>2. \E f \in [Nat -> X] : f[0] = 1 /\ \A n \in Nat : f[n + 1] = step[n + 1][f[n]]
  <2> HIDE DEF X, step
  <2> QED
    BY <1>1, RecursionOnNat, SMTT(30)
<1>3. PICK f \in [Nat -> X] : f[0] = 1 /\ \A n \in Nat : f[n + 1] = step[n + 1][f[n]]
  BY <1>2
<1>4. ASSUME NEW n \in Nat, n # 0 PROVE f[n] = n * f[n - 1]
  <2>1. n - 1 \in Nat /\ (n - 1) + 1 = n /\ f[n - 1] \in Nat
    BY <1>4
  <2>2. f[n] = step[n][f[n - 1]]
    BY <1>3, <2>1
  <2> QED
    BY <2>1, <2>2
<1>5. f = [n \in Nat |-> IF n = 0 THEN 1 ELSE n * f[n - 1]]
  BY <1>3, <1>4
<1> QED
  BY <1>5 DEF IsFactorial

LEMMA Factorial ==
    /\ factorial[0] = 1
    /\ \A n \in Nat : factorial[n + 1] = (n + 1) * factorial[n]
<1>1. IsFactorial(CHOOSE f : IsFactorial(f))
  BY FactorialExists
<1>2. factorial = CHOOSE f : IsFactorial(f)
  BY DEF factorial, IsFactorial
<1>3. factorial = [n \in Nat |-> IF n = 0 THEN 1 ELSE n * factorial[n - 1]]
  BY <1>1, <1>2 DEF IsFactorial
<1>4. ASSUME NEW n \in Nat PROVE factorial[n + 1] = (n + 1) * factorial[n]
  <2>1. n + 1 \in Nat /\ n + 1 # 0 /\ (n + 1) - 1 = n
    OBVIOUS
  <2> QED
    BY <1>3, <2>1
<1> QED
  BY <1>3, <1>4

LEMMA FactorialPositive == \A n \in Nat : factorial[n] \in Nat \ {0}
<1> DEFINE S == {n \in Nat : factorial[n] \in Nat \ {0}}
<1>1. 0 \in S
  BY Factorial
<1>2. ASSUME NEW n \in Nat, n \in S PROVE n + 1 \in S
  <2>1. factorial[n + 1] = (n + 1) * factorial[n]
    BY Factorial
  <2>2. \A x, y \in Nat \ {0} : x * y \in Nat \ {0}
    OBVIOUS
  <2> QED
    BY <1>2, <2>1, <2>2
<1>3. Nat \subseteq S
  <2> HIDE DEF S
  <2> QED
    BY <1>1, <1>2, Induction
<1> QED
  BY <1>3

LEMMA ExactDivision ==
    ASSUME NEW a \in Nat, NEW b \in Nat \ {0}
    PROVE  (a * b) \div b = a
  OBVIOUS

\* Counts(n, k, c): c is n! over k! (n - k)!
Counts(n, k, c) == c * (factorial[k] * factorial[n - k]) = factorial[n]

LEMMA CountsIsChoose ==
    ASSUME NEW n \in Nat, NEW k \in 0 .. n, NEW c \in Nat, Counts(n, k, c)
    PROVE  choose(n, k) = c
<1>1. factorial[k] * factorial[n - k] \in Nat \ {0}
  <2>1. factorial[k] \in Nat \ {0} /\ factorial[n - k] \in Nat \ {0}
    BY FactorialPositive
  <2>2. \A x, y \in Nat \ {0} : x * y \in Nat \ {0}
    OBVIOUS
  <2> QED
    BY <2>1, <2>2
<1> QED
  BY <1>1, ExactDivision DEF Counts, choose

LEMMA CountsAdd ==
    ASSUME NEW a \in Int, NEW b \in Int, NEW p \in Int, NEW q \in Int, NEW m \in Int,
           NEW k \in Int, NEW l \in Int,
           a * (p * (l * q)) = m, b * ((k * p) * q) = m
    PROVE  (a + b) * ((k * p) * (l * q)) = (k + l) * m
<1>1. (a + b) * ((k * p) * (l * q)) = k * (a * (p * (l * q))) + l * (b * ((k * p) * q))
  OBVIOUS
<1> QED
  BY <1>1

LEMMA CountsStep ==
    ASSUME NEW n \in Nat, NEW k \in 1 .. n, NEW a \in Nat, NEW b \in Nat,
           Counts(n, k - 1, a), Counts(n, k, b)
    PROVE  Counts(n + 1, k, a + b)
<1> DEFINE p == factorial[k - 1]
           q == factorial[n - k]
           l == n + 1 - k
           m == factorial[n]
<1>1. p \in Int /\ q \in Int /\ m \in Int /\ l \in Int /\ k \in Int /\ k + l = n + 1
  BY FactorialPositive
<1>2. factorial[k] = k * p
  <2>1. k - 1 \in Nat /\ (k - 1) + 1 = k
    OBVIOUS
  <2> QED
    BY <2>1, Factorial
<1>3. factorial[l] = l * q
  <2>1. n - k \in Nat /\ (n - k) + 1 = l
    OBVIOUS
  <2> QED
    BY <2>1, Factorial
<1>4. factorial[n + 1] = (k + l) * m
  BY <1>1, Factorial
<1>5. n - (k - 1) = l
  OBVIOUS
<1>6. a * (p * (l * q)) = m /\ b * ((k * p) * q) = m
  BY <1>2, <1>3, <1>5 DEF Counts
<1> HIDE DEF p, q, m
<1>7. (a + b) * ((k * p) * (l * q)) = (k + l) * m
  <2> HIDE DEF l
  <2> QED
    BY <1>1, <1>6, CountsAdd
<1> QED
  BY <1>2, <1>3, <1>4, <1>7 DEF Counts

LEMMA CountsEdges ==
    ASSUME NEW n \in Nat
    PROVE  Counts(n, 0, 1) /\ Counts(n, n, 1)
<1>1. factorial[n] \in Nat /\ factorial[0] = 1 /\ n - 0 = n /\ n - n = 0
  BY Factorial, FactorialPositive
<1> QED
  BY <1>1 DEF Counts

LEMMA CountsExist == \A n \in Nat : \A k \in 0 .. n : \E c \in Nat : Counts(n, k, c)
<1> DEFINE S == {n \in Nat : \A k \in 0 .. n : \E c \in Nat : Counts(n, k, c)}
<1>1. 0 \in S
  <2>1. ASSUME NEW k \in 0 .. 0 PROVE \E c \in Nat : Counts(0, k, c)
    <3>1. k = 0 /\ Counts(0, 0, 1)
      BY CountsEdges
    <3> QED
      BY <3>1
  <2> QED
    BY <2>1
<1>2. ASSUME NEW n \in Nat, n \in S PROVE n + 1 \in S
  <2>1. ASSUME NEW k \in 0 .. n + 1 PROVE \E c \in Nat : Counts(n + 1, k, c)
    <3>1. CASE k = 0 \/ k = n + 1
      BY <3>1, CountsEdges
    <3>2. CASE k \in 1 .. n
      <4>1. PICK a \in Nat, b \in Nat : Counts(n, k - 1, a) /\ Counts(n, k, b)
        BY <1>2, <3>2
      <4>2. Counts(n + 1, k, a + b) /\ a + b \in Nat
        BY <3>2, <4>1, CountsStep
      <4> QED
        BY <4>2
    <3> QED
      BY <3>1, <3>2
  <2> QED
    BY <2>1
<1>3. Nat \subseteq S
  <2> HIDE DEF S
  <2> QED
    BY <1>1, <1>2, Induction
<1> QED
  BY <1>3

LEMMA ChooseCounts ==
    ASSUME NEW n \in Nat, NEW k \in 0 .. n
    PROVE  choose(n, k) \in Nat /\ Counts(n, k, choose(n, k))
<1>1. PICK c \in Nat : Counts(n, k, c)
  BY CountsExist
<1> QED
  BY <1>1, CountsIsChoose

LEMMA ChooseEdges ==
    ASSUME NEW n \in Nat
    PROVE  choose(n, 0) = 1 /\ choose(n, n) = 1
  BY CountsEdges, CountsIsChoose

LEMMA Pascal ==
    ASSUME NEW n \in Nat, NEW k \in 1 .. n
    PROVE  choose(n + 1, k) = choose(n, k - 1) + choose(n, k)
<1>1. k - 1 \in 0 .. n /\ k \in 0 .. n /\ k \in 0 .. n + 1
  OBVIOUS
<1>2. Counts(n + 1, k, choose(n, k - 1) + choose(n, k))
  BY <1>1, ChooseCounts, CountsStep
<1>3. choose(n, k - 1) + choose(n, k) \in Nat
  BY <1>1, ChooseCounts
<1> QED
  BY <1>1, <1>2, <1>3, CountsIsChoose

\* Sums
IsSums(s, f) == s = [d \in DOMAIN f |-> IF d = 0 THEN f[0] ELSE s[d - 1] + f[d]]

LEMMA SumsExist ==
    ASSUME NEW n \in Nat, NEW f \in [0 .. n -> Int]
    PROVE  \E s \in [0 .. n -> Int] : IsSums(s, f)
<1> DEFINE X == Int
           step == [i \in Nat |-> [x \in X |-> IF i \in 1 .. n THEN x + f[i] ELSE x]]
<1>1. IsStep(step, X) /\ f[0] \in X
  BY DEF IsStep
<1>2. \E s : Computed(s, f[0], step, n, X)
  <2> HIDE DEF X, step
  <2> QED
    BY <1>1, ComputedExists
<1>3. PICK s : Computed(s, f[0], step, n, X)
  BY <1>2
<1>4. s \in [0 .. n -> Int] /\ s[0] = f[0]
  BY <1>3 DEF Computed
<1>5. ASSUME NEW d \in 0 .. n, d # 0 PROVE s[d] = s[d - 1] + f[d]
  <2>1. d - 1 \in 0 .. n /\ d \in 1 .. n
    BY <1>5
  <2>2. s[d] = step[d][s[d - 1]]
    BY <1>3, <2>1 DEF Computed
  <2>3. s[d - 1] \in Int
    BY <1>4, <2>1
  <2> QED
    BY <2>1, <2>2, <2>3
<1>6. s = [d \in DOMAIN f |-> IF d = 0 THEN f[0] ELSE s[d - 1] + f[d]]
  BY <1>4, <1>5
<1> QED
  BY <1>4, <1>6 DEF IsSums

RunningSum(s, f, n) == s[0] = f[0] /\ \A d \in 1 .. n : s[d] = s[d - 1] + f[d]

LEMMA SumsUnique ==
    ASSUME NEW n \in Nat, NEW f,
           NEW s, RunningSum(s, f, n), NEW t, RunningSum(t, f, n)
    PROVE  \A d \in 0 .. n : s[d] = t[d]
<1> USE DEF RunningSum
<1> DEFINE S == {d \in Nat : d <= n => s[d] = t[d]}
<1>1. 0 \in S
  OBVIOUS
<1>2. ASSUME NEW d \in Nat, d \in S PROVE d + 1 \in S
  <2> SUFFICES ASSUME d + 1 <= n PROVE s[d + 1] = t[d + 1]
    OBVIOUS
  <2>1. d + 1 \in 1 .. n /\ (d + 1) - 1 = d /\ s[d] = t[d]
    BY <1>2
  <2> QED
    BY <2>1
<1>3. Nat \subseteq S
  <2> HIDE DEF S
  <2> QED
    BY <1>1, <1>2, Induction
<1> QED
  BY <1>3

LEMMA SumsRecursion ==
    ASSUME NEW n \in Nat, NEW f \in [0 .. n -> Int]
    PROVE  /\ Sums(f) \in [0 .. n -> Int]
           /\ RunningSum(Sums(f), f, n)
<1>1. PICK t \in [0 .. n -> Int] : IsSums(t, f)
  BY SumsExist
<1>2. IsSums(CHOOSE s : IsSums(s, f), f)
  BY <1>1
<1>3. Sums(f) = CHOOSE s : IsSums(s, f)
  BY DEF Sums, IsSums
<1>4. IsSums(Sums(f), f)
  BY <1>2, <1>3
<1>a. ASSUME NEW s, IsSums(s, f)
      PROVE  s = [d \in 0 .. n |-> s[d]] /\ RunningSum(s, f, n)
  <2>1. DOMAIN f = 0 .. n /\ 0 \in 0 .. n
    OBVIOUS
  <2>2. s = [d \in 0 .. n |-> IF d = 0 THEN f[0] ELSE s[d - 1] + f[d]]
    BY <1>a, <2>1 DEF IsSums
  <2>3. s[0] = f[0]
    BY <2>1, <2>2
  <2>4. ASSUME NEW d \in 1 .. n PROVE s[d] = s[d - 1] + f[d]
    <3>1. d \in 0 .. n /\ d # 0
      OBVIOUS
    <3> QED
      BY <2>2, <3>1
  <2>5. s = [d \in 0 .. n |-> s[d]]
    BY <2>2
  <2> QED
    BY <2>3, <2>4, <2>5 DEF RunningSum
<1>5. Sums(f) = [d \in 0 .. n |-> Sums(f)[d]] /\ RunningSum(Sums(f), f, n)
  BY <1>4, <1>a
<1>6. RunningSum(t, f, n)
  BY <1>1, <1>a
<1>7. \A d \in 0 .. n : Sums(f)[d] = t[d]
  BY <1>5, <1>6, SumsUnique
<1> QED
  BY <1>5, <1>7

\* A function that adds up like the sums is the sums.
LEMMA SumsAre ==
    ASSUME NEW n \in Nat, NEW f \in [0 .. n -> Int],
           NEW s, RunningSum(s, f, n)
    PROVE  \A d \in 0 .. n : Sums(f)[d] = s[d]
  BY SumsRecursion, SumsUnique

\* The sums up to a degree depend on the values up to it only.
LEMMA SumsAgree ==
    ASSUME NEW m \in Nat, NEW f \in [0 .. m -> Int],
           NEW n \in Nat, NEW g \in [0 .. n -> Int],
           m <= n, \A d \in 0 .. m : f[d] = g[d]
    PROVE  \A d \in 0 .. m : Sums(f)[d] = Sums(g)[d]
<1>1. RunningSum(Sums(g), f, m)
  <2>1. RunningSum(Sums(g), g, n)
    BY SumsRecursion
  <2> QED
    BY <2>1 DEF RunningSum
<1> QED
  BY <1>1, SumsAre

\* (1 - z^degree)^count
LEMMA TermsType ==
    ASSUME NEW L \in Nat, NEW poly \in [0 .. L -> Int], NEW degree \in Nat \ {0},
           NEW count \in Nat, NEW d \in 0 .. L
    PROVE  Terms(poly, degree, count, d) \in [0 .. count -> Int]
<1>1. ASSUME NEW i \in 0 .. count, i * degree <= d
      PROVE  Sign(i) * choose(count, i) * poly[d - i * degree] \in Int
  <2>1. i * degree \in Nat
    OBVIOUS
  <2>2. poly[d - i * degree] \in Int
    BY <1>1, <2>1
  <2>3. Sign(i) \in Int /\ choose(count, i) \in Int
    BY ChooseCounts DEF Sign
  <2>4. \A x, y, z \in Int : x * y * z \in Int
    OBVIOUS
  <2> QED
    BY <2>2, <2>3, <2>4
<1> QED
  BY <1>1 DEF Terms

PowerCoefficient(poly, degree, count, d) == Sums(Terms(poly, degree, count, d))[count]

LEMMA PowerZero ==
    ASSUME NEW L \in Nat, NEW poly \in [0 .. L -> Int], NEW degree \in Nat \ {0},
           NEW d \in 0 .. L
    PROVE  PowerCoefficient(poly, degree, 0, d) = poly[d]
<1>1. Terms(poly, degree, 0, d) \in [0 .. 0 -> Int]
  BY TermsType
<1>2. Sums(Terms(poly, degree, 0, d))[0] = Terms(poly, degree, 0, d)[0]
  BY <1>1, SumsRecursion DEF RunningSum
<1>3. 0 * degree = 0 /\ Sign(0) = 1 /\ choose(0, 0) = 1
  BY ChooseEdges DEF Sign
<1>4. Terms(poly, degree, 0, d)[0] = 1 * 1 * poly[d]
  BY <1>3 DEF Terms
<1> QED
  BY <1>2, <1>4 DEF PowerCoefficient

\* Pascal's rule for the terms
TermsAdd(poly, degree, count, d) ==
    \A i \in 0 .. count + 1 :
        Terms(poly, degree, count + 1, d)[i] =
            (IF i <= count THEN Terms(poly, degree, count, d)[i] ELSE 0)
            - (IF i = 0 \/ d < degree THEN 0
               ELSE Terms(poly, degree, count, d - degree)[i - 1])

LEMMA TermsStep ==
    ASSUME NEW L \in Nat, NEW poly \in [0 .. L -> Int], NEW degree \in Nat \ {0},
           NEW count \in Nat, NEW d \in 0 .. L
    PROVE  TermsAdd(poly, degree, count, d)
<1> USE DEF TermsAdd
<1> TAKE i \in 0 .. count + 1
<1> DEFINE T(c, e, j) == IF j * degree <= e
                         THEN Sign(j) * choose(c, j) * poly[e - j * degree] ELSE 0
<1>1. /\ Terms(poly, degree, count + 1, d)[i] = T(count + 1, d, i)
      /\ i <= count => Terms(poly, degree, count, d)[i] = T(count, d, i)
      /\ i # 0 /\ d >= degree =>
            Terms(poly, degree, count, d - degree)[i - 1] = T(count, d - degree, i - 1)
  BY DEF Terms
<1>2. i * degree \in Nat /\ (i - 1) * degree = i * degree - degree
  OBVIOUS
<1>3. CASE i = 0
  <2>1. T(count + 1, d, 0) = T(count, d, 0)
    BY ChooseEdges
  <2>2. T(count, d, 0) \in Int
    <3>0. 0 \in 0 .. count
      OBVIOUS
    <3>1. Terms(poly, degree, count, d) \in [0 .. count -> Int]
      BY TermsType
    <3>2. Terms(poly, degree, count, d)[0] \in Int
      BY <3>0, <3>1
    <3> QED
      BY <1>1, <1>3, <3>2
  <2> QED
    BY <1>1, <1>3, <2>1, <2>2
<1>4. CASE i # 0 /\ ~(i * degree <= d)
  <2>1. d >= degree => ~((i - 1) * degree <= d - degree)
    BY <1>2, <1>4
  <2> QED
    BY <1>1, <1>4, <2>1
<1>5. CASE i # 0 /\ i * degree <= d
  <2> DEFINE x == poly[d - i * degree]
  <2>1. d >= degree /\ (i - 1) * degree <= d - degree /\ x \in Int
        /\ (d - degree) - (i - 1) * degree = d - i * degree
    <3>1. i * degree >= degree
      BY <1>5
    <3> QED
      BY <1>2, <1>5, <3>1
  <2>2. Sign(i) = -Sign(i - 1) /\ Sign(i) \in Int
    BY <1>5 DEF Sign
  <2>3. T(count + 1, d, i) = Sign(i) * choose(count + 1, i) * x
    BY <1>5
  <2>4. T(count, d - degree, i - 1) = (-Sign(i)) * choose(count, i - 1) * x
    <3>1. T(count, d - degree, i - 1) =
              Sign(i - 1) * choose(count, i - 1) * poly[(d - degree) - (i - 1) * degree]
      BY <2>1
    <3>2. Sign(i - 1) = -Sign(i)
      BY <1>5 DEF Sign
    <3> QED
      BY <2>1, <3>1, <3>2
  <2>5. choose(count, i - 1) \in Int
    BY <1>5, ChooseCounts
  <2>6. CASE i <= count
    <3>1. T(count, d, i) = Sign(i) * choose(count, i) * x
      BY <1>5
    <3>2. choose(count + 1, i) = choose(count, i - 1) + choose(count, i)
      BY <1>5, <2>6, Pascal
    <3>3. choose(count, i) \in Int
      BY <1>5, <2>6, ChooseCounts
    <3>4. \A s, a, b, y \in Int : s * (a + b) * y = s * b * y - (-s) * a * y
      OBVIOUS
    <3>5. T(count + 1, d, i) = T(count, d, i) - T(count, d - degree, i - 1)
      <4> HIDE DEF T, x
      <4>1. Sign(i) * (choose(count, i - 1) + choose(count, i)) * x =
              Sign(i) * choose(count, i) * x - (-Sign(i)) * choose(count, i - 1) * x
        BY <2>1, <2>2, <2>5, <3>3, <3>4, SMTT(30)
      <4> QED
        BY <2>3, <2>4, <3>1, <3>2, <4>1
    <3> QED
      BY <1>1, <1>5, <2>1, <2>6, <3>5
  <2>7. CASE i = count + 1
    <3>1. choose(count + 1, i) = 1 /\ choose(count, i - 1) = 1
      BY <2>7, ChooseEdges
    <3>2. \A s, y \in Int : s * 1 * y = 0 - (-s) * 1 * y
      OBVIOUS
    <3>3. T(count + 1, d, i) = 0 - T(count, d - degree, i - 1)
      <4> HIDE DEF T, x
      <4>1. Sign(i) * 1 * x = 0 - (-Sign(i)) * 1 * x
        BY <2>1, <2>2, <3>2
      <4> QED
        BY <2>3, <2>4, <3>1, <4>1
    <3> QED
      BY <1>1, <1>5, <2>1, <2>7, <3>3
  <2> QED
    BY <2>6, <2>7
<1> QED
  BY <1>3, <1>4, <1>5

\* One factor more
PowerAdds(poly, degree, count, d) ==
    PowerCoefficient(poly, degree, count + 1, d) =
        PowerCoefficient(poly, degree, count, d)
        - (IF d >= degree THEN PowerCoefficient(poly, degree, count, d - degree) ELSE 0)

LEMMA PowerStep ==
    ASSUME NEW L \in Nat, NEW poly \in [0 .. L -> Int], NEW degree \in Nat \ {0},
           NEW count \in Nat, NEW d \in 0 .. L
    PROVE  PowerAdds(poly, degree, count, d)
<1> DEFINE f == Terms(poly, degree, count + 1, d)
           a == Terms(poly, degree, count, d)
           b == Terms(poly, degree, count, d - degree)
           A == Sums(a)
           B == Sums(b)
           g == [k \in 0 .. count + 1 |->
                    (IF k <= count THEN A[k] ELSE A[count])
                    - (IF k = 0 \/ d < degree THEN 0 ELSE B[k - 1])]
<1>1. /\ f \in [0 .. count + 1 -> Int] /\ a \in [0 .. count -> Int]
      /\ A \in [0 .. count -> Int] /\ RunningSum(A, a, count)
      /\ d >= degree => /\ b \in [0 .. count -> Int]
                        /\ B \in [0 .. count -> Int] /\ RunningSum(B, b, count)
  <2>0. count + 1 \in Nat /\ (d >= degree => d - degree \in 0 .. L)
    OBVIOUS
  <2>1. f \in [0 .. count + 1 -> Int] /\ a \in [0 .. count -> Int]
    BY <2>0, TermsType
  <2>2. d >= degree => b \in [0 .. count -> Int]
    BY <2>0, TermsType
  <2> HIDE DEF f, a, b
  <2> QED
    BY <2>0, <2>1, <2>2, SumsRecursion
<1>2. \A i \in 0 .. count + 1 :
          f[i] = (IF i <= count THEN a[i] ELSE 0)
                 - (IF i = 0 \/ d < degree THEN 0 ELSE b[i - 1])
  <2>1. TermsAdd(poly, degree, count, d)
    BY TermsStep
  <2> QED
    BY <2>1 DEF TermsAdd
<1> HIDE DEF f, a, b, A, B
<1>3. g[0] = f[0]
  <2>1. g[0] = A[0] - 0 /\ f[0] = a[0] - 0
    BY <1>2
  <2> QED
    BY <1>1, <2>1 DEF RunningSum
<1>4. ASSUME NEW k \in 1 .. count + 1 PROVE g[k] = g[k - 1] + f[k]
  <2>1. CASE d < degree
    <3>1. CASE k <= count
      <4>1. g[k] = A[k] /\ g[k - 1] = A[k - 1] /\ f[k] = a[k]
        <5>1. k \in 0 .. count + 1 /\ k - 1 \in 0 .. count + 1 /\ k - 1 <= count
          BY <3>1
        <5>2. /\ g[k] = A[k] - 0 /\ g[k - 1] = A[k - 1] - 0 /\ f[k] = a[k] - 0
          BY <1>2, <2>1, <3>1, <5>1
        <5>3. k \in 0 .. count /\ k - 1 \in 0 .. count
          BY <3>1
        <5>4. A[k] \in Int /\ A[k - 1] \in Int /\ a[k] \in Int
          BY <1>1, <5>3
        <5> QED
          BY <5>2, <5>4, SMTT(30)
      <4>2. k \in 1 .. count
        BY <3>1
      <4>3. A[k] = A[k - 1] + a[k]
        BY <1>1, <4>2 DEF RunningSum
      <4> QED
        BY <4>1, <4>3
    <3>2. CASE k = count + 1
      <4>1. A[count] \in Int /\ k - 1 = count
        BY <1>1, <3>2
      <4>2. g[k] = A[count] - 0 /\ g[k - 1] = A[count] - 0 /\ f[k] = 0 - 0
        BY <1>2, <2>1, <3>2, <4>1
      <4> QED
        BY <4>1, <4>2
    <3> QED
      BY <3>1, <3>2
  <2>2. CASE d >= degree
    <3> DEFINE before == IF k = 1 THEN 0 ELSE B[k - 2]
    <3>1. B[k - 1] = before + b[k - 1] /\ before \in Int /\ b[k - 1] \in Int
      <4>1. CASE k = 1
        BY <1>1, <2>2, <4>1 DEF RunningSum
      <4>2. CASE k # 1
        <5>1. k - 1 \in 1 .. count /\ k - 2 \in 0 .. count /\ (k - 1) - 1 = k - 2
          BY <4>2
        <5>2. B[k - 1] = B[k - 2] + b[k - 1]
          BY <1>1, <2>2, <5>1 DEF RunningSum
        <5>3. B[k - 2] \in Int /\ b[k - 1] \in Int
          <6>1. k - 1 \in 0 .. count
            BY <5>1
          <6> QED
            BY <1>1, <2>2, <5>1, <6>1
        <5> QED
          BY <4>2, <5>2, <5>3
      <4> QED
        BY <4>1, <4>2
    <3>2. /\ g[k] = (IF k <= count THEN A[k] ELSE A[count]) - B[k - 1]
          /\ g[k - 1] = A[k - 1] - before
          /\ f[k] = (IF k <= count THEN a[k] ELSE 0) - b[k - 1]
      BY <1>2, <2>2
    <3>3. (IF k <= count THEN A[k] ELSE A[count])
              = A[k - 1] + (IF k <= count THEN a[k] ELSE 0)
          /\ A[k - 1] \in Int /\ (IF k <= count THEN a[k] ELSE 0) \in Int
      <4>1. CASE k <= count
        BY <1>1, <4>1 DEF RunningSum
      <4>2. CASE k = count + 1
        BY <1>1, <4>2
      <4> QED
        BY <4>1, <4>2
    <3> DEFINE top  == IF k <= count THEN A[k] ELSE A[count]
               more == IF k <= count THEN a[k] ELSE 0
    <3> HIDE DEF before, g, top, more
    <3>4. g[k] = top - B[k - 1] /\ f[k] = more - b[k - 1]
      BY <3>2 DEF top, more
    <3>5. top = A[k - 1] + more /\ A[k - 1] \in Int /\ more \in Int
      BY <3>3 DEF top, more
    <3>6. \A u, w, p, c \in Int : (u + w) - (p + c) = (u - p) + (w - c)
      OBVIOUS
    <3>7. g[k] = (A[k - 1] + more) - (before + b[k - 1])
      BY <3>1, <3>4, <3>5, Zenon
    <3>8. g[k - 1] + f[k] = (A[k - 1] - before) + (more - b[k - 1])
      BY <3>2, <3>4, Zenon
    <3> QED
      BY <3>1, <3>5, <3>6, <3>7, <3>8, SMTT(30)
  <2> QED
    BY <2>1, <2>2
<1>5. Sums(f)[count + 1] = g[count + 1]
  <2>1. RunningSum(g, f, count + 1)
    BY <1>3, <1>4 DEF RunningSum
  <2> HIDE DEF g
  <2> DEFINE n == count + 1
  <2>2. n \in Nat /\ f \in [0 .. n -> Int] /\ RunningSum(g, f, n)
    BY <1>1, <2>1
  <2>3. \A k \in 0 .. n : Sums(f)[k] = g[k]
    <3> HIDE DEF n
    <3> QED
      BY <2>2, SumsAre
  <2> QED
    BY <2>2, <2>3
<1>6. g[count + 1] = A[count] - (IF d < degree THEN 0 ELSE B[count])
  OBVIOUS
<1> QED
  BY <1>5, <1>6 DEF PowerAdds, PowerCoefficient, f, a, b, A, B

Poly(L) == [0 .. L -> Int]

FactorAt(p, degree, d) ==
    TimesFactor(p, degree)[d] = p[d] - (IF d >= degree THEN p[d - degree] ELSE 0)

LEMMA FactorType ==
    ASSUME NEW L \in Nat, NEW p \in Poly(L), NEW degree \in Nat \ {0}
    PROVE  /\ TimesFactor(p, degree) \in Poly(L)
           /\ \A d \in 0 .. L : FactorAt(p, degree, d)
  BY DEF TimesFactor, Poly, FactorAt

IsPower(s, poly, equation) ==
    s = [k \in 0 .. equation[2] |->
            IF k = 0 THEN poly ELSE TimesFactor(s[k - 1], equation[1])]

LEMMA PowerExists ==
    ASSUME NEW L \in Nat, NEW poly \in Poly(L), NEW equation \in Nat \X Nat,
           equation[1] # 0
    PROVE  \E s : IsPower(s, poly, equation)
<1> DEFINE X == Poly(L)
           n == equation[2]
           step == [i \in Nat |-> [p \in X |-> TimesFactor(p, equation[1])]]
<1>1. IsStep(step, X) /\ n \in Nat
  BY FactorType DEF IsStep
<1>2. \E s : Computed(s, poly, step, n, X)
  <2> HIDE DEF step, n
  <2> QED
    BY <1>1, ComputedExists
<1>3. PICK s : Computed(s, poly, step, n, X)
  BY <1>2
<1>4. ASSUME NEW k \in 0 .. n, k # 0 PROVE s[k] = TimesFactor(s[k - 1], equation[1])
  <2>1. k - 1 \in 0 .. n /\ k \in 1 .. n /\ k \in Nat
    BY <1>1, <1>4
  <2>2. s[k - 1] \in X /\ s[k] = step[k][s[k - 1]]
    BY <1>3, <2>1 DEF Computed
  <2> QED
    BY <2>1, <2>2
<1>5. s = [k \in 0 .. n |-> IF k = 0 THEN poly ELSE TimesFactor(s[k - 1], equation[1])]
  BY <1>3, <1>4 DEF Computed
<1> QED
  BY <1>5 DEF IsPower

\* The binomial theorem: count factors one after the other
LEMMA PowerIsBinomial ==
    ASSUME NEW L \in Nat, NEW poly \in Poly(L), NEW equation \in Nat \X Nat,
           equation[1] # 0
    PROVE  /\ TimesPower(poly, equation) \in Poly(L)
           /\ \A d \in 0 .. L : TimesPower(poly, equation)[d] =
                  PowerCoefficient(poly, equation[1], equation[2], d)
<1> DEFINE degree == equation[1]
           s == CHOOSE t : IsPower(t, poly, equation)
           Right(k) == /\ s[k] \in Poly(L)
                       /\ \A d \in 0 .. L :
                             s[k][d] = PowerCoefficient(poly, degree, k, d)
           S == {k \in Nat : k <= equation[2] => Right(k)}
<1>1. IsPower(s, poly, equation)
  BY PowerExists
<1>2. TimesPower(poly, equation) = s[equation[2]]
  BY DEF TimesPower, IsPower
<1> HIDE DEF s
<1>3. 0 \in S
  <2>1. s[0] = poly
    BY <1>1 DEF IsPower
  <2>2. \A d \in 0 .. L : poly[d] = PowerCoefficient(poly, degree, 0, d)
    BY PowerZero DEF Poly
  <2> QED
    BY <2>1, <2>2
<1>4. ASSUME NEW k \in Nat, k \in S PROVE k + 1 \in S
  <2>1. SUFFICES ASSUME k + 1 <= equation[2] PROVE Right(k + 1)
    OBVIOUS
  <2>2. Right(k)
    BY <1>4, <2>1
  <2>3. s[k + 1] = TimesFactor(s[k], degree)
    BY <1>1, <2>1 DEF IsPower
  <2>4. s[k + 1] \in Poly(L)
    BY <2>2, <2>3, FactorType
  <2>5. ASSUME NEW d \in 0 .. L
        PROVE  s[k + 1][d] = PowerCoefficient(poly, degree, k + 1, d)
    <3>1. FactorAt(s[k], degree, d)
      BY <2>2, FactorType
    <3>2. d >= degree => d - degree \in 0 .. L
      OBVIOUS
    <3>3. PowerAdds(poly, degree, k, d)
      <4>1. poly \in [0 .. L -> Int]
        BY DEF Poly
      <4> HIDE DEF degree
      <4>2. degree \in Nat \ {0}
        BY DEF degree
      <4> QED
        BY <4>1, <4>2, PowerStep
    <3>4. CASE d >= degree
      BY <2>2, <2>3, <3>1, <3>2, <3>3, <3>4 DEF FactorAt, PowerAdds
    <3>5. CASE d < degree
      BY <2>2, <2>3, <3>1, <3>3, <3>5 DEF FactorAt, PowerAdds
    <3> QED
      BY <3>4, <3>5
  <2> QED
    BY <2>4, <2>5
<1>5. Nat \subseteq S
  <2> HIDE DEF S
  <2> QED
    BY <1>3, <1>4, Induction
<1> QED
  BY <1>2, <1>5

LEMMA ExpandIsPower ==
    ASSUME NEW L \in Nat, NEW poly \in Poly(L), NEW equation \in Nat \X Nat
    PROVE  /\ TimesPower(poly, equation) \in Poly(L)
           /\ Expand(poly, equation, L) = TimesPower(poly, equation)
<1>1. CASE equation[1] = 0
  BY <1>1 DEF Expand, TimesPower
<1>2. CASE equation[1] # 0
  <2>1. /\ TimesPower(poly, equation) \in Poly(L)
        /\ \A d \in 0 .. L : TimesPower(poly, equation)[d] =
               PowerCoefficient(poly, equation[1], equation[2], d)
    BY <1>2, PowerIsBinomial
  <2>2. CASE equation[2] = 0
    <3>1. Expand(poly, equation, L) = poly
      BY <2>2 DEF Expand
    <3>2. \A d \in 0 .. L : TimesPower(poly, equation)[d] = poly[d]
      <4>1. equation[1] \in Nat \ {0} /\ poly \in [0 .. L -> Int]
        BY <1>2 DEF Poly
      <4>2. \A d \in 0 .. L : PowerCoefficient(poly, equation[1], 0, d) = poly[d]
        BY <4>1, PowerZero
      <4> QED
        BY <2>1, <2>2, <4>2
    <3> QED
      BY <2>1, <3>1, <3>2 DEF Poly
  <2>3. CASE equation[2] # 0
    <3>1. Expand(poly, equation, L) =
              [d \in 0 .. L |-> PowerCoefficient(poly, equation[1], equation[2], d)]
      BY <1>2, <2>3 DEF Expand, PowerCoefficient
    <3> QED
      BY <2>1, <3>1 DEF Poly
  <2> QED
    BY <2>2, <2>3
<1> QED
  BY <1>1, <1>2

Agree(p, q, L) == \A d \in 0 .. L : p[d] = q[d]

LEMMA PowerAgrees ==
    ASSUME NEW L \in Nat, NEW M \in Nat, L <= M, NEW p \in Poly(L), NEW q \in Poly(M),
           Agree(p, q, L), NEW equation \in Nat \X Nat
    PROVE  Agree(TimesPower(p, equation), TimesPower(q, equation), L)
<1>1. CASE equation[1] = 0
  BY <1>1 DEF TimesPower, Agree
<1>2. CASE equation[1] # 0
  <2> DEFINE degree == equation[1]  count == equation[2]
  <2> SUFFICES ASSUME NEW d \in 0 .. L
               PROVE  TimesPower(p, equation)[d] = TimesPower(q, equation)[d]
    BY DEF Agree
  <2>1. ASSUME NEW i \in 0 .. count, i * degree <= d
        PROVE  p[d - i * degree] = q[d - i * degree]
    <3>1. i * degree \in Nat
      OBVIOUS
    <3>2. d - i * degree \in 0 .. L
      BY <2>1, <3>1
    <3> QED
      BY <3>2 DEF Agree
  <2>2. Terms(p, degree, count, d) = Terms(q, degree, count, d)
    BY <2>1 DEF Terms
  <2>3. TimesPower(p, equation)[d] = PowerCoefficient(p, degree, count, d)
    BY <1>2, PowerIsBinomial
  <2>4. TimesPower(q, equation)[d] = PowerCoefficient(q, degree, count, d)
    <3>1. d \in 0 .. M
      OBVIOUS
    <3> QED
      BY <1>2, <3>1, PowerIsBinomial
  <2> QED
    BY <2>2, <2>3, <2>4 DEF PowerCoefficient
<1> QED
  BY <1>1, <1>2

----------------------------------------------------------------------------
\* The loop over the equations, coded and referenced

IsNumerator(s, equations, limit) ==
    s = [n \in 0 .. Len(equations) |->
            IF n = 0 THEN One(limit) ELSE Expand(s[n - 1], equations[n], limit)]

IsProduct(s, equations, top) ==
    s = [n \in 0 .. Len(equations) |->
            IF n = 0 THEN One(top) ELSE TimesPower(s[n - 1], equations[n])]

LEMMA NumeratorExists ==
    ASSUME NEW L \in Nat, NEW equations \in Seq(Nat \X Nat)
    PROVE  \E s : IsNumerator(s, equations, L) /\ IsProduct(s, equations, L)
<1> DEFINE X == Poly(L)
           n == Len(equations)
           factor(i) == IF i \in 1 .. n THEN equations[i] ELSE <<0, 0>>
           step == [i \in Nat |-> [p \in X |-> TimesPower(p, factor(i))]]
<1>1. n \in Nat /\ \A i \in 1 .. n : equations[i] \in Nat \X Nat
  OBVIOUS
<1>2. IsStep(step, X)
  <2>1. ASSUME NEW i \in Nat, NEW p \in X PROVE TimesPower(p, factor(i)) \in X
    <3>1. factor(i) \in Nat \X Nat
      BY <1>1
    <3> QED
      BY <3>1, ExpandIsPower
  <2> QED
    BY <2>1 DEF IsStep
<1>3. One(L) \in X
  BY DEF One, Poly
<1>4. \E s : Computed(s, One(L), step, n, X)
  <2> HIDE DEF step, X, n
  <2> QED
    BY <1>1, <1>2, <1>3, ComputedExists
<1>5. PICK s : Computed(s, One(L), step, n, X)
  BY <1>4
<1>6. ASSUME NEW k \in 0 .. n, k # 0
      PROVE  /\ s[k] = TimesPower(s[k - 1], equations[k])
             /\ s[k] = Expand(s[k - 1], equations[k], L)
  <2>1. k - 1 \in 0 .. n /\ k \in 1 .. n /\ k \in Nat
    BY <1>1, <1>6
  <2>2. s[k - 1] \in X /\ s[k] = step[k][s[k - 1]] /\ factor(k) = equations[k]
    BY <1>5, <2>1 DEF Computed
  <2>3. s[k] = TimesPower(s[k - 1], equations[k])
    BY <2>1, <2>2
  <2> QED
    BY <1>1, <2>1, <2>2, <2>3, ExpandIsPower
<1>7. IsNumerator(s, equations, L)
  BY <1>5, <1>6 DEF IsNumerator, Computed
<1>8. IsProduct(s, equations, L)
  BY <1>5, <1>6 DEF IsProduct, Computed
<1> QED
  BY <1>7, <1>8

\* The powers expanded by the binomial theorem and cut off at a limit are the
\* product of the factors up to it, whatever the product is carried on to.
LEMMA NumeratorIsProduct ==
    ASSUME NEW L \in Nat, NEW M \in Nat, L <= M, NEW equations \in Seq(Nat \X Nat)
    PROVE  /\ Numerator(equations, L) \in Poly(L)
           /\ Product(equations, M) \in Poly(M)
           /\ Agree(Numerator(equations, L), Product(equations, M), L)
<1> DEFINE s == CHOOSE t : IsNumerator(t, equations, L)
           u == CHOOSE t : IsProduct(t, equations, M)
           Right(n) == s[n] \in Poly(L) /\ u[n] \in Poly(M) /\ Agree(s[n], u[n], L)
           S == {n \in Nat : n <= Len(equations) => Right(n)}
<1>1. IsNumerator(s, equations, L) /\ IsProduct(u, equations, M)
  BY NumeratorExists
<1>2. Numerator(equations, L) = s[Len(equations)]
  BY DEF Numerator, IsNumerator
<1>3. Product(equations, M) = u[Len(equations)]
  BY DEF Product, IsProduct
<1> HIDE DEF s, u
<1>4. 0 \in S
  <2>1. s[0] = One(L) /\ u[0] = One(M)
    BY <1>1 DEF IsNumerator, IsProduct
  <2> QED
    BY <2>1 DEF One, Poly, Agree
<1>5. ASSUME NEW n \in Nat, n \in S PROVE n + 1 \in S
  <2>1. SUFFICES ASSUME n + 1 <= Len(equations) PROVE Right(n + 1)
    OBVIOUS
  <2>2. Right(n)
    BY <1>5, <2>1
  <2>3. equations[n + 1] \in Nat \X Nat
    BY <2>1
  <2>4. s[n + 1] = Expand(s[n], equations[n + 1], L)
        /\ u[n + 1] = TimesPower(u[n], equations[n + 1])
    BY <1>1, <2>1 DEF IsNumerator, IsProduct
  <2> DEFINE equation == equations[n + 1]
  <2> HIDE DEF equation
  <2>5. Expand(s[n], equation, L) = TimesPower(s[n], equation)
        /\ TimesPower(s[n], equation) \in Poly(L) /\ TimesPower(u[n], equation) \in Poly(M)
    BY <2>2, <2>3, ExpandIsPower DEF equation
  <2>6. Agree(TimesPower(s[n], equation), TimesPower(u[n], equation), L)
    BY <2>2, <2>3, PowerAgrees DEF equation
  <2> QED
    BY <2>4, <2>5, <2>6 DEF equation
<1>6. Nat \subseteq S
  <2> HIDE DEF S
  <2> QED
    BY <1>4, <1>5, Induction
<1> QED
  BY <1>2, <1>3, <1>6

----------------------------------------------------------------------------
\* Division by 1 - z

Shares(v, q, d) == [s \in 0 .. d |-> q[s] * choose(v + d - s - 1, d - s)]

LEMMA SharesType ==
    ASSUME NEW v \in Nat \ {0}, NEW M \in Nat, NEW q \in Poly(M), NEW d \in 0 .. M
    PROVE  Shares(v, q, d) \in [0 .. d -> Int]
<1>1. ASSUME NEW s \in 0 .. d PROVE q[s] * choose(v + d - s - 1, d - s) \in Int
  <2>1. v + d - s - 1 \in Nat /\ d - s \in 0 .. v + d - s - 1
    OBVIOUS
  <2>2. choose(v + d - s - 1, d - s) \in Int
    BY <2>1, ChooseCounts
  <2>3. q[s] \in Int
    BY DEF Poly
  <2>4. \A x, y \in Int : x * y \in Int
    OBVIOUS
  <2> QED
    BY <2>2, <2>3, <2>4
<1> QED
  BY <1>1 DEF Shares

\* Pascal's rule for the shares
SharesAdd(v, q, d, s) ==
    Shares(v + 1, q, d)[s] =
        (IF s < d THEN Shares(v + 1, q, d - 1)[s] ELSE 0) + Shares(v, q, d)[s]

LEMMA SharesStep ==
    ASSUME NEW v \in Nat \ {0}, NEW M \in Nat, NEW q \in Poly(M), NEW d \in 0 .. M,
           NEW s \in 0 .. d
    PROVE  SharesAdd(v, q, d, s)
<1> DEFINE x == q[s]
<1>1. x \in Int
  BY DEF Poly
<1>2. /\ Shares(v + 1, q, d)[s] = x * choose(v + 1 + d - s - 1, d - s)
      /\ Shares(v, q, d)[s] = x * choose(v + d - s - 1, d - s)
      /\ s < d => Shares(v + 1, q, d - 1)[s] = x * choose(v + 1 + (d - 1) - s - 1, d - 1 - s)
  BY DEF Shares
<1> HIDE DEF x
<1>3. CASE s = d
  <2>1. v + 1 + d - s - 1 = v /\ v + d - s - 1 = v - 1 /\ d - s = 0
        /\ v - 1 \in Nat
    BY <1>3
  <2>2. choose(v + 1 + d - s - 1, d - s) = 1 /\ choose(v + d - s - 1, d - s) = 1
    BY <2>1, ChooseEdges
  <2> QED
    BY <1>1, <1>2, <1>3, <2>2 DEF SharesAdd
<1>4. CASE s < d
  <2> DEFINE n == v + d - s - 1
             k == d - s
  <2>1. n \in Nat /\ k \in 1 .. n /\ v + 1 + d - s - 1 = n + 1
        /\ v + 1 + (d - 1) - s - 1 = n /\ d - 1 - s = k - 1
    BY <1>4
  <2>2. /\ Shares(v + 1, q, d)[s] = x * choose(n + 1, k)
        /\ Shares(v, q, d)[s] = x * choose(n, k)
        /\ Shares(v + 1, q, d - 1)[s] = x * choose(n, k - 1)
    BY <1>2, <1>4, <2>1
  <2> HIDE DEF n, k
  <2>3. choose(n + 1, k) = choose(n, k - 1) + choose(n, k)
    BY <2>1, Pascal
  <2>4. choose(n, k - 1) \in Int /\ choose(n, k) \in Int
    BY <2>1, ChooseCounts
  <2>5. \A a, b \in Int : x * (a + b) = x * a + x * b
    BY <1>1
  <2> QED
    BY <1>4, <2>2, <2>3, <2>4, <2>5 DEF SharesAdd
<1> QED
  BY <1>3, <1>4

LEMMA CoefficientIs ==
    ASSUME NEW v, NEW q, NEW d
    PROVE  Coefficient(v, q, d) = Sums(Shares(v, q, d))[d]
  BY DEF Coefficient, Shares

CoefficientAdds(v, q, d) ==
    Coefficient(v + 1, q, d) =
        (IF d = 0 THEN 0 ELSE Coefficient(v + 1, q, d - 1)) + Coefficient(v, q, d)

LEMMA CoefficientStep ==
    ASSUME NEW v \in Nat \ {0}, NEW M \in Nat, NEW q \in Poly(M), NEW d \in 0 .. M
    PROVE  CoefficientAdds(v, q, d) /\ Coefficient(v, q, d) \in Int
<1> DEFINE f == Shares(v + 1, q, d)
           a == Shares(v + 1, q, d - 1)
           b == Shares(v, q, d)
           A == Sums(a)
           B == Sums(b)
           g == [k \in 0 .. d |-> (IF k < d THEN A[k] ELSE IF d = 0 THEN 0 ELSE A[d - 1])
                                  + B[k]]
<1>1. /\ f \in [0 .. d -> Int] /\ b \in [0 .. d -> Int]
      /\ B \in [0 .. d -> Int] /\ RunningSum(B, b, d)
      /\ d # 0 => /\ a \in [0 .. d - 1 -> Int]
                  /\ A \in [0 .. d - 1 -> Int] /\ RunningSum(A, a, d - 1)
  <2>0. v + 1 \in Nat \ {0} /\ (d # 0 => d - 1 \in 0 .. M /\ d - 1 \in Nat) /\ d \in Nat
    OBVIOUS
  <2>1. f \in [0 .. d -> Int] /\ b \in [0 .. d -> Int]
    BY <2>0, SharesType
  <2>2. d # 0 => a \in [0 .. d - 1 -> Int]
    BY <2>0, SharesType
  <2> HIDE DEF f, a, b
  <2>3. B \in [0 .. d -> Int] /\ RunningSum(B, b, d)
    BY <2>0, <2>1, SumsRecursion
  <2>4. d # 0 => A \in [0 .. d - 1 -> Int] /\ RunningSum(A, a, d - 1)
    BY <2>0, <2>2, SumsRecursion
  <2> QED
    BY <2>1, <2>2, <2>3, <2>4
<1>2. \A s \in 0 .. d : f[s] = (IF s < d THEN a[s] ELSE 0) + b[s]
  <2>1. \A s \in 0 .. d : SharesAdd(v, q, d, s)
    BY SharesStep
  <2> QED
    BY <2>1 DEF SharesAdd
<1>3. Coefficient(v + 1, q, d) = Sums(f)[d] /\ Coefficient(v, q, d) = B[d]
      /\ Coefficient(v + 1, q, d - 1) = A[d - 1]
  BY CoefficientIs
<1> HIDE DEF f, a, b, A, B
<1>4. RunningSum(g, f, d)
  <2>1. CASE d = 0
    BY <1>1, <1>2, <2>1 DEF RunningSum
  <2>2. CASE d # 0
    <3>1. g[0] = f[0]
      <4>1. g[0] = A[0] + B[0] /\ f[0] = a[0] + b[0]
        BY <1>2, <2>2
      <4> QED
        BY <1>1, <2>2, <4>1 DEF RunningSum
    <3>2. ASSUME NEW k \in 1 .. d PROVE g[k] = g[k - 1] + f[k]
      <4>1. B[k] = B[k - 1] + b[k] /\ B[k - 1] \in Int /\ b[k] \in Int
        <5>1. k \in 0 .. d /\ k - 1 \in 0 .. d
          OBVIOUS
        <5>2. B[k] = B[k - 1] + b[k]
          BY <1>1 DEF RunningSum
        <5>3. B[k - 1] \in Int /\ b[k] \in Int
          BY <1>1, <5>1
        <5> QED
          BY <5>2, <5>3
      <4>2. CASE k < d
        <5>0. k \in 1 .. d - 1 /\ k - 1 \in 0 .. d - 1 /\ k \in 0 .. d - 1
          BY <4>2
        <5>1. A[k] = A[k - 1] + a[k] /\ A[k - 1] \in Int /\ a[k] \in Int
          <6>1. A[k] = A[k - 1] + a[k]
            BY <1>1, <2>2, <5>0 DEF RunningSum
          <6> QED
            BY <1>1, <2>2, <5>0, <6>1
        <5>2. g[k] = A[k] + B[k] /\ g[k - 1] = A[k - 1] + B[k - 1] /\ f[k] = a[k] + b[k]
          BY <1>2, <4>2
        <5> QED
          BY <4>1, <5>1, <5>2
      <4>3. CASE k = d
        <5>1. g[k] = A[k - 1] + B[k] /\ g[k - 1] = A[k - 1] + B[k - 1] /\ f[k] = 0 + b[k]
          BY <1>2, <2>2, <4>3
        <5>2. A[k - 1] \in Int
          BY <1>1, <2>2, <4>3
        <5> QED
          BY <4>1, <5>1, <5>2
      <4> QED
        BY <4>2, <4>3
    <3> QED
      BY <3>1, <3>2 DEF RunningSum
  <2> QED
    BY <2>1, <2>2
<1>5. g[d] = (IF d = 0 THEN 0 ELSE A[d - 1]) + B[d]
  OBVIOUS
<1>6. Sums(f)[d] = g[d]
  <2> HIDE DEF g
  <2>1. d \in Nat /\ d \in 0 .. d /\ f \in [0 .. d -> Int]
    BY <1>1
  <2>2. \A k \in 0 .. d : Sums(f)[k] = g[k]
    BY <1>4, <2>1, SumsAre
  <2> QED
    BY <2>1, <2>2
<1>7. B[d] \in Int
  BY <1>1
<1> HIDE DEF g
<1> QED
  BY <1>3, <1>5, <1>6, <1>7 DEF CoefficientAdds

LEMMA CoefficientOne ==
    ASSUME NEW M \in Nat, NEW q \in Poly(M), NEW d \in 0 .. M
    PROVE  Coefficient(1, q, d) = Sums(q)[d]
<1> DEFINE f == Shares(1, q, d)
<1>1. ASSUME NEW s \in 0 .. d PROVE f[s] = q[s]
  <2>1. 1 + d - s - 1 = d - s /\ d - s \in Nat /\ q[s] \in Int
    BY DEF Poly
  <2>2. choose(1 + d - s - 1, d - s) = 1
    BY <2>1, ChooseEdges
  <2>3. f[s] = q[s] * choose(1 + d - s - 1, d - s)
    BY DEF Shares
  <2> QED
    BY <2>1, <2>2, <2>3
<1>2. f \in [0 .. d -> Int] /\ q \in [0 .. M -> Int] /\ d \in Nat /\ d <= M /\ d \in 0 .. d
  <2>1. 1 \in Nat \ {0}
    OBVIOUS
  <2> QED
    BY <2>1, SharesType DEF Poly
<1>3. Coefficient(1, q, d) = Sums(f)[d]
  BY CoefficientIs
<1> HIDE DEF f
<1>4. \A k \in 0 .. d : Sums(f)[k] = Sums(q)[k]
  BY <1>1, <1>2, SumsAgree
<1> QED
  BY <1>2, <1>3, <1>4

IsSeries(s, q, v) ==
    s = [k \in 0 .. v |-> IF k = 0 THEN q ELSE Sums(s[k - 1])]

LEMMA SeriesExists ==
    ASSUME NEW M \in Nat, NEW q \in Poly(M), NEW v \in Nat
    PROVE  \E s : IsSeries(s, q, v) /\ \A k \in 0 .. v : s[k] \in Poly(M)
<1> DEFINE X == Poly(M)
           step == [i \in Nat |-> [p \in X |-> Sums(p)]]
<1>1. IsStep(step, X)
  BY SumsRecursion DEF IsStep, Poly
<1>2. \E s : Computed(s, q, step, v, X)
  <2> HIDE DEF step, X
  <2> QED
    BY <1>1, ComputedExists DEF X
<1>3. PICK s : Computed(s, q, step, v, X)
  BY <1>2
<1>4. ASSUME NEW k \in 0 .. v, k # 0 PROVE s[k] = Sums(s[k - 1])
  <2>1. k - 1 \in 0 .. v /\ k \in 1 .. v /\ k \in Nat
    BY <1>4
  <2>2. s[k - 1] \in X /\ s[k] = step[k][s[k - 1]]
    BY <1>3, <2>1 DEF Computed
  <2> QED
    BY <2>1, <2>2
<1>5. IsSeries(s, q, v)
  BY <1>3, <1>4 DEF IsSeries, Computed
<1> QED
  BY <1>3, <1>5 DEF Computed

\* The convolution with binomials divides by 1 - z once for every variable.
LEMMA QuotientIs ==
    ASSUME NEW M \in Nat, NEW q \in Poly(M), NEW v \in Nat \ {0}
    PROVE  \A d \in 0 .. M : Quotient(q, v)[d] = Coefficient(v, q, d)
<1> DEFINE s == CHOOSE t : IsSeries(t, q, v)
           Right(k) == s[k] \in Poly(M) /\ \A d \in 0 .. M : s[k][d] = Coefficient(k, q, d)
           S == {n \in Nat : n + 1 <= v => Right(n + 1)}
<1>1. IsSeries(s, q, v)
  BY SeriesExists
<1>2. Quotient(q, v) = s[v]
  BY DEF Quotient, IsSeries
<1> HIDE DEF s
<1>3. 0 \in S
  <2>1. s[0] = q /\ s[1] = Sums(q)
    BY <1>1 DEF IsSeries
  <2>2. Sums(q) \in Poly(M)
    BY SumsRecursion DEF Poly
  <2>3. \A d \in 0 .. M : Coefficient(1, q, d) = Sums(q)[d]
    BY CoefficientOne
  <2> QED
    BY <2>1, <2>2, <2>3
<1>4. ASSUME NEW n \in Nat, n \in S PROVE n + 1 \in S
  <2> DEFINE k == n + 1
  <2>0. k \in Nat \ {0}
    OBVIOUS
  <2>1. SUFFICES ASSUME k + 1 <= v PROVE Right(k + 1)
    OBVIOUS
  <2>2. Right(k)
    BY <1>4, <2>1
  <2> HIDE DEF k
  <2>3. s[k + 1] = Sums(s[k])
    BY <1>1, <2>0, <2>1 DEF IsSeries
  <2>4. Sums(s[k]) \in Poly(M)
    BY <2>2, SumsRecursion DEF Poly
  <2> DEFINE t == [d \in 0 .. M |-> Coefficient(k + 1, q, d)]
  <2>5. \A d \in 0 .. M : CoefficientAdds(k, q, d) /\ Coefficient(k, q, d) \in Int
    BY <2>0, CoefficientStep
  <2>6. RunningSum(t, s[k], M)
    <3>1. t[0] = s[k][0]
      <4>1. Coefficient(k + 1, q, 0) = 0 + Coefficient(k, q, 0) /\ Coefficient(k, q, 0) \in Int
        BY <2>5 DEF CoefficientAdds
      <4> QED
        BY <2>2, <4>1
    <3>2. ASSUME NEW d \in 1 .. M PROVE t[d] = t[d - 1] + s[k][d]
      <4>1. d \in 0 .. M /\ d - 1 \in 0 .. M /\ d # 0
        OBVIOUS
      <4>2. Coefficient(k + 1, q, d) = Coefficient(k + 1, q, d - 1) + Coefficient(k, q, d)
        BY <2>5, <4>1 DEF CoefficientAdds
      <4> QED
        BY <2>2, <4>1, <4>2
    <3> QED
      BY <3>1, <3>2 DEF RunningSum
  <2>7. \A d \in 0 .. M : Sums(s[k])[d] = t[d]
    <3>1. s[k] \in [0 .. M -> Int]
      BY <2>2 DEF Poly
    <3> HIDE DEF t
    <3> QED
      BY <2>6, <3>1, SumsAre
  <2> QED
    BY <2>3, <2>4, <2>7
<1>5. Nat \subseteq S
  <2> HIDE DEF S
  <2> QED
    BY <1>3, <1>4, Induction
<1>6. v - 1 \in S /\ (v - 1) + 1 = v
  BY <1>5
<1> QED
  BY <1>2, <1>6

LEMMA CoefficientAgrees ==
    ASSUME NEW L \in Nat, NEW M \in Nat, L <= M, NEW p \in Poly(L), NEW q \in Poly(M),
           Agree(p, q, L), NEW v, NEW d \in 0 .. L
    PROVE  Coefficient(v, p, d) = Coefficient(v, q, d)
<1>1. Shares(v, p, d) = Shares(v, q, d)
  BY DEF Shares, Agree
<1> QED
  BY <1>1, CoefficientIs

Least(T) == IF T = {} THEN Unsolved ELSE CHOOSE d \in T : \A e \in T : d <= e

Systems == [vars : Nat \ {0}, equations : Seq(Nat \X Nat)]

\* The degree found under a limit is the first negative degree of the series,
\* multiplied and divided factor by factor as far as top.
THEOREM SeriesDegree ==
    ASSUME NEW system \in Systems, NEW limit \in Nat, NEW top \in Nat, limit <= top
    PROVE  SemiRegularDreg(system, limit) = HilbertDegree(system, limit, top)
<1> DEFINE p == Numerator(system.equations, limit)
           q == Product(system.equations, top)
           c == [d \in 0 .. limit |-> Coefficient(system.vars, p, d)]
           h == Quotient(q, system.vars)
<1>1. p \in Poly(limit) /\ q \in Poly(top) /\ Agree(p, q, limit)
  BY NumeratorIsProduct DEF Systems
<1>2. system.vars \in Nat \ {0}
  BY DEF Systems
<1>3. \A d \in 0 .. limit : c[d] = h[d]
  <2> SUFFICES ASSUME NEW d \in 0 .. limit PROVE c[d] = h[d]
    OBVIOUS
  <2>1. d \in 0 .. top
    OBVIOUS
  <2>2. h[d] = Coefficient(system.vars, q, d)
    <3> HIDE DEF q
    <3> QED
      BY <1>1, <1>2, <2>1, QuotientIs
  <2>3. Coefficient(system.vars, p, d) = Coefficient(system.vars, q, d)
    <3> HIDE DEF p, q
    <3> QED
      BY <1>1, CoefficientAgrees
  <2> QED
    BY <2>2, <2>3
<1> HIDE DEF c, h
<1>4. {d \in 0 .. limit : c[d] < 0} = {d \in 0 .. limit : h[d] < 0}
  BY <1>3
<1>5. FirstNegative(c, limit) = FirstNegative(h, limit)
  <2>1. \A f : FirstNegative(f, limit) = Least({d \in 0 .. limit : f[d] < 0})
    BY DEF FirstNegative, Least
  <2> QED
    BY <1>4, <2>1
<1> QED
  BY <1>5 DEF SemiRegularDreg, HilbertDegree, c, h

\* A smaller limit finds the same degree, or nothing if it is beyond the limit.
LEMMA LimitCutsOff ==
    ASSUME NEW system \in Systems, NEW limit \in Nat, NEW top \in Nat, limit <= top,
           Unsolved \notin Int
    PROVE  LET degree == SemiRegularDreg(system, top)
           IN  /\ degree \in (0 .. top) \cup {Unsolved}
               /\ SemiRegularDreg(system, limit) =
                     IF degree # Unsolved /\ degree <= limit THEN degree ELSE Unsolved
<1> DEFINE h == Quotient(Product(system.equations, top), system.vars)
           N(m) == {d \in 0 .. m : h[d] < 0}
<1>1. /\ SemiRegularDreg(system, top) = FirstNegative(h, top)
      /\ SemiRegularDreg(system, limit) = FirstNegative(h, limit)
  <2>1. top <= top
    OBVIOUS
  <2> QED
    BY <2>1, SeriesDegree DEF HilbertDegree
<1> HIDE DEF h
<1>2. ASSUME NEW m \in Nat, N(m) # {}
      PROVE  /\ FirstNegative(h, m) \in N(m)
             /\ \A e \in N(m) : FirstNegative(h, m) <= e
  <2>1. \E x \in N(m) : \A y \in N(m) : x <= y
    <3>1. N(m) \in SUBSET Nat
      OBVIOUS
    <3> HIDE DEF N
    <3> QED
      BY <1>2, <3>1, LeastElement
  <2>2. FirstNegative(h, m) = CHOOSE d \in N(m) : \A e \in N(m) : d <= e
    BY <1>2 DEF FirstNegative
  <2> QED
    BY <2>1, <2>2
<1>3. \A m \in Nat : N(m) = {} => FirstNegative(h, m) = Unsolved
  BY DEF FirstNegative
<1>4. N(limit) = {d \in N(top) : d <= limit}
  OBVIOUS
<1>5. CASE N(top) = {}
  <2>1. N(limit) = {}
    BY <1>4, <1>5
  <2> QED
    BY <1>1, <1>3, <1>5, <2>1
<1>6. CASE N(top) # {} /\ N(limit) = {}
  <2>1. FirstNegative(h, top) \in N(top) /\ FirstNegative(h, limit) = Unsolved
    BY <1>2, <1>3, <1>6
  <2>2. ~(FirstNegative(h, top) <= limit)
    BY <1>4, <1>6, <2>1
  <2> QED
    BY <1>1, <2>1, <2>2
<1>7. CASE N(limit) # {}
  <2> DEFINE x == FirstNegative(h, top)  y == FirstNegative(h, limit)
  <2>1. N(top) # {}
    BY <1>4, <1>7
  <2>2. x \in N(top) /\ (\A e \in N(top) : x <= e) /\ y \in N(limit)
        /\ (\A e \in N(limit) : y <= e)
    BY <1>2, <1>7, <2>1
  <2> HIDE DEF x, y
  <2>3. x <= y /\ x <= limit /\ x \in N(limit) /\ x = y
    <3>1. x <= y /\ y <= limit /\ x \in Nat /\ y \in Nat
      BY <1>4, <2>2
    <3>2. x \in N(limit)
      BY <1>4, <2>2, <3>1
    <3> QED
      BY <2>2, <3>1, <3>2
  <2> QED
    BY <1>1, <2>2, <2>3 DEF x, y
<1> QED
  BY <1>5, <1>6, <1>7

----------------------------------------------------------------------------
(* Types *)

TypeInv == TypeOK /\ problem \in Problems

LEMMA ProblemData ==
    ASSUME TypeInv
    PROVE  /\ Threshold \in Nat
           /\ \A c \in Candidates : problem.repetition[c] \in Nat
           /\ \A c \in Candidates, d \in Degrees : problem.cost[c][d] \in Nat
<1>1. /\ problem.threshold \in [Tiers -> Nat]
      /\ problem.repetition \in [Candidates -> Nat]
      /\ problem.cost \in [Candidates -> [Degrees -> Nat]]
  BY DEF TypeInv, TypeOK, ProblemType
<1> QED
  BY <1>1 DEF Threshold, TypeInv, TypeOK

\* A coefficient of the series is the same under every limit that includes its
\* degree.
LEMMA HilbertLimits ==
    ASSUME NEW p \in Problems, NEW c \in Candidates, NEW limit \in Degrees
    PROVE  LET degree == SemiRegularDreg(p.system[c], MaxDegree)
           IN  /\ degree \in Degrees \cup {Unsolved}
               /\ SemiRegularDreg(p.system[c], limit) =
                     IF degree # Unsolved /\ degree <= limit THEN degree ELSE Unsolved
<1>1. p.system[c] \in Systems
  BY ProblemAssumption DEF ProblemType, Systems
<1>2. limit \in Nat /\ MaxDegree \in Nat /\ limit <= MaxDegree /\ Unsolved \notin Int
  BY BudgetAssumption DEF Degrees
<1> QED
  BY <1>1, <1>2, LimitCutsOff DEF Degrees

LEMMA InitTypeInv == Init => TypeInv
  BY ProblemAssumption, BudgetAssumption DEF Init, TypeInv, TypeOK, Steps, Tiers,
     Degrees, Keys

LEMMA NextTypeInv == TypeInv /\ [Next]_vars => TypeInv'
<1> SUFFICES ASSUME TypeInv, [Next]_vars PROVE TypeInv'
  OBVIOUS
<1> USE BudgetAssumption DEF TypeInv, TypeOK, Steps, Tiers, Degrees, Keys
<1>1. CASE EnterAlarm \/ Disarm \/ Restore \/ Tick \/ Expire
  BY <1>1 DEF EnterAlarm, Disarm, Restore, Tick, Expire, search, timing
<1>2. CASE StartTier
  <2>1. problem.grid[tier] \in SUBSET Candidates
    BY DEF ProblemType
  <2>2. pc' \in {"walking", "found"} /\ todo' \in {problem.grid[tier], todo}
    BY <1>2 DEF StartTier
  <2>3. UNCHANGED <<problem, tier, cand, low, high, hilbert, deadline, screen, timing>>
    BY <1>2 DEF StartTier
  <2> QED
    BY <2>1, <2>2, <2>3 DEF timing
<1>3. CASE TakeCandidate \/ GridDone
  BY <1>3 DEF TakeCandidate, GridDone, search, timing
<1>4. CASE ExamineCandidate
  BY <1>4 DEF ExamineCandidate, timing
<1>5. CASE Bisect
  BY <1>5 DEF Bisect, timing
<1>6. CASE LookUp \/ LastCheck
  BY <1>6 DEF LookUp, LastCheck, Verdict, search, timing
<1>7. CASE Solve
  <2>1. SolvingDegree(cand, low) \in Degrees \cup {Unsolved}
    BY HilbertLimits DEF SolvingDegree
  <2> QED
    BY <1>7, <2>1 DEF Solve, Verdict, timing
<1>8. CASE CandidateFound \/ DeadlinePasses \/ AlarmInTier
  BY <1>8 DEF CandidateFound, DeadlinePasses, AlarmInTier, TierFails, TierRest,
              timing
<1>9. CASE TierClears \/ AlarmInScreen \/ AlarmInFinally
  BY <1>9 DEF TierClears, AlarmInScreen, AlarmInFinally, search, timing
<1>10. CASE UNCHANGED vars
  BY <1>10 DEF vars, search, timing
<1> QED
  BY <1>1, <1>2, <1>3, <1>4, <1>5, <1>6, <1>7, <1>8, <1>9, <1>10
     DEF Next, Screen, Solver, Alarm

\* The worker's variables keep their types, in every instance.
THEOREM ScreenTypeOK == Spec => []TypeOK
<1>1. TypeInv => TypeOK
  BY DEF TypeInv
<1> QED
  BY <1>1, InitTypeInv, NextTypeInv, PTL DEF Spec

----------------------------------------------------------------------------
(* A cleared target *)

\* What a tier that clears the target has made sure of a candidate
Clear(c) == /\ c \in problem.countable
            /\ c \in problem.usable => ~CanFall(c)

InHand  == {"examining", "bisecting", "solving", "solved"}
Left    == {"leaving", "disarmed", "done", "killed"}

\* The candidates of the tier that are not to do are clear, but for the one in
\* hand
WalkInv ==
    /\ pc \in {"walking"} \cup InHand =>
          /\ problem.supported
          /\ \A c \in problem.grid[tier] \ todo :
                Clear(c) \/ (pc \in InHand /\ c = cand)
    /\ pc \in InHand => cand \in problem.countable
    /\ pc = "cleared" =>
          /\ problem.supported
          /\ \A c \in problem.grid[tier] : Clear(c)

\* Every degree above high is too expensive for the candidate in hand
BisectInv ==
    /\ pc \in {"bisecting", "solving", "solved"} =>
          /\ low <= high
          /\ \A d \in Degrees : d > high => ~Below(cand, d)
    /\ pc \in {"solving", "solved"} => low = high

\* The cache holds what the solver would return
MemoInv == \A k \in DOMAIN hilbert : hilbert[k] = SolvingDegree(k[1], k[2])

\* There is no screen before the with block is left
VerdictInv == pc \notin Left => screen = "none"

SearchInv == TypeInv /\ WalkInv /\ BisectInv /\ MemoInv /\ VerdictInv /\ ClearedIsAbove

\* A candidate that costs too much at every degree above the limit, and whose
\* verdict within the limit is "walking", cannot fall below the threshold.
LEMMA WalkingIsClear ==
    ASSUME TypeInv, cand \in problem.countable, NEW limit \in Degrees,
           \A d \in Degrees : d > limit => ~Below(cand, d),
           Verdict(SolvingDegree(cand, limit)) = "walking"
    PROVE  Clear(cand)
<1> SUFFICES ASSUME CanFall(cand) PROVE FALSE
  BY DEF Clear
<1> DEFINE d == SolvingDegree(cand, MaxDegree)
<1>1. d \in Degrees /\ Below(cand, d)
  BY HilbertLimits DEF CanFall, Below, TypeInv, TypeOK, SolvingDegree
<1>2. d <= limit
  BY <1>1 DEF Degrees
<1>3. SolvingDegree(cand, limit) = d /\ d # Unsolved
  BY <1>1, <1>2, HilbertLimits DEF SolvingDegree, CanFall, TypeInv, TypeOK
<1> QED
  BY <1>1, <1>3 DEF Verdict

LEMMA InitSearchInv == Init => SearchInv
<1> SUFFICES ASSUME Init PROVE SearchInv
  OBVIOUS
<1>1. TypeInv
  BY InitTypeInv
<1> QED
  BY <1>1 DEF Init, SearchInv, WalkInv, BisectInv, MemoInv, VerdictInv, ClearedIsAbove,
              InHand, Left

\* Steps that leave the search alone and move pc where it promises nothing
LEMMA QuietStep ==
    ASSUME SearchInv, TypeInv', UNCHANGED <<problem, tier, hilbert>>,
           pc' \in {"entered", "starting", "found"} \cup Left,
           screen' \in {screen, "none"}, pc' \notin Left => screen' = "none"
    PROVE  SearchInv'
  BY DEF SearchInv, WalkInv, BisectInv, MemoInv, VerdictInv, ClearedIsAbove,
         InHand, Left, SolvingDegree, CanFall, Threshold

LEMMA NextSearchInv == SearchInv /\ [Next]_vars => SearchInv'
<1> SUFFICES ASSUME SearchInv, [Next]_vars PROVE SearchInv'
  OBVIOUS
<1>0. TypeInv /\ TypeInv'
  BY NextTypeInv DEF SearchInv
<1>1. CASE EnterAlarm \/ AlarmInScreen \/ AlarmInFinally \/ Disarm \/ Restore
  BY <1>0, <1>1, QuietStep
     DEF EnterAlarm, AlarmInScreen, AlarmInFinally, Disarm, Restore, search,
         SearchInv, VerdictInv, Left
<1>2. CASE Tick \/ UNCHANGED vars
  <2>1. UNCHANGED <<problem, pc, search, screen>>
    BY <1>2 DEF Tick, vars
  <2> QED
    BY <1>0, <2>1 DEF search, SearchInv, WalkInv, BisectInv, MemoInv, VerdictInv,
       ClearedIsAbove, InHand, Left, SolvingDegree, CanFall, Threshold, Below, Clear
<1>3. CASE Expire
  <2>1. UNCHANGED <<problem, search, screen>> /\ pc' \in {pc, "killed"}
    BY <1>3 DEF Expire
  <2> QED
    BY <1>0, <2>1 DEF search, SearchInv, WalkInv, BisectInv, MemoInv, VerdictInv,
       ClearedIsAbove, InHand, Left, SolvingDegree, CanFall, Threshold, Below, Clear
<1>4. CASE StartTier
  BY <1>0, <1>4 DEF StartTier, SearchInv, WalkInv, BisectInv, MemoInv, VerdictInv,
     ClearedIsAbove, InHand, Left, SolvingDegree, CanFall, Threshold
<1>5. CASE TakeCandidate
  <2>1. WalkInv'
    BY <1>5 DEF TakeCandidate, SearchInv, WalkInv, InHand, Clear, CanFall,
       SolvingDegree, Threshold
  <2> QED
    BY <1>0, <1>5, <2>1 DEF TakeCandidate, SearchInv, BisectInv, MemoInv, VerdictInv,
       ClearedIsAbove, Left, SolvingDegree, CanFall, Threshold
<1>6. CASE GridDone
  <2>1. WalkInv'
    BY <1>6 DEF GridDone, search, SearchInv, WalkInv, InHand, Clear, CanFall,
       SolvingDegree, Threshold
  <2> QED
    BY <1>0, <1>6, <2>1 DEF GridDone, search, SearchInv, BisectInv, MemoInv, VerdictInv,
       ClearedIsAbove, Left, SolvingDegree, CanFall, Threshold
<1>7. CASE ExamineCandidate
  <2>1. problem.repetition[cand] >= Threshold => ~CanFall(cand)
    <3>1. SolvingDegree(cand, MaxDegree) \in Degrees \cup {Unsolved}
      BY <1>0, HilbertLimits DEF SolvingDegree, TypeInv, TypeOK
    <3> QED
      BY <1>0, <3>1, ProblemData DEF CanFall, TypeInv, TypeOK
  <2>2. WalkInv'
    BY <1>7, <2>1 DEF ExamineCandidate, SearchInv, WalkInv, InHand, Clear, CanFall,
                      SolvingDegree, Threshold
  <2>3. BisectInv'
    BY <1>7, BudgetAssumption DEF ExamineCandidate, BisectInv, Degrees
  <2> QED
    BY <1>0, <1>7, <2>2, <2>3 DEF ExamineCandidate, SearchInv, MemoInv, VerdictInv,
       ClearedIsAbove, Left, SolvingDegree, CanFall, Threshold
<1>8. CASE Bisect
  <2>1. WalkInv'
    BY <1>8 DEF Bisect, SearchInv, WalkInv, InHand, Clear, CanFall,
       SolvingDegree, Threshold
  <2>2. BisectInv'
    <3> DEFINE middle == (low + high + 1) \div 2
    <3>1. middle \in Degrees /\ low < middle /\ middle <= high
      BY <1>0, <1>8, BudgetAssumption DEF Bisect, TypeInv, TypeOK, Degrees
    <3>2. ~Below(cand, middle) => \A d \in Degrees : d >= middle => ~Below(cand, d)
      <4> SUFFICES ASSUME ~Below(cand, middle), NEW d \in Degrees, d >= middle
                   PROVE  ~Below(cand, d)
        OBVIOUS
      <4>1. problem.cost[cand][middle] <= problem.cost[cand][d]
        BY <1>0, <3>1, ProblemAssumption DEF TypeInv, TypeOK
      <4> QED
        BY <1>0, <3>1, <4>1, ProblemData DEF Below, TypeInv, TypeOK
    <3>3. CASE Below(cand, middle)
      BY <1>0, <1>8, <3>1, <3>3 DEF Bisect, SearchInv, BisectInv, Below, Threshold,
         TypeInv, TypeOK, Degrees
    <3>4. CASE ~Below(cand, middle)
      <4>1. low' = low /\ high' = middle - 1
        BY <1>8, <3>4 DEF Bisect
      <4>2. \A d \in Degrees : d > high' => ~Below(cand, d)
        BY <1>0, <3>1, <3>2, <3>4, <4>1 DEF Degrees
      <4> QED
        BY <1>0, <1>8, <3>1, <4>1, <4>2 DEF Bisect, BisectInv, Below, Threshold,
           Degrees, TypeInv, TypeOK
    <3> QED
      BY <3>3, <3>4
  <2> QED
    BY <1>0, <1>8, <2>1, <2>2 DEF Bisect, SearchInv, MemoInv, VerdictInv,
       ClearedIsAbove, Left, SolvingDegree, CanFall, Threshold
<1>9. CASE LookUp
  <2>1. pc' \in {"walking", "found", "solving"}
    BY <1>9 DEF LookUp, Verdict
  <2>2. ASSUME pc' = "walking" PROVE Clear(cand)
    <3>1. PICK k \in Memoised(cand, low) : Verdict(hilbert[k]) = "walking"
      BY <1>9, <2>2 DEF LookUp
    <3>2. hilbert[k] = SolvingDegree(cand, low)
      BY <3>1 DEF Memoised, SearchInv, MemoInv
    <3>3. /\ low \in Degrees /\ cand \in problem.countable
          /\ \A d \in Degrees : d > low => ~Below(cand, d)
      BY <1>0, <1>9 DEF LookUp, SearchInv, BisectInv, WalkInv, InHand, TypeInv, TypeOK
    <3> QED
      BY <1>0, <3>1, <3>2, <3>3, WalkingIsClear
  <2>3. WalkInv'
    BY <1>9, <2>1, <2>2 DEF LookUp, search, SearchInv, WalkInv, InHand, Clear, CanFall,
       SolvingDegree, Threshold
  <2>4. BisectInv'
    BY <1>9, <2>1 DEF LookUp, search, SearchInv, BisectInv, Below, Threshold
  <2> QED
    BY <1>0, <1>9, <2>1, <2>3, <2>4 DEF LookUp, search, SearchInv, MemoInv, VerdictInv,
       ClearedIsAbove, Left, SolvingDegree, CanFall, Threshold
<1>10. CASE LastCheck
  <2>1. WalkInv' /\ BisectInv'
    BY <1>10 DEF LastCheck, search, SearchInv, WalkInv, BisectInv, InHand, Clear,
       CanFall, SolvingDegree, Threshold, Below
  <2> QED
    BY <1>0, <1>10, <2>1 DEF LastCheck, search, SearchInv, MemoInv, VerdictInv,
       ClearedIsAbove, Left, SolvingDegree, CanFall, Threshold
<1>11. CASE Solve
  <2>1. pc' \in {"walking", "found"}
    BY <1>11 DEF Solve, Verdict
  <2>2. ASSUME pc' = "walking" PROVE Clear(cand)
    <3>1. Verdict(SolvingDegree(cand, low)) = "walking"
      BY <1>11, <2>2 DEF Solve
    <3>2. /\ low \in Degrees /\ cand \in problem.countable
          /\ \A d \in Degrees : d > low => ~Below(cand, d)
      BY <1>0, <1>11 DEF Solve, SearchInv, BisectInv, WalkInv, InHand, TypeInv, TypeOK
    <3> QED
      BY <1>0, <3>1, <3>2, WalkingIsClear
  <2>3. WalkInv'
    BY <1>11, <2>1, <2>2 DEF Solve, SearchInv, WalkInv, InHand, Clear, CanFall,
       SolvingDegree, Threshold
  <2>4. MemoInv'
    BY <1>11 DEF Solve, SearchInv, MemoInv, SolvingDegree
  <2> QED
    BY <1>0, <1>11, <2>1, <2>3, <2>4 DEF Solve, SearchInv, BisectInv, VerdictInv,
       ClearedIsAbove, Left, SolvingDegree, CanFall, Threshold
<1>12. CASE CandidateFound \/ DeadlinePasses \/ AlarmInTier
  <2>1. UNCHANGED <<problem, hilbert>> /\ TierFails /\ pc \notin Left
    BY <1>12 DEF CandidateFound, DeadlinePasses, AlarmInTier, TierRest, InTry, Left
  <2> QED
    BY <1>0, <2>1 DEF TierFails, SearchInv, WalkInv, BisectInv, MemoInv, VerdictInv,
       ClearedIsAbove, InHand, Left, SolvingDegree
<1>13. CASE TierClears
  BY <1>0, <1>13 DEF TierClears, search, SearchInv, WalkInv, BisectInv, MemoInv,
     VerdictInv, ClearedIsAbove, InHand, Left, SolvingDegree, Clear, CanFall, Threshold
<1> QED
  BY <1>1, <1>2, <1>3, <1>4, <1>5, <1>6, <1>7, <1>8, <1>9, <1>10, <1>11, <1>12, <1>13
     DEF Next, Screen, Solver, Alarm

\* A cleared target: no candidate with samples falls below the threshold, for
\* every instance, grid and timing.
THEOREM ClearanceIsSound == Spec => []ClearedIsAbove
<1>1. SearchInv => ClearedIsAbove
  BY DEF SearchInv
<1> QED
  BY <1>1, InitSearchInv, NextSearchInv, PTL DEF Spec

\* Whatever was cut off and in whichever tier, the cache holds the degrees of
\* the series.
THEOREM CacheHoldsTheSeries == Spec => []CacheIsHilbert
<1>1. SearchInv => CacheIsHilbert
  <2> SUFFICES ASSUME SearchInv, NEW k \in DOMAIN hilbert
               PROVE  hilbert[k] = HilbertDegree(problem.system[k[1]], k[2], MaxDegree)
    BY DEF CacheIsHilbert
  <2>1. k[1] \in Candidates /\ k[2] \in Nat /\ k[2] <= MaxDegree
        /\ problem \in ProblemType /\ MaxDegree \in Nat
    BY BudgetAssumption DEF SearchInv, TypeInv, TypeOK, Keys, Degrees
  <2>2. problem.system[k[1]] \in Systems
    BY <2>1 DEF ProblemType, Systems
  <2>3. hilbert[k] = SemiRegularDreg(problem.system[k[1]], k[2])
    BY DEF SearchInv, MemoInv, SolvingDegree
  <2> QED
    BY <2>1, <2>2, <2>3, SeriesDegree
<1> QED
  BY <1>1, InitSearchInv, NextSearchInv, PTL DEF Spec

----------------------------------------------------------------------------
(* The alarm *)

\* The coarse tier may swallow the exception of the alarm.  By then the budget
\* is spent, so the refined tier has a candidate left to refuse and a deadline
\* check to refuse it at: the worker is on its way to "needs_exact".
HandlerInv ==
    /\ pc = "entered" => alarm = "unset"
    /\ pc \notin {"entered", "done"} => /\ alarm # "unset"
                                        /\ handler = "deadline_exceeded"
    /\ pc = "disarmed" => alarm # "armed"
    /\ pc = "done" => alarm \in {"cancelled", "delivered"}
    /\ pc # "killed"

SpentInv ==
    /\ alarm \in {"expired", "delivered"} => clock >= TotalBudget
    /\ pc \in InTry \cup {"entered"} => screen = "none" /\ alarm # "cancelled"
    /\ alarm = "delivered" /\ pc \in InTry =>
          /\ tier = "refined" /\ deadline = TotalBudget
          /\ pc = "starting" \/ pc = "found" \/ (pc = "walking" /\ todo # {})
    /\ alarm = "delivered" /\ pc \notin InTry => screen # "above_threshold"

AlarmInv == TypeInv /\ HandlerInv /\ SpentInv

LEMMA InitAlarmInv == Init => AlarmInv
<1> SUFFICES ASSUME Init PROVE AlarmInv
  OBVIOUS
<1>1. TypeInv
  BY InitTypeInv
<1> QED
  BY <1>1 DEF Init, AlarmInv, HandlerInv, SpentInv, InTry

LEMMA NextAlarmInv == AlarmInv /\ [Next]_vars => AlarmInv'
<1> SUFFICES ASSUME AlarmInv, [Next]_vars PROVE AlarmInv'
  OBVIOUS
<1>0. TypeInv /\ TypeInv'
  BY NextTypeInv DEF AlarmInv
<1> USE <1>0 DEF AlarmInv, HandlerInv, SpentInv, InTry
<1>1. CASE EnterAlarm
  BY <1>1 DEF EnterAlarm, search, TypeInv, TypeOK
<1>2. CASE StartTier
  <2>1. problem.grid[tier] # {}
    BY ProblemAssumption DEF TypeInv, TypeOK
  <2> QED
    BY <1>2, <2>1 DEF StartTier, timing
<1>3. CASE TakeCandidate \/ ExamineCandidate
  <2>1. alarm # "delivered"
    BY <1>3, BudgetAssumption DEF TakeCandidate, ExamineCandidate, InTime, TypeInv, TypeOK
  <2> QED
    BY <1>3, <2>1 DEF TakeCandidate, ExamineCandidate, timing
<1>4. CASE GridDone \/ Bisect \/ LookUp \/ LastCheck \/ Solve
  <2>1. alarm # "delivered" /\ pc \in InTry /\ pc' \in InTry
    BY <1>4 DEF GridDone, Bisect, LookUp, LastCheck, Solve, Verdict
  <2>2. UNCHANGED <<screen, clock, alarm, handler>>
    BY <1>4 DEF GridDone, Bisect, LookUp, LastCheck, Solve, timing
  <2>3. pc' # "starting" /\ pc' \notin {"entered", "done", "disarmed", "killed"}
    BY <1>4 DEF GridDone, Bisect, LookUp, LastCheck, Solve, Verdict
  <2> QED
    BY <2>1, <2>2, <2>3
<1>5. CASE CandidateFound \/ DeadlinePasses
  BY <1>5 DEF CandidateFound, DeadlinePasses, TierFails, TierRest, timing, TypeInv,
              TypeOK, Tiers
<1>6. CASE AlarmInTier
  BY <1>6 DEF AlarmInTier, TierFails, TierRest, TypeInv, TypeOK, Tiers
<1>7. CASE TierClears
  BY <1>7 DEF TierClears, search, timing
<1>8. CASE Expire
  BY <1>8 DEF Expire, search
<1>9. CASE AlarmInScreen
  BY <1>9 DEF AlarmInScreen, search
<1>13. CASE AlarmInFinally
  BY <1>13 DEF AlarmInFinally, search
<1>10. CASE Disarm \/ Restore
  BY <1>10 DEF Disarm, Restore, search, TypeInv, TypeOK
<1>11. CASE Tick
  BY <1>11, BudgetAssumption DEF Tick, search, TypeInv, TypeOK
<1>12. CASE UNCHANGED vars
  BY <1>12 DEF vars, search, timing
<1> QED
  BY <1>1, <1>2, <1>3, <1>4, <1>5, <1>6, <1>7, <1>8, <1>9, <1>10, <1>11, <1>12, <1>13
     DEF Next, Screen, Solver, Alarm

\* Wherever the alarm strikes, the outcome is the exact attack.
THEOREM AlarmForcesExact == Spec => []AlarmMeansExact
<1>1. AlarmInv => AlarmMeansExact
  BY DEF AlarmInv, SpentInv, InTry, AlarmMeansExact, Decision, TypeInv, TypeOK
<1> QED
  BY <1>1, InitAlarmInv, NextAlarmInv, PTL DEF Spec

\* The alarm of a screen is over when the screen is.
THEOREM AlarmIsOver == Spec => []NoStrayAlarm
<1>1. AlarmInv => NoStrayAlarm
  BY DEF AlarmInv, HandlerInv, NoStrayAlarm
<1> QED
  BY <1>1, InitAlarmInv, NextAlarmInv, PTL DEF Spec
-----------------------------------------------------------------------------
(* The screen goes forward only.                                           *)

Closing == {"leaving", "disarmed", "done", "killed"}

\* The stretch of arora_gb_threshold_screen the worker is in
Section ==
    IF pc = "entered" THEN 0
    ELSE IF pc \notin Closing
    THEN (IF tier = "coarse" THEN 1 ELSE 3) + (IF pc = "starting" THEN 0 ELSE 1)
    ELSE IF pc = "leaving" THEN 5
    ELSE IF pc = "disarmed" THEN 6
    ELSE 7

AlarmRank == IF alarm = "unset" THEN 0 ELSE IF alarm = "armed" THEN 1
             ELSE IF alarm = "expired" THEN 2 ELSE 3

\* How much is left to do for the candidate in hand
CandidateRank ==
    IF pc = "examining" THEN 5 ELSE IF pc = "bisecting" THEN 4
    ELSE IF pc = "solving" THEN 3 ELSE IF pc = "solved" THEN 2
    ELSE IF pc = "walking" THEN 1 ELSE 0

\* A candidate is taken off the grid, or the one in hand is further, or the
\* interval of the bisection is smaller
Narrows ==
    \/ todo' \subseteq todo /\ todo' # todo
    \/ todo' = todo /\ CandidateRank' < CandidateRank
    \/ /\ todo' = todo /\ pc = "bisecting" /\ pc' = "bisecting"
       /\ high - low \in Nat /\ high' - low' \in Nat /\ high' - low' < high - low

Advances ==
    \/ Section' > Section
    \/ Section' = Section /\ AlarmRank' > AlarmRank
    \/ Section' = Section /\ UNCHANGED alarm /\ Narrows
    \/ /\ UNCHANGED <<pc, search, alarm>>
       /\ clock' = clock + 1 /\ clock' <= Horizon

LEMMA BisectNarrows ==
    ASSUME low \in Nat, high \in Nat, Bisect
    PROVE  high - low \in Nat /\ high' - low' \in Nat /\ high' - low' < high - low
<1> DEFINE middle == (low + high + 1) \div 2
<1>1. middle \in Nat /\ low < middle /\ middle <= high
  BY DEF Bisect
<1>2. \/ low' = middle /\ high' = high
      \/ high' = middle - 1 /\ low' = low
  BY DEF Bisect
<1>3. low < high
  BY DEF Bisect
<1> HIDE DEF middle
<1> QED
  BY <1>1, <1>2, <1>3

\* Neither the loops of the screen nor an alarm that is caught in one tier and
\* answered by starting the next send it round in circles: every step is nearer to
\* the end, whatever the grids, the degrees and the moments the alarm strikes.
THEOREM ScreenGoesForward == Spec => [][Advances]_vars
<1>1. TypeInv /\ [Next]_vars => [Advances]_vars
  <2> SUFFICES ASSUME TypeInv, Next
               PROVE  Advances
    OBVIOUS
  <2>0. /\ low \in Nat /\ high \in Nat /\ clock \in Nat /\ Horizon \in Nat
        /\ tier \in Tiers /\ pc \in Steps
        /\ alarm \in {"unset", "armed", "expired", "delivered", "cancelled"}
    BY BudgetAssumption DEF TypeInv, TypeOK, Degrees
  <2>1. ASSUME TierFails, pc \notin Closing, pc # "entered"
        PROVE  Section' > Section
    BY <2>0, <2>1 DEF TierFails, Section, Closing, Tiers
  <2>2. CASE EnterAlarm
    BY <2>0, <2>2 DEF EnterAlarm, Advances, Section, Closing, search
  <2>3. CASE StartTier
    BY <2>0, <2>3 DEF StartTier, Advances, Section, Closing, search
  <2>4. CASE TakeCandidate
    <3>1. /\ todo' \subseteq todo /\ todo' # todo
          /\ pc = "walking" /\ pc' \in {"found", "examining", "walking"}
          /\ UNCHANGED <<tier, alarm>>
      BY <2>4 DEF TakeCandidate, timing
    <3> QED
      BY <3>1 DEF Advances, Narrows, Section, Closing
  <2>5. CASE GridDone \/ ExamineCandidate \/ LookUp \/ Solver
    <3>1. /\ UNCHANGED <<todo, tier, alarm>>
          /\ \/ pc = "walking" /\ pc' = "cleared"
             \/ pc = "examining" /\ pc' \in {"walking", "bisecting"}
             \/ pc = "bisecting" /\ pc' \in {"found", "walking", "solving"}
             \/ pc = "solving" /\ pc' = "solved"
             \/ pc = "solved" /\ pc' \in {"found", "walking"}
      BY <2>5 DEF GridDone, ExamineCandidate, LookUp, Solver, LastCheck, Solve, Verdict,
                  search, timing
    <3> QED
      BY <3>1 DEF Advances, Narrows, CandidateRank, Section, Closing
  <2>6. CASE Bisect
    <3>1. /\ UNCHANGED <<todo, tier, alarm, pc>> /\ pc = "bisecting"
      BY <2>6 DEF Bisect, timing
    <3> QED
      BY <2>0, <2>6, <3>1, BisectNarrows DEF Advances, Narrows, Section, Closing
  <2>7. CASE CandidateFound \/ DeadlinePasses
    BY <2>1, <2>7 DEF CandidateFound, DeadlinePasses, Closing, Advances
  <2>8. CASE TierClears \/ Disarm \/ Restore
    BY <2>0, <2>8 DEF TierClears, Disarm, Restore, search, timing, Advances, Section,
                      Closing, Tiers
  <2>9. CASE Expire
    <3>1. pc' \in {pc, "killed"} /\ UNCHANGED tier /\ AlarmRank = 1 /\ AlarmRank' = 2
      BY <2>9 DEF Expire, AlarmRank, search
    <3>2. Section' >= Section /\ Section \in Nat /\ Section' \in Nat
      BY <3>1 DEF Section, Closing
    <3> QED
      BY <3>1, <3>2 DEF Advances
  <2>10. CASE AlarmInTier
    BY <2>1, <2>10 DEF AlarmInTier, InTry, Closing, Advances
  <2>11. CASE AlarmInScreen \/ AlarmInFinally
    <3>1. AlarmRank = 2 /\ AlarmRank' = 3
      BY <2>11 DEF AlarmInScreen, AlarmInFinally, AlarmRank
    <3>2. Section' >= Section /\ Section \in Nat /\ Section' \in Nat
      BY <2>11 DEF AlarmInScreen, AlarmInFinally, Section, Closing, search
    <3> QED
      BY <3>1, <3>2 DEF Advances
  <2>12. CASE Tick
    BY <2>0, <2>12 DEF Tick, Advances
  <2> QED
    BY <2>2, <2>3, <2>4, <2>5, <2>6, <2>7, <2>8, <2>9, <2>10, <2>11, <2>12
       DEF Next, Screen, Alarm
<1> QED
  BY <1>1, InitTypeInv, NextTypeInv, PTL DEF Spec
=============================================================================
