-------------------------- MODULE BkwSearchProofs --------------------------
(***************************************************************************)
(* What the BKW search guarantees for every set of problems, whatever the  *)
(* curves and their length.                                                *)
(*                                                                         *)
(* BkwInv says what a search holds: it loses no cheaper usable candidate,  *)
(* and the number reported is a usable candidate's.  ShapeInv says where   *)
(* the search is: which of low, high and the points around the middle are  *)
(* evaluated, and that each halving has been paid for with at most three   *)
(* evaluations.  LandInv says where the lowest point of a valley then is.  *)
(* One lemma for each way a turn can go carries the last two.              *)
(***************************************************************************)
EXTENDS BkwSearch, FiniteSetTheorems, WellFoundedInduction, TLAPS

\* While no fitting candidate is held, the one held is the cheapest of all
\* evaluated; from then on it is the cheapest of those that fit.
HeldIsCheapest ==
    \A p \in seen : Fits(curve[p]) \/ ~ Fits(best) => best.cost <= curve[p].cost

\* What fits works, and something is held as soon as something is evaluated.
HeldIsUsable ==
    /\ best.fits => best.cost < Infinite
    /\ best = NoBest => seen = {}
    /\ cheapest # NoBest => cheapest.fits /\ cheapest.cost < Infinite

\* Where the three phases start
PhaseOK ==
    /\ phase = "begin" => round = 0 /\ seen = {} /\ best = NoBest
    /\ phase # "done" => answer = NoBest /\ stale < StaleLimit

BkwInv ==
    /\ TypeOK
    /\ HeldIsCheapest
    /\ HeldIsUsable
    /\ PhaseOK
    /\ AnswerCoversLastSearch

-----------------------------------------------------------------------------
(* The arithmetic of the bisection.                                        *)

LEMMA HalvesAreNat ==
    ASSUME NEW a \in Nat, NEW b \in Nat
    PROVE  HalfDown(a, b) \in Nat /\ HalfUp(a, b) \in Nat
BY SMT DEF HalfDown, HalfUp

\* A curve starts at Start, above NoPoint, and its points are candidates.
LEMMA CurvePoints ==
    ASSUME IsProblem(problem), round \in 0 .. problem.tries
    PROVE  /\ \A p \in DOMAIN curve :
                 /\ p \in Nat /\ p >= Start
                 /\ curve[p] \in Candidate
                 /\ curve[p].fits => curve[p].cost < Infinite
<1>1. IsCurve(curve)
  BY DEF IsProblem, curve
<1>2. Cardinality(DOMAIN curve) \in Nat
  BY <1>1, FS_CardinalityType DEF IsCurve
<1>3. DOMAIN curve = Start .. Start + Cardinality(DOMAIN curve) - 1
  BY <1>1 DEF IsCurve
<1>4. \A p \in DOMAIN curve : curve[p] \in Candidate
  BY <1>1 DEF IsCurve
<1>5. \A p \in DOMAIN curve : p \in Nat /\ p >= Start
  BY <1>2, <1>3 DEF Start
<1>6. \A p \in DOMAIN curve : curve[p].fits => curve[p].cost < Infinite
  BY <1>1, <1>4, LimitsAssumption DEF IsCurve, Candidate
<1> QED BY <1>4, <1>5, <1>6

\* Where a search on any of the problem's curves begins
LEMMA OpenTypes ==
    ASSUME NEW c, IsCurve(c), Open(c)
    PROVE  /\ low' \in Nat /\ high' \in Nat /\ next' \in Nat
           /\ direction' = -1 /\ seen' = {} /\ best' = NoBest
<1>1. Cardinality(DOMAIN c) \in Nat
  BY FS_CardinalityType DEF IsCurve
<1> QED BY <1>1 DEF Open, Stop, Start, NoPoint

-----------------------------------------------------------------------------
(* The invariant holds at the start ...                                    *)

LEMMA BkwInvInit == Init => BkwInv
<1> SUFFICES ASSUME Init PROVE BkwInv
  OBVIOUS
<1>1. IsProblem(problem)
  BY ProblemsAssumption DEF Init
<1>2. problem.tries \in Nat /\ problem.tries >= 1
  BY <1>1, LimitsAssumption DEF IsProblem
<1>3. TypeOK
  BY <1>1, <1>2, LimitsAssumption DEF Init, TypeOK, Start, NoPoint
<1>4. HeldIsCheapest /\ HeldIsUsable /\ PhaseOK /\ AnswerCoversLastSearch
  BY LimitsAssumption DEF Init, HeldIsCheapest, HeldIsUsable, PhaseOK, NoBest,
     AnswerCoversLastSearch
<1> QED BY <1>3, <1>4 DEF BkwInv

(* ... every turn of a search keeps it: the two ways a turn can go ...     *)

LEMMA EvaluateTypes == BkwInv /\ Evaluate => TypeOK'
<1> SUFFICES ASSUME BkwInv, Evaluate PROVE TypeOK'
  OBVIOUS
<1> USE DEF BkwInv
<1>1. /\ next \in Nat /\ next >= Start
      /\ curve[next] \in Candidate
  BY CurvePoints DEF TypeOK, Evaluate, Continues
<1>2. \A p \in Nat : GoTo(p) => next' \in Nat
  BY DEF GoTo, NoPoint
<1>3. next - 1 \in Nat /\ next + 2 \in Nat /\ NoPoint \in Nat
  BY <1>1 DEF Start, NoPoint
<1>4. /\ HalfUp(low, next) \in Nat /\ HalfDown(next, high) \in Nat
      /\ HalfUp(next, high) \in Nat /\ HalfDown(low, next) \in Nat
  BY <1>1, HalvesAreNat DEF TypeOK
<1>5. /\ low' \in Nat /\ high' \in Nat /\ next' \in Nat
      /\ direction' \in {-2, -1, 1, 2}
  <2>1. CASE StepBelow
    BY <2>1, <1>2, <1>3 DEF StepBelow, TypeOK
  <2>2. CASE HalveDown
    BY <2>2, <1>1, <1>2, <1>4 DEF HalveDown, TypeOK
  <2>3. CASE HalveUp
    BY <2>3, <1>1, <1>2, <1>4 DEF HalveUp, TypeOK
  <2>4. CASE StepAbove
    BY <2>4, <1>2, <1>3 DEF StepAbove, TypeOK
  <2>5. CASE GiveUp
    BY <2>5, <1>2, <1>3 DEF GiveUp, TypeOK
  <2>6. CASE RaiseLow
    BY <2>6, <1>1, <1>2, <1>4 DEF RaiseLow, TypeOK
  <2>7. CASE LowerHigh
    BY <2>7, <1>1, <1>2, <1>4 DEF LowerHigh, TypeOK
  <2> QED BY <2>1, <2>2, <2>3, <2>4, <2>5, <2>6, <2>7 DEF Evaluate
<1>6. best' \in Candidate \cup {NoBest}
  BY <1>1 DEF Evaluate, TypeOK
<1>7. seen' \subseteq DOMAIN curve'
  BY DEF Evaluate, Continues, TypeOK, curve, loop
<1> QED BY <1>5, <1>6, <1>7 DEF Evaluate, TypeOK, loop

LEMMA EvaluateKeepsInv == BkwInv /\ Evaluate => BkwInv'
<1> SUFFICES ASSUME BkwInv, Evaluate PROVE BkwInv'
  OBVIOUS
<1>1. TypeOK'
  BY EvaluateTypes
<1>2. /\ curve[next] \in Candidate
      /\ curve[next].fits => curve[next].cost < Infinite
  BY CurvePoints DEF BkwInv, TypeOK, Evaluate, Continues
<1>3. curve' = curve /\ problem' = problem /\ phase' = phase /\ phase = "search"
  BY DEF Evaluate, curve, loop
<1>4. \A p \in seen : curve[p] \in Candidate
  BY CurvePoints DEF BkwInv, TypeOK
<1>5. \A c : Fits(c)' <=> Fits(c)
  BY <1>3 DEF Fits, NoBest
<1>6. best \in Candidate \/ best = NoBest
  BY DEF BkwInv, TypeOK
<1>7. curve[next] # NoBest
  BY <1>2, LimitsAssumption DEF Candidate, NoBest
<1>8. HeldIsCheapest'
  <2> SUFFICES ASSUME NEW p \in seen', Fits(curve[p]) \/ ~ Fits(best')
               PROVE  best'.cost <= curve[p].cost
    BY <1>3, <1>5 DEF HeldIsCheapest
  <2>1. p \in seen \/ p = next
    BY DEF Evaluate
  <2>2. CASE Improves
    <3>1. best' = curve[next]
      BY <2>2 DEF Evaluate
    <3>2. CASE p = next
      BY <3>1, <3>2, <1>2, LimitsAssumption DEF Candidate
    <3>3. CASE p \in seen
      <4>1. best # NoBest /\ Better(curve[next], best)
        BY <2>2, <3>3 DEF Improves, BkwInv, HeldIsUsable
      <4>2. curve[next].cost <= best.cost
        BY <4>1 DEF Better
      <4>3. Fits(curve[p]) \/ ~ Fits(best)
        BY <4>1, <3>1 DEF Better
      <4>4. best.cost <= curve[p].cost
        BY <4>3, <3>3 DEF BkwInv, HeldIsCheapest
      <4> QED BY <4>2, <4>4, <4>1, <3>1, <1>2, <1>4, <1>6, <3>3, LimitsAssumption
              DEF Candidate
    <3> QED BY <2>1, <3>2, <3>3
  <2>3. CASE ~ Improves
    <3>1. best' = best /\ best # NoBest /\ ~ Better(curve[next], best)
      BY <2>3 DEF Evaluate, Improves
    <3>2. CASE p = next
      BY <3>1, <3>2, <1>2, <1>6, LimitsAssumption DEF Better, Candidate
    <3>3. CASE p \in seen
      BY <3>1, <3>3 DEF BkwInv, HeldIsCheapest
    <3> QED BY <2>1, <3>2, <3>3
  <2> QED BY <2>2, <2>3
<1>9. HeldIsUsable'
  <2>1. best'.fits => best'.cost < Infinite
    BY <1>2 DEF Evaluate, BkwInv, HeldIsUsable
  <2>2. best' # NoBest
    BY <1>7 DEF Evaluate, Improves
  <2> QED BY <2>1, <2>2 DEF Evaluate, BkwInv, HeldIsUsable, loop
<1>10. PhaseOK' /\ AnswerCoversLastSearch'
  BY <1>3 DEF Evaluate, BkwInv, PhaseOK, AnswerCoversLastSearch, loop
<1> QED BY <1>1, <1>8, <1>9, <1>10 DEF BkwInv

(* ... and so does every step of the loop over sample additions.           *)

LEMMA RecordFacts ==
    ASSUME BkwInv, phase = "search", problem.limited, Record
    PROVE  /\ cheapest' \in Candidate \cup {NoBest}
           /\ cheapest' # NoBest => cheapest'.fits /\ cheapest'.cost < Infinite
           /\ Accepted => cheapest' # NoBest /\ cheapest'.cost <= best.cost
           /\ stale' \in 0 .. StaleLimit
<1> USE DEF BkwInv
<1>1. Accepted => best \in Candidate /\ best.fits /\ best.cost < Infinite
  BY DEF Accepted, Fits, TypeOK, HeldIsUsable
<1>2. cheapest \in Candidate \cup {NoBest}
  BY DEF TypeOK
<1>3. best \in Candidate => best # NoBest
  BY LimitsAssumption DEF Candidate, NoBest
<1>4. CASE Accepted /\ best.cost < cheapest.cost
  BY <1>4, <1>1, <1>3, LimitsAssumption DEF Record, Candidate, PhaseOK, TypeOK
<1>5. CASE ~ (Accepted /\ best.cost < cheapest.cost)
  <2>1. cheapest' = cheapest
    BY <1>5 DEF Record
  <2>2. stale' \in {stale, stale + 1}
    BY <1>5 DEF Record
  <2>3. stale' \in 0 .. StaleLimit
    BY <2>2, LimitsAssumption DEF PhaseOK, TypeOK
  <2>4. Accepted => cheapest # NoBest /\ cheapest.cost <= best.cost
    BY <1>1, <1>2, <1>5, LimitsAssumption DEF Candidate, NoBest
  <2> QED BY <2>1, <2>3, <2>4, <1>2 DEF HeldIsUsable
<1> QED BY <1>4, <1>5

LEMMA SearchPlainlyKeepsInv == BkwInv /\ SearchPlainly => BkwInv'
<1> SUFFICES ASSUME BkwInv, SearchPlainly PROVE BkwInv'
  OBVIOUS
<1> USE DEF BkwInv
<1>1. IsCurve(curve)
  BY DEF TypeOK, IsProblem, curve
<1>2. /\ low' \in Nat /\ high' \in Nat /\ next' \in Nat
      /\ direction' = -1 /\ seen' = {} /\ best' = NoBest
  BY <1>1, OpenTypes DEF SearchPlainly
<1>3. TypeOK'
  BY <1>2 DEF SearchPlainly, TypeOK, loop
<1>4. HeldIsCheapest' /\ HeldIsUsable' /\ PhaseOK' /\ AnswerCoversLastSearch'
  BY <1>2 DEF SearchPlainly, HeldIsCheapest, HeldIsUsable, PhaseOK, NoBest,
     AnswerCoversLastSearch, loop
<1> QED BY <1>3, <1>4

LEMMA AddSamplesKeepsInv == BkwInv /\ AddSamples => BkwInv'
<1> SUFFICES ASSUME BkwInv, AddSamples PROVE BkwInv'
  OBVIOUS
<1> USE DEF BkwInv
<1>1. /\ cheapest' \in Candidate \cup {NoBest}
      /\ cheapest' # NoBest => cheapest'.fits /\ cheapest'.cost < Infinite
      /\ stale' \in 0 .. StaleLimit
  BY RecordFacts DEF AddSamples
<1>2. round' \in 0 .. problem.tries /\ problem' = problem
  BY LimitsAssumption DEF AddSamples, LastRound, TypeOK, IsProblem
<1>3. round + 1 \in 0 .. problem.tries
  BY <1>2 DEF AddSamples
<1>4. IsCurve(problem.curves[round + 1])
  BY <1>3 DEF TypeOK, IsProblem
<1>5. /\ low' \in Nat /\ high' \in Nat /\ next' \in Nat
      /\ direction' = -1 /\ seen' = {} /\ best' = NoBest
  BY <1>4, OpenTypes DEF AddSamples
<1>6. stale' < StaleLimit
  <2>1. CASE round = 0
    BY <2>1 DEF AddSamples, Record, PhaseOK
  <2>2. CASE round # 0
    BY <2>2, <1>1, LimitsAssumption DEF AddSamples, LastRound, TypeOK, IsProblem
  <2> QED BY <2>1, <2>2
<1>7. TypeOK'
  BY <1>1, <1>2, <1>5 DEF AddSamples, TypeOK
<1>8. HeldIsCheapest' /\ HeldIsUsable' /\ PhaseOK' /\ AnswerCoversLastSearch'
  BY <1>1, <1>5, <1>6 DEF AddSamples, HeldIsCheapest, HeldIsUsable, PhaseOK,
     NoBest, AnswerCoversLastSearch
<1> QED BY <1>7, <1>8

LEMMA TakeUnlimitedKeepsInv == BkwInv /\ TakeUnlimited => BkwInv'
<1> SUFFICES ASSUME BkwInv, TakeUnlimited PROVE BkwInv'
  OBVIOUS
<1> USE DEF BkwInv
<1>1. /\ curve' = curve /\ problem' = problem /\ round' = round
      /\ UNCHANGED <<search, cheapest, stale>> /\ phase' = "done"
      /\ answer' = IF best.cost < Infinite THEN best ELSE NoBest
  BY DEF TakeUnlimited, Report, curve
<1>2. \A c : Fits(c)' <=> Fits(c)
  BY <1>1 DEF Fits, NoBest
<1>3. TypeOK'
  BY <1>1 DEF TypeOK, search
<1>4. HeldIsCheapest'
  BY <1>1, <1>2 DEF HeldIsCheapest, search
<1>5. HeldIsUsable' /\ PhaseOK'
  BY <1>1 DEF HeldIsUsable, PhaseOK, search, NoBest
<1>6. AnswerCoversLastSearch'
  <2>1. answer' # NoBest => Fits(answer')
    BY <1>1 DEF TakeUnlimited, Fits
  <2>2. ASSUME best # NoBest, Fits(best), NEW p \in seen,
               Fits(curve[p]), curve[p].cost < Infinite
        PROVE  answer'.cost <= curve[p].cost
    <3>1. best.cost <= curve[p].cost
      BY <2>2 DEF HeldIsCheapest
    <3>2. best \in Candidate /\ curve[p] \in Candidate
      BY <2>2, CurvePoints DEF TypeOK
    <3>3. best.cost < Infinite
      BY <3>1, <3>2, <2>2, LimitsAssumption DEF Candidate
    <3> QED BY <3>1, <3>3, <1>1
  <2> QED BY <2>1, <2>2, <1>1, <1>2 DEF AnswerCoversLastSearch, Accepted, search
<1> QED BY <1>3, <1>4, <1>5, <1>6

LEMMA TakeLastKeepsInv == BkwInv /\ TakeLast => BkwInv'
<1> SUFFICES ASSUME BkwInv, TakeLast PROVE BkwInv'
  OBVIOUS
<1> USE DEF BkwInv
<1>1. /\ cheapest' \in Candidate \cup {NoBest}
      /\ cheapest' # NoBest => cheapest'.fits /\ cheapest'.cost < Infinite
      /\ Accepted => cheapest' # NoBest /\ cheapest'.cost <= best.cost
      /\ stale' \in 0 .. StaleLimit
  BY RecordFacts DEF TakeLast
<1>2. /\ curve' = curve /\ problem' = problem /\ round' = round
      /\ UNCHANGED search /\ phase' = "done" /\ problem.limited
      /\ answer' = IF cheapest'.cost < Infinite THEN cheapest' ELSE NoBest
  BY DEF TakeLast, Report, curve
<1>3. \A c : Fits(c)' <=> Fits(c)
  BY <1>2 DEF Fits, NoBest
<1>4. TypeOK'
  BY <1>1, <1>2 DEF TypeOK, search
<1>5. HeldIsCheapest'
  BY <1>2, <1>3 DEF HeldIsCheapest, search
<1>6. HeldIsUsable' /\ PhaseOK'
  BY <1>1, <1>2 DEF HeldIsUsable, PhaseOK, search, NoBest
<1>7. AnswerCoversLastSearch'
  <2>1. answer' # NoBest => Fits(answer')
    BY <1>1, <1>2 DEF Fits
  <2>2. ASSUME Accepted, NEW p \in seen, Fits(curve[p])
        PROVE  answer'.cost <= curve[p].cost
    <3>1. best.cost <= curve[p].cost
      BY <2>2 DEF HeldIsCheapest
    <3>2. best \in Candidate /\ curve[p] \in Candidate
      BY <2>2, CurvePoints DEF TypeOK, Accepted
    <3>3. answer' = cheapest' /\ cheapest' \in Candidate
      BY <1>1, <1>2, <2>2
    <3> QED BY <3>1, <3>2, <3>3, <1>1, <2>2, LimitsAssumption DEF Candidate
  <2> QED BY <2>1, <2>2, <1>2, <1>3 DEF AnswerCoversLastSearch, Accepted, search
<1> QED BY <1>4, <1>5, <1>6, <1>7

LEMMA BkwInvKept == BkwInv /\ [Next]_vars => BkwInv'
<1> SUFFICES ASSUME BkwInv, [Next]_vars PROVE BkwInv'
  OBVIOUS
<1>1. CASE Decline
  BY <1>1 DEF Decline, BkwInv, TypeOK, HeldIsCheapest, HeldIsUsable, PhaseOK,
     AnswerCoversLastSearch, Accepted, Fits, NoBest, curve, loop, search
<1>2. CASE UNCHANGED vars
  BY <1>2 DEF BkwInv, TypeOK, HeldIsCheapest, HeldIsUsable, PhaseOK,
     AnswerCoversLastSearch, Accepted, Fits, NoBest, curve, vars, loop, search
<1>3. CASE Returned
  BY <1>2, <1>3 DEF Returned
<1> QED BY <1>1, <1>2, <1>3, SearchPlainlyKeepsInv, EvaluateKeepsInv,
           TakeUnlimitedKeepsInv, TakeLastKeepsInv, AddSamplesKeepsInv DEF Next

LEMMA BkwInvariant == Spec => []BkwInv
BY BkwInvInit, BkwInvKept, PTL DEF Spec

-----------------------------------------------------------------------------
(* Counting halvings.  The least element of a set of numbers gives induction, *)
(* and induction that a function with the recursion of Halvings exists.       *)

LessThan == {pair \in Nat \X Nat : pair[1] < pair[2]}

LEMMA LeastElement ==
    ASSUME NEW T \in SUBSET Nat, T # {}
    PROVE  \E x \in T : \A y \in T : x <= y
<1>1. IsWellFoundedOn(LessThan, Nat)
  BY NatLessThanWellFounded DEF OpToRel, LessThan
<1>2. PICK x \in T : \A y \in T : <<y, x>> \notin LessThan
  BY <1>1, WFMin
<1>3. \A y \in T : ~(y < x)
  BY <1>2 DEF LessThan
<1> QED BY <1>3

LEMMA Induction ==
    ASSUME NEW S, 0 \in S, \A n \in Nat : n \in S => n + 1 \in S
    PROVE  Nat \subseteq S
<1>1. SUFFICES ASSUME Nat \ S # {} PROVE FALSE
  OBVIOUS
<1>2. PICK x \in Nat \ S : \A y \in Nat \ S : x <= y
  BY <1>1, LeastElement
<1>3. x - 1 \in Nat /\ x - 1 \in S /\ (x - 1) + 1 = x
  BY <1>2
<1> QED BY <1>3

\* h counts halvings up to n
Halved(h, i) == h[i] = IF i <= 1 THEN 0 ELSE 1 + h[i \div 2]
Table(h, n) == h \in [0 .. n -> Nat] /\ \A i \in 0 .. n : Halved(h, i)

LEMMA HalfIsLess ==
    ASSUME NEW i \in Nat, i > 1
    PROVE  i \div 2 \in 1 .. i - 1
  OBVIOUS

LEMMA TablesExist == \A n \in Nat : \E h : Table(h, n)
<1> DEFINE S == {n \in Nat : \E h : Table(h, n)}
<1>1. 0 \in S
  <2> DEFINE h == [i \in 0 .. 0 |-> 0]
  <2>1. Table(h, 0)
    BY DEF Table, Halved
  <2> HIDE DEF h
  <2> QED BY <2>1
<1>2. ASSUME NEW n \in Nat, n \in S PROVE n + 1 \in S
  <2>1. PICK h : Table(h, n)
    BY <1>2
  <2> DEFINE new == IF n + 1 <= 1 THEN 0 ELSE 1 + h[(n + 1) \div 2]
             g == [i \in 0 .. n + 1 |-> IF i = n + 1 THEN new ELSE h[i]]
  <2>2. new \in Nat
    <3>1. n + 1 > 1 => (n + 1) \div 2 \in 0 .. n
      BY HalfIsLess
    <3> QED BY <2>1, <3>1 DEF Table
  <2>3. g \in [0 .. n + 1 -> Nat] /\ g[n + 1] = new
    BY <2>1, <2>2 DEF Table
  <2>4. \A i \in 0 .. n : g[i] = h[i]
    OBVIOUS
  <2>5. ASSUME NEW i \in 0 .. n + 1 PROVE Halved(g, i)
    <3>1. i > 1 => i \div 2 \in 0 .. n
      BY HalfIsLess
    <3>2. i > 1 => g[i \div 2] = h[i \div 2]
      BY <2>4, <3>1
    <3>3. CASE i = n + 1
      BY <2>3, <3>2, <3>3 DEF Halved
    <3>4. CASE i \in 0 .. n
      <4>1. Halved(h, i)
        BY <2>1, <3>4 DEF Table
      <4> QED BY <2>4, <3>2, <3>4, <4>1 DEF Halved
    <3> QED BY <3>3, <3>4
  <2> HIDE DEF g
  <2>6. Table(g, n + 1)
    BY <2>3, <2>5 DEF Table
  <2> QED BY <2>6
<1>3. Nat \subseteq S
  <2> HIDE DEF S
  <2> QED BY <1>1, <1>2, Induction
<1> QED BY <1>3

LEMMA TablesAgree ==
    ASSUME NEW m \in Nat, NEW n \in Nat, m <= n,
           NEW g, Table(g, m), NEW h, Table(h, n)
    PROVE  \A i \in 0 .. m : g[i] = h[i]
<1> DEFINE T == {i \in 0 .. m : g[i] # h[i]}
<1>1. SUFFICES ASSUME T # {} PROVE FALSE
  OBVIOUS
<1>2. PICK i \in T : \A j \in T : i <= j
  <2>1. T \in SUBSET Nat
    OBVIOUS
  <2> HIDE DEF T
  <2> QED BY <1>1, <2>1, LeastElement
<1>3. Halved(g, i) /\ Halved(h, i)
  BY DEF Table
<1>4. i > 1 => i \div 2 \in 0 .. m /\ g[i \div 2] = h[i \div 2]
  <2> SUFFICES ASSUME i > 1 PROVE i \div 2 \in 0 .. m /\ i \div 2 \notin T
    OBVIOUS
  <2>1. i \div 2 \in 1 .. i - 1
    BY HalfIsLess
  <2> QED BY <1>2, <2>1
<1> QED BY <1>3, <1>4 DEF Halved

IsHalvings(h) == h = [n \in Nat |-> IF n <= 1 THEN 0 ELSE 1 + h[n \div 2]]

LEMMA HalvingsTable ==
    /\ Halvings \in [Nat -> Nat]
    /\ \A i \in Nat : Halved(Halvings, i)
<1> DEFINE table(n) == CHOOSE g : Table(g, n)
           h == [n \in Nat |-> table(n)[n]]
<1>1. \A n \in Nat : Table(table(n), n)
  BY TablesExist
<1> HIDE DEF table
<1>2. \A n \in Nat : table(n)[n] \in Nat
  BY <1>1 DEF Table
<1>3. ASSUME NEW n \in Nat PROVE Halved(h, n)
  <2>1. Halved(table(n), n)
    BY <1>1 DEF Table
  <2>2. n > 1 => n \div 2 \in Nat /\ table(n)[n \div 2] = table(n \div 2)[n \div 2]
    <3> SUFFICES ASSUME n > 1
                 PROVE  n \div 2 \in Nat /\ table(n)[n \div 2] = table(n \div 2)[n \div 2]
      OBVIOUS
    <3> DEFINE k == n \div 2
    <3>1. k \in Nat /\ k <= n /\ k \in 0 .. k
      BY HalfIsLess
    <3> HIDE DEF k
    <3>2. Table(table(k), k) /\ Table(table(n), n)
      BY <1>1, <3>1
    <3>3. \A i \in 0 .. k : table(k)[i] = table(n)[i]
      BY <3>1, <3>2, TablesAgree
    <3> QED BY <3>1, <3>3 DEF k
  <2> QED BY <2>1, <2>2 DEF Halved
<1>4. IsHalvings(h)
  <2>1. \A n \in Nat : h[n] = IF n <= 1 THEN 0 ELSE 1 + h[n \div 2]
    BY <1>3 DEF Halved
  <2> QED BY <2>1 DEF IsHalvings
<1> HIDE DEF h
<1>5. IsHalvings(CHOOSE g : IsHalvings(g))
  BY <1>4
<1>6. Halvings = CHOOSE g : IsHalvings(g)
  BY DEF Halvings, IsHalvings
<1>7. IsHalvings(Halvings)
  BY <1>5, <1>6
<1>8. \A i \in Nat : Halved(Halvings, i)
  BY <1>7 DEF IsHalvings, Halved
<1>9. \A n \in Nat : Halvings[n] \in Nat
  <2> DEFINE T == {n \in Nat : Halvings[n] \notin Nat}
  <2>1. SUFFICES ASSUME T # {} PROVE FALSE
    OBVIOUS
  <2>2. PICK n \in T : \A m \in T : n <= m
    <3>1. T \in SUBSET Nat
      OBVIOUS
    <3> HIDE DEF T
    <3> QED BY <2>1, <3>1, LeastElement
  <2>3. n > 1 => Halvings[n \div 2] \in Nat
    <3> SUFFICES ASSUME n > 1 PROVE n \div 2 \in Nat /\ n \div 2 \notin T
      OBVIOUS
    <3> QED BY <2>2, HalfIsLess
  <2>4. Halved(Halvings, n)
    BY <1>8
  <2> QED BY <2>3, <2>4 DEF Halved
<1>10. Halvings = [n \in Nat |-> Halvings[n]]
  BY <1>7 DEF IsHalvings
<1> QED BY <1>8, <1>9, <1>10

\* A longer distance takes as many halvings or more ...
LEMMA HalvingsGrow ==
    ASSUME NEW w \in Nat, NEW u \in 0 .. w
    PROVE  Halvings[u] <= Halvings[w]
<1> DEFINE T == {n \in Nat : \E i \in 0 .. n : ~(Halvings[i] <= Halvings[n])}
<1>1. SUFFICES ASSUME T # {} PROVE FALSE
  OBVIOUS
<1>2. PICK n \in T : \A m \in T : n <= m
  <2>1. T \in SUBSET Nat
    OBVIOUS
  <2> HIDE DEF T
  <2> QED BY <1>1, <2>1, LeastElement
<1>3. PICK i \in 0 .. n : ~(Halvings[i] <= Halvings[n])
  BY <1>2
<1>4. Halved(Halvings, i) /\ Halved(Halvings, n) /\ Halvings[i] \in Nat /\ Halvings[n] \in Nat
  BY HalvingsTable
<1>5. i > 1
  BY <1>3, <1>4 DEF Halved
<1>6. i \div 2 \in 0 .. n \div 2 /\ n \div 2 \in 1 .. n - 1
  BY <1>5, HalfIsLess
<1>7. n \div 2 \notin T
  BY <1>2, <1>6
<1>8. Halvings[i \div 2] <= Halvings[n \div 2]
      /\ Halvings[i \div 2] \in Nat /\ Halvings[n \div 2] \in Nat
  BY <1>6, <1>7, HalvingsTable
<1> QED BY <1>3, <1>4, <1>5, <1>8 DEF Halved

\* ... and half a distance at least one less.
LEMMA HalvingPays ==
    \A w \in Nat, u \in Nat : w >= 2 /\ u <= w \div 2 =>
        /\ Halvings[u] + 1 <= Halvings[w]
        /\ Halvings[u] \in Nat /\ Halvings[w] \in Nat
<1> SUFFICES ASSUME NEW w \in Nat, NEW u \in Nat, w >= 2, u <= w \div 2
             PROVE  /\ Halvings[u] + 1 <= Halvings[w]
                    /\ Halvings[u] \in Nat /\ Halvings[w] \in Nat
  OBVIOUS
<1>1. w \div 2 \in Nat
  OBVIOUS
<1> DEFINE k == w \div 2
<1> HIDE DEF k
<1>2. Halvings[u] <= Halvings[k]
  BY <1>1, HalvingsGrow DEF k
<1>3. /\ Halved(Halvings, w) /\ Halvings[w] \in Nat
      /\ Halvings[u] \in Nat /\ Halvings[k] \in Nat
  BY <1>1, HalvingsTable DEF k
<1> QED BY <1>2, <1>3 DEF Halved, k

-----------------------------------------------------------------------------
(* The bisection                                                           *)

\* The highest parameter of the curve, and what a search on it may evaluate
Top == Start + Cardinality(DOMAIN curve) - 1
Budget == 3 * Halvings[Top - Start] + 1

\* Nothing is evaluated and the highest parameter is next.
Fresh ==
    /\ seen = {} /\ best = NoBest /\ direction = -1
    /\ low = Start /\ high = Top
    /\ next = IF DOMAIN curve = {} THEN NoPoint ELSE Top

\* Something is left between low and high, of which only these are evaluated,
\* and the budget still pays for what the halving in hand has yet to cost.
Interval(evaluated, due) ==
    /\ Start <= low /\ low + 2 <= high /\ high <= Top /\ high \in seen
    /\ \A s \in seen : s <= low \/ s >= high \/ s \in evaluated
    /\ Cardinality(seen) + 3 * Halvings[high - low] <= Budget + due

\* Evaluating the middle, from the right or from the left end ...
MiddleDown ==
    /\ direction = -2 /\ Interval({}, 0)
    /\ next = HalfUp(low, high) /\ best = curve[high]

MiddleUp ==
    /\ direction = 2 /\ Interval({}, 0)
    /\ next = HalfDown(low, high) /\ best = curve[low] /\ low \in seen

\* ... then the point below the middle, which was better ...
BelowMiddle ==
    /\ direction = -1 /\ Interval({next + 1}, 1)
    /\ low <= next /\ next + 1 < high /\ best = curve[next + 1]
    /\ next - low <= (high - low) \div 2
    /\ high - (next + 2) <= (high - low - 1) \div 2

\* ... then the point above it
AboveMiddle ==
    /\ direction = 1 /\ Interval({next - 1, next - 2}, 2)
    /\ low < next - 1 /\ next < high /\ best = curve[next - 1]
    /\ high - next <= (high - low - 1) \div 2

Shape == MiddleDown \/ MiddleUp \/ BelowMiddle \/ AboveMiddle

\* Where the lowest point of a valley can be
Track(p) ==
    /\ direction = -2 => low <= p /\ p <= high /\ (low \in seen => low < p)
    /\ direction = 2  => low <= p /\ p < high
    /\ direction = -1 => low <= p /\ p < high /\ (low \in seen => low < p)
    /\ direction = 1  => next - 1 <= p /\ p < high

Landed(p) == \E o \in {p - 1, p, p + 1} \cap DOMAIN curve : best = curve[o]

AllFit == \A p \in DOMAIN curve : Fits(curve[p])

ShapeInv ==
    phase = "search" =>
        \/ Fresh
        \/ seen # {} /\ Cardinality(seen) <= Budget /\ (Continues => Shape)

LandInv ==
    phase = "search" /\ seen # {} /\ AllFit =>
        \A p \in DOMAIN curve : ValleyAt(p) =>
            IF Continues THEN Track(p) ELSE Landed(p)

\* On a curve with one valley, the cheaper of two points tells on which side of
\* the other one the lowest point is.
Sides(p, a, b) ==
    /\ curve[a].cost <= curve[b].cost => p < b
    /\ curve[b].cost <= curve[a].cost => a < p

Costs == /\ Top \in Nat
         /\ DOMAIN curve = Start .. Top
         /\ \A a \in Start .. Top : curve[a] \in Candidate

LEMMA ValleySides ==
    ASSUME Costs, NEW p \in Start .. Top, ValleyAt(p),
           NEW a \in Start .. Top, NEW b \in Start .. Top, a < b
    PROVE  Sides(p, a, b)
<1> DEFINE cost(o) == curve[o].cost
<1>0. /\ a \in Nat /\ b \in Nat /\ p \in Nat /\ Top \in Nat
      /\ Start <= a /\ Start <= b /\ b <= Top
  BY DEF Costs, Start
<1>1. \A o \in Start .. Top : cost(o) \in Nat
  BY LimitsAssumption DEF Costs, Candidate
<1>2. \A o \in Start .. Top : o < p => cost(o + 1) < cost(o)
  BY DEF ValleyAt, Costs
<1>3. \A o \in Start .. Top : o > p => cost(o - 1) < cost(o)
  BY DEF ValleyAt, Costs, Start
<1> HIDE DEF cost
<1>4. ASSUME b <= p PROVE cost(b) < cost(a)
  <2> DEFINE S == {k \in Nat : a + k + 1 <= p => cost(a + k + 1) < cost(a)}
  <2>1. 0 \in S
    BY <1>2 DEF Start
  <2>2. ASSUME NEW k \in Nat, k \in S PROVE k + 1 \in S
    <3> DEFINE o == a + k + 1
    <3>1. SUFFICES ASSUME o + 1 <= p PROVE cost(o + 1) < cost(a)
      OBVIOUS
    <3>2. o \in Start .. Top /\ o + 1 \in Start .. Top /\ o < p
      BY <1>0, <1>4, <3>1 DEF Start
    <3>3. cost(o) < cost(a)
      BY <2>2, <3>2
    <3> QED BY <1>1, <1>2, <3>2, <3>3
  <2>3. Nat \subseteq S
    <3> HIDE DEF S
    <3> QED BY <2>1, <2>2, Induction
  <2>4. b - a - 1 \in S /\ a + (b - a - 1) + 1 = b
    BY <1>0, <2>3
  <2> QED BY <1>0, <1>4, <2>4
<1>5. ASSUME p <= a PROVE cost(a) < cost(b)
  <2> DEFINE S == {k \in Nat : a + k + 1 <= Top => cost(a) < cost(a + k + 1)}
  <2>1. 0 \in S
    <3>1. (a + 0 + 1) - 1 = a
      BY DEF Start
    <3> QED BY <1>3, <1>5, <3>1 DEF Start
  <2>2. ASSUME NEW k \in Nat, k \in S PROVE k + 1 \in S
    <3> DEFINE o == a + k + 1
    <3>1. SUFFICES ASSUME o + 1 <= Top PROVE cost(a) < cost(o + 1)
      OBVIOUS
    <3>2. o \in Start .. Top /\ o + 1 \in Start .. Top /\ o + 1 > p /\ (o + 1) - 1 = o
      BY <1>0, <1>5, <3>1 DEF Start
    <3>3. cost(a) < cost(o)
      BY <2>2, <3>2
    <3> QED BY <1>1, <1>3, <3>2, <3>3
  <2>3. Nat \subseteq S
    <3> HIDE DEF S
    <3> QED BY <2>1, <2>2, Induction
  <2>4. b - a - 1 \in Nat /\ a + (b - a - 1) + 1 = b
    BY <1>0
  <2>5. b - a - 1 \in S
    <3> HIDE DEF S
    <3> QED BY <2>3, <2>4
  <2> QED BY <1>0, <1>5, <2>5, <2>4
<1> QED BY <1>0, <1>1, <1>4, <1>5 DEF Sides, cost

\* What every turn of the loop does
Turn ==
    /\ Costs /\ curve' = curve /\ Top' = Top /\ Budget' = Budget
    /\ low \in Nat /\ high \in Nat /\ seen \subseteq Start .. Top
    /\ next \in Start .. Top /\ next \notin seen /\ seen' = seen \cup {next}
    /\ Cardinality(seen) \in Nat /\ Cardinality(seen') = Cardinality(seen) + 1
    /\ Top \in Nat /\ Budget \in Nat
    /\ Continues' <=> next' \in (Start .. Top) \ seen'
    /\ Improves => best' = curve[next]
    /\ ~ Improves => best' = best
    /\ best = NoBest => seen = {}

LEMMA TurnFacts == BkwInv /\ Evaluate => Turn
<1> SUFFICES ASSUME BkwInv, Evaluate PROVE Turn
  OBVIOUS
<1>1. curve' = curve /\ problem' = problem
  BY DEF Evaluate, curve, loop
<1>2. IsCurve(curve)
  BY DEF BkwInv, TypeOK, IsProblem, curve
<1>3. IsFiniteSet(DOMAIN curve) /\ Cardinality(DOMAIN curve) \in Nat
      /\ DOMAIN curve = Start .. Top
  BY <1>2, FS_CardinalityType DEF IsCurve, Top
<1>4. next \in DOMAIN curve /\ next \notin seen /\ seen' = seen \cup {next}
      /\ seen \subseteq DOMAIN curve
  BY DEF Evaluate, Continues, BkwInv, TypeOK
<1>5. Top \in Nat /\ Top - Start \in Nat
  BY <1>3, <1>4 DEF Top, Start
<1>6. Costs
  BY <1>3, <1>5, CurvePoints DEF Costs, BkwInv, TypeOK
<1>7. Cardinality(seen) \in Nat /\ Cardinality(seen') = Cardinality(seen) + 1
  <2>1. IsFiniteSet(seen)
    BY <1>3, <1>4, FS_Subset
  <2> QED BY <1>4, <2>1, FS_CardinalityType, FS_AddElement
<1>8. Budget \in Nat /\ Budget' = Budget /\ Top' = Top
  BY <1>1, <1>5, HalvingsTable DEF Budget, Top
<1>9. Continues' <=> next' \in (Start .. Top) \ seen'
  BY <1>1, <1>3 DEF Continues
<1>10. /\ Improves => best' = curve[next]
       /\ ~ Improves => best' = best
       /\ best = NoBest => seen = {}
  BY DEF Evaluate, BkwInv, HeldIsUsable
<1>11. low \in Nat /\ high \in Nat
  BY DEF BkwInv, TypeOK
<1> QED BY <1>1, <1>3, <1>4, <1>5, <1>6, <1>7, <1>8, <1>9, <1>10, <1>11 DEF Turn

\* A turn keeps the shape of the search and the trail of the lowest point, or
\* ends at it.
After == Cardinality(seen') <= Budget /\ (Continues' => Shape')
Trails(p) == IF Continues' THEN Track(p)' ELSE Landed(p)'

\* What a comparison with the best point says about the lowest one
Compared(p, b) ==
    /\ b < next /\ Improves => b < p
    /\ b < next /\ ~ Improves => p < next
    /\ next < b /\ Improves => p < b
    /\ next < b /\ ~ Improves => next < p

LEMMA Compares ==
    ASSUME Turn, AllFit, NEW p \in Start .. Top, ValleyAt(p), NEW b \in Start .. Top,
           best = curve[b], seen # {}
    PROVE  Compared(p, b)
<1>1. Costs /\ next \in Start .. Top
  BY DEF Turn
<1>2. Improves <=> curve[next].cost <= curve[b].cost
  BY <1>1 DEF Turn, Improves, Better, AllFit, Costs
<1>3. curve[next].cost \in Nat /\ curve[b].cost \in Nat
  BY <1>1, LimitsAssumption DEF Costs, Candidate
<1>4. b < next => Sides(p, b, next)
  BY <1>1, ValleySides
<1>5. next < b => Sides(p, next, b)
  BY <1>1, ValleySides
<1> QED BY <1>2, <1>3, <1>4, <1>5 DEF Compared, Sides

\* The middle, from the right end, is not better: the lowest point is above it.
LEMMA RaiseLowTurn ==
    ASSUME Turn, MiddleDown, ~ Improves, RaiseLow
    PROVE  /\ After
           /\ \A p \in Start .. Top : AllFit /\ ValleyAt(p) /\ Track(p) => Trails(p)
<1>1. /\ low < next /\ next < high /\ high - next = (high - low) \div 2
      /\ low \in Nat /\ high \in Nat /\ next \in Nat /\ high - low >= 2
      /\ high - low \in Nat /\ high - next \in Nat
  BY DEF MiddleDown, Interval, HalfUp, Turn
<1>2. /\ low' = next /\ high' = high /\ direction' = -2
      /\ next' = HalfUp(next, high) /\ next < next' /\ next' <= high
  BY <1>1 DEF RaiseLow, GoTo, HalfUp
<1>3. Halvings[high - next] + 1 <= Halvings[high - low]
      /\ Halvings[high - next] \in Nat /\ Halvings[high - low] \in Nat
  BY <1>1, HalvingPays
<1>4. best' = best /\ best = curve[high] /\ high \in seen /\ high \in Start .. Top /\ seen # {}
  BY DEF Turn, MiddleDown, Interval
<1>5. Cardinality(seen') + 3 * Halvings[high - next] <= Budget
  BY <1>3 DEF MiddleDown, Interval, Turn
<1>6. Cardinality(seen') <= Budget
  BY <1>3, <1>5 DEF Turn
<1>7. CASE high - next >= 2
  <2>1. next' < high
    BY <1>1, <1>2, <1>7 DEF HalfUp
  <2>2. \A s \in seen' : s <= low' \/ s >= high'
    BY <1>1, <1>2 DEF MiddleDown, Interval, Turn, Start
  <2>3. Continues'
    BY <1>1, <1>2, <2>1, <2>2 DEF Turn, MiddleDown, Interval, Start
  <2>4. MiddleDown'
    BY <1>1, <1>2, <1>4, <1>5, <1>7, <2>2 DEF MiddleDown, Interval, Turn
  <2>5. ASSUME NEW p \in Start .. Top, AllFit, ValleyAt(p), Track(p) PROVE Track(p)'
    BY <1>1, <1>2, <1>4, <2>5, Compares DEF Compared, Track, MiddleDown
  <2> QED BY <1>6, <2>3, <2>4, <2>5 DEF After, Shape, Trails
<1>8. CASE high - next = 1
  <2>1. ~ Continues'
    BY <1>1, <1>2, <1>4, <1>8 DEF Turn, HalfUp
  <2>2. ASSUME NEW p \in Start .. Top, AllFit, ValleyAt(p), Track(p) PROVE Landed(p)'
    <3>1. next < p /\ p <= high
      BY <1>1, <1>4, <2>2, Compares DEF Compared, Track, MiddleDown
    <3>2. p = high
      BY <1>1, <1>8, <3>1 DEF Start
    <3> QED BY <1>4, <3>2 DEF Landed, Turn, Costs
  <2> QED BY <1>6, <2>1, <2>2 DEF After, Trails
<1> QED BY <1>1, <1>7, <1>8

\* The middle, from the left end, is not better: the lowest point is below it.
LEMMA LowerHighTurn ==
    ASSUME Turn, MiddleUp, ~ Improves, LowerHigh
    PROVE  /\ After
           /\ \A p \in Start .. Top : AllFit /\ ValleyAt(p) /\ Track(p) => Trails(p)
<1>1. /\ low < next /\ next < high /\ next - low = (high - low) \div 2
      /\ low \in Nat /\ high \in Nat /\ next \in Nat /\ high - low >= 2
      /\ high - low \in Nat /\ next - low \in Nat
  BY DEF MiddleUp, Interval, HalfDown, Turn
<1>2. /\ low' = low /\ high' = next /\ direction' = 2
      /\ next' = HalfDown(low, next) /\ low <= next' /\ next' < next
  BY <1>1 DEF LowerHigh, GoTo, HalfDown
<1>3. Halvings[next - low] + 1 <= Halvings[high - low]
      /\ Halvings[next - low] \in Nat /\ Halvings[high - low] \in Nat
  BY <1>1, HalvingPays
<1>4. /\ best' = best /\ best = curve[low] /\ low \in seen /\ low \in Start .. Top
      /\ seen # {} /\ next \in seen'
  BY DEF Turn, MiddleUp, Interval
<1>5. Cardinality(seen') + 3 * Halvings[next - low] <= Budget
  BY <1>3 DEF MiddleUp, Interval, Turn
<1>6. Cardinality(seen') <= Budget
  BY <1>3, <1>5 DEF Turn
<1>7. CASE next - low >= 2
  <2>1. low < next'
    BY <1>1, <1>2, <1>7 DEF HalfDown
  <2>2. \A s \in seen' : s <= low' \/ s >= high'
    BY <1>1, <1>2 DEF MiddleUp, Interval, Turn, Start
  <2>3. Continues'
    BY <1>1, <1>2, <2>1, <2>2 DEF Turn, MiddleUp, Interval, Start
  <2>4. MiddleUp'
    BY <1>1, <1>2, <1>4, <1>5, <1>7, <2>2 DEF MiddleUp, Interval, Turn, Start
  <2>5. ASSUME NEW p \in Start .. Top, AllFit, ValleyAt(p), Track(p) PROVE Track(p)'
    BY <1>1, <1>2, <1>4, <2>5, Compares DEF Compared, Track, MiddleUp
  <2> QED BY <1>6, <2>3, <2>4, <2>5 DEF After, Shape, Trails
<1>8. CASE next - low = 1
  <2>1. ~ Continues'
    BY <1>1, <1>2, <1>4, <1>8 DEF Turn, HalfDown
  <2>2. ASSUME NEW p \in Start .. Top, AllFit, ValleyAt(p), Track(p) PROVE Landed(p)'
    <3>1. low <= p /\ p < next
      BY <1>1, <1>4, <2>2, Compares DEF Compared, Track, MiddleUp
    <3>2. p = low
      BY <1>1, <1>8, <3>1 DEF Start
    <3> QED BY <1>4, <3>2 DEF Landed, Turn, Costs
  <2> QED BY <1>6, <2>1, <2>2 DEF After, Trails
<1> QED BY <1>1, <1>7, <1>8

\* The middle is better: the point below it is next.
LEMMA StepBelowTurn ==
    ASSUME Turn, MiddleDown \/ MiddleUp, Improves, StepBelow
    PROVE  /\ After
           /\ \A p \in Start .. Top : AllFit /\ ValleyAt(p) /\ Track(p) => Trails(p)
<1>1. /\ low < next /\ next < high /\ high - low >= 2
      /\ low \in Nat /\ high \in Nat /\ next \in Nat /\ high - low \in Nat
      /\ next - 1 - low <= (high - low) \div 2
      /\ high - (next + 1) <= (high - low - 1) \div 2
      /\ Start <= low /\ high <= Top
  BY DEF MiddleDown, MiddleUp, Interval, HalfUp, HalfDown, Turn, Start
<1>2. /\ low' = low /\ high' = high /\ direction' = -1 /\ next' = next - 1
      /\ next' + 1 = next /\ best' = curve[next]
  BY <1>1 DEF StepBelow, GoTo, Turn
<1>3. /\ Cardinality(seen') + 3 * Halvings[high - low] <= Budget + 1
      /\ 1 <= Halvings[high - low] /\ Halvings[high - low] \in Nat
  <2>1. Halvings[high - low] \in Nat /\ Halvings[0] + 1 <= Halvings[high - low]
        /\ Halvings[0] \in Nat
    <3>1. 0 \in Nat /\ 0 <= (high - low) \div 2
      BY <1>1
    <3> QED BY <1>1, <3>1, HalvingPays
  <2> QED BY <2>1 DEF MiddleDown, MiddleUp, Interval, Turn
<1>4. Cardinality(seen') <= Budget
  BY <1>3 DEF Turn
<1>5. \A s \in seen' : s <= low \/ s >= high \/ s = next
  BY DEF MiddleDown, MiddleUp, Interval, Turn
<1>6. BelowMiddle'
  BY <1>1, <1>2, <1>3, <1>5 DEF BelowMiddle, Interval, Turn, MiddleDown, MiddleUp
<1>7. ASSUME ~ Continues' PROVE next - 1 = low /\ low \in seen
  <2>1. next - 1 \in Start .. Top /\ next - 1 \in seen'
    BY <1>1, <1>2, <1>7 DEF Turn, Start
  <2> QED BY <1>1, <1>5, <2>1 DEF Turn, Start
<1>8. ASSUME NEW p \in Start .. Top, AllFit, ValleyAt(p), Track(p)
      PROVE  low <= p /\ p < high /\ (low \in seen => low < p)
  <2>1. CASE MiddleDown
    <3>1. best = curve[high] /\ high \in Start .. Top /\ seen # {} /\ direction = -2
      BY <2>1 DEF MiddleDown, Interval, Turn
    <3> QED BY <1>1, <1>8, <3>1, Compares DEF Compared, Track
  <2>2. CASE MiddleUp
    <3>1. best = curve[low] /\ low \in Start .. Top /\ seen # {} /\ direction = 2
      BY <2>2 DEF MiddleUp, Interval, Turn
    <3> QED BY <1>1, <1>8, <3>1, Compares DEF Compared, Track, Start
  <2> QED BY <2>1, <2>2
<1>9. ASSUME NEW p \in Start .. Top, AllFit, ValleyAt(p), Track(p) PROVE Trails(p)
  <2>1. CASE Continues'
    <3>1. low \in seen' => low \in seen
      BY <1>1 DEF Turn
    <3> QED BY <1>2, <1>8, <1>9, <2>1, <3>1 DEF Trails, Track
  <2>2. CASE ~ Continues'
    <3>1. low < p /\ p < high /\ next - 1 = low /\ high - (next + 1) <= 1 /\ p \in Nat
      BY <1>1, <1>7, <1>8, <1>9, <2>2 DEF Start
    <3>2. p = next \/ p - 1 = next
      BY <1>1, <3>1
    <3> QED BY <1>2, <2>2, <3>2 DEF Trails, Landed, Turn, Costs
  <2> QED BY <2>1, <2>2
<1> QED BY <1>4, <1>6, <1>9 DEF After, Shape

\* The first point, or the one below the middle, is the best yet.
LEMMA HalveDownTurn ==
    ASSUME Turn, Fresh \/ BelowMiddle, Improves, HalveDown
    PROVE  /\ After
           /\ \A p \in Start .. Top :
                 AllFit /\ ValleyAt(p) /\ (seen # {} => Track(p)) => Trails(p)
<1>1. /\ low <= next /\ next <= high /\ low \in Nat /\ high \in Nat /\ next \in Nat
      /\ next - low \in Nat /\ Start <= low /\ next <= Top
  BY DEF Fresh, BelowMiddle, Interval, Turn, Start
<1>2. /\ low' = low /\ high' = next /\ direction' = -2 /\ best' = curve[next]
      /\ next - low >= 2 => next' = HalfUp(low, next) /\ low < next' /\ next' < next
      /\ next - low <= 1 => next' = NoPoint
  BY <1>1 DEF HalveDown, GoTo, HalfUp, Turn
<1>3. Cardinality(seen') + 3 * Halvings[next - low] <= Budget
  <2>1. CASE Fresh
    <3>1. Cardinality(seen') = 1
      BY <2>1, FS_EmptySet DEF Fresh, Turn
    <3>2. next - low = Top - Start
      BY <2>1 DEF Fresh, Turn, Costs
    <3> QED BY <1>1, <3>1, <3>2, HalvingsTable DEF Budget
  <2>2. CASE BelowMiddle
    <3>1. Halvings[next - low] + 1 <= Halvings[high - low]
          /\ Halvings[next - low] \in Nat /\ Halvings[high - low] \in Nat
      <4>1. high - low \in Nat /\ high - low >= 2 /\ next - low <= (high - low) \div 2
        BY <1>1, <2>2 DEF BelowMiddle, Interval
      <4> QED BY <1>1, <4>1, HalvingPays
    <3> QED BY <2>2, <3>1 DEF BelowMiddle, Interval, Turn
  <2> QED BY <2>1, <2>2
<1>4. Cardinality(seen') <= Budget
  BY <1>1, <1>3, HalvingsTable DEF Turn
<1>5. \A s \in seen' : s <= low \/ s >= next
  BY <1>1 DEF Fresh, BelowMiddle, Interval, Turn, Start
<1>6. ASSUME NEW p \in Start .. Top, AllFit, ValleyAt(p), seen # {} => Track(p)
      PROVE  low <= p /\ p <= next /\ (low \in seen => low < p)
  <2>1. CASE Fresh
    BY <2>1 DEF Fresh, Turn, Costs, Start
  <2>2. CASE BelowMiddle
    <3>1. /\ best = curve[next + 1] /\ next + 1 \in Start .. Top /\ seen # {}
          /\ direction = -1 /\ next < next + 1
      BY <1>1, <2>2 DEF BelowMiddle, Interval, Turn, Start
    <3>2. p < next + 1
      BY <1>6, <3>1, Compares DEF Compared
    <3> QED BY <1>1, <1>6, <3>1, <3>2 DEF Track, Start
  <2> QED BY <2>1, <2>2
<1>7. CASE next - low >= 2
  <2>1. Continues'
    <3>1. next' \in Start .. Top
      BY <1>1, <1>2, <1>7 DEF Turn, Start, HalfUp
    <3> QED BY <1>2, <1>5, <1>7, <3>1 DEF Turn, Start
  <2>2. MiddleDown'
    BY <1>1, <1>2, <1>3, <1>5, <1>7 DEF MiddleDown, Interval, Turn
  <2>3. ASSUME NEW p \in Start .. Top, AllFit, ValleyAt(p), seen # {} => Track(p)
        PROVE  Track(p)'
    <3>1. low \in seen' => low \in seen
      BY <1>1, <1>7 DEF Turn
    <3> QED BY <1>2, <1>6, <2>3, <3>1 DEF Track
  <2> QED BY <1>4, <2>1, <2>2, <2>3 DEF After, Shape, Trails
<1>8. CASE next - low <= 1
  <2>1. ~ Continues'
    BY <1>2, <1>8 DEF Turn, NoPoint, Start
  <2>2. ASSUME NEW p \in Start .. Top, AllFit, ValleyAt(p), seen # {} => Track(p)
        PROVE  Landed(p)'
    <3>1. low <= p /\ p <= next /\ p \in Nat
      BY <1>6, <2>2 DEF Start
    <3>2. next = p \/ next = p + 1
      BY <1>1, <1>8, <3>1
    <3> QED BY <1>2, <3>2 DEF Landed, Turn, Costs
  <2> QED BY <1>4, <2>1, <2>2 DEF After, Trails
<1> QED BY <1>1, <1>7, <1>8

\* The point below the middle is not better: the one above the middle is next.
LEMMA StepAboveTurn ==
    ASSUME Turn, BelowMiddle, ~ Improves, StepAbove
    PROVE  /\ After
           /\ \A p \in Start .. Top : AllFit /\ ValleyAt(p) /\ Track(p) => Trails(p)
<1>1. /\ low <= next /\ next + 1 < high /\ low \in Nat /\ high \in Nat /\ next \in Nat
      /\ high - low \in Nat /\ high - low >= 2 /\ Start <= low /\ high <= Top
      /\ high - (next + 2) <= (high - low - 1) \div 2 /\ high \in seen
  BY DEF BelowMiddle, Interval, Turn, Start
<1>2. /\ low' = low /\ high' = high /\ direction' = 1 /\ next' = next + 2
      /\ best' = best /\ best = curve[next + 1] /\ next + 1 \in Start .. Top
      /\ next' - 1 = next + 1 /\ next' - 2 = next
  BY <1>1 DEF StepAbove, GoTo, Turn, BelowMiddle, Start
<1>3. /\ Cardinality(seen') + 3 * Halvings[high - low] <= Budget + 2
      /\ 1 <= Halvings[high - low] /\ Halvings[high - low] \in Nat
  <2>1. Halvings[high - low] \in Nat /\ Halvings[0] + 1 <= Halvings[high - low]
        /\ Halvings[0] \in Nat
    <3>1. 0 \in Nat /\ 0 <= (high - low) \div 2
      BY <1>1
    <3> QED BY <1>1, <3>1, HalvingPays
  <2> QED BY <2>1 DEF BelowMiddle, Interval, Turn
<1>4. Cardinality(seen') <= Budget
  BY <1>3 DEF Turn
<1>5. \A s \in seen' : s <= low \/ s >= high \/ s = next + 1 \/ s = next
  BY DEF BelowMiddle, Interval, Turn
<1>6. ASSUME NEW p \in Start .. Top, AllFit, ValleyAt(p), Track(p)
      PROVE  next < p /\ p < high
  <2>1. seen # {} /\ direction = -1 /\ next < next + 1
    BY <1>1 DEF BelowMiddle
  <2> QED BY <1>2, <1>6, <2>1, Compares DEF Compared, Track
<1>7. CASE next + 2 < high
  <2>1. Continues'
    BY <1>1, <1>2, <1>5, <1>7 DEF Turn, Start
  <2>2. AboveMiddle'
    BY <1>1, <1>2, <1>3, <1>5, <1>7 DEF AboveMiddle, Interval, Turn
  <2>3. ASSUME NEW p \in Start .. Top, AllFit, ValleyAt(p), Track(p) PROVE Track(p)'
    BY <1>1, <1>2, <1>6, <2>3 DEF Track, Start
  <2> QED BY <1>4, <2>1, <2>2, <2>3 DEF After, Shape, Trails
<1>8. CASE next + 2 = high
  <2>1. ~ Continues'
    BY <1>1, <1>2, <1>8 DEF Turn
  <2>2. ASSUME NEW p \in Start .. Top, AllFit, ValleyAt(p), Track(p) PROVE Landed(p)'
    <3>1. p = next + 1
      BY <1>1, <1>6, <1>8, <2>2 DEF Start
    <3> QED BY <1>2, <3>1 DEF Landed, Turn, Costs
  <2> QED BY <1>4, <2>1, <2>2 DEF After, Trails
<1> QED BY <1>1, <1>7, <1>8

\* The point above the middle is the best yet.
LEMMA HalveUpTurn ==
    ASSUME Turn, AboveMiddle, Improves, HalveUp
    PROVE  /\ After
           /\ \A p \in Start .. Top : AllFit /\ ValleyAt(p) /\ Track(p) => Trails(p)
<1>1. /\ low < next - 1 /\ next < high /\ low \in Nat /\ high \in Nat /\ next \in Nat
      /\ high - low \in Nat /\ high - low >= 2 /\ high - next \in Nat
      /\ Start <= low /\ high <= Top /\ high \in seen
      /\ high - next <= (high - low) \div 2
  BY DEF AboveMiddle, Interval, Turn, Start
<1>2. /\ low' = next /\ high' = high /\ direction' = 2 /\ best' = curve[next]
      /\ high - next >= 2 => next' = HalfDown(next, high) /\ next < next' /\ next' < high
      /\ high - next <= 1 => next' = NoPoint
  BY <1>1 DEF HalveUp, GoTo, HalfDown, Turn
<1>3. Cardinality(seen') + 3 * Halvings[high - next] <= Budget
      /\ Halvings[high - next] \in Nat
  <2>1. Halvings[high - next] + 1 <= Halvings[high - low]
        /\ Halvings[high - next] \in Nat /\ Halvings[high - low] \in Nat
    BY <1>1, HalvingPays
  <2> QED BY <2>1 DEF AboveMiddle, Interval, Turn
<1>4. Cardinality(seen') <= Budget
  BY <1>3 DEF Turn
<1>5. \A s \in seen' : s <= next \/ s >= high
  BY <1>1 DEF AboveMiddle, Interval, Turn, Start
<1>6. ASSUME NEW p \in Start .. Top, AllFit, ValleyAt(p), Track(p)
      PROVE  next <= p /\ p < high
  <2>1. /\ best = curve[next - 1] /\ next - 1 \in Start .. Top /\ seen # {}
        /\ direction = 1 /\ next - 1 < next
    BY <1>1 DEF AboveMiddle, Interval, Turn, Start
  <2>2. next - 1 < p /\ p < high /\ p \in Nat
    BY <1>6, <2>1, Compares DEF Compared, Track, Start
  <2> QED BY <1>1, <2>2
<1>7. CASE high - next >= 2
  <2>1. Continues'
    <3>1. next' \in Start .. Top
      BY <1>1, <1>2, <1>7 DEF Turn, Start, HalfDown
    <3> QED BY <1>2, <1>5, <1>7, <3>1 DEF Turn, Start
  <2>2. MiddleUp'
    BY <1>1, <1>2, <1>3, <1>5, <1>7 DEF MiddleUp, Interval, Turn
  <2>3. ASSUME NEW p \in Start .. Top, AllFit, ValleyAt(p), Track(p) PROVE Track(p)'
    BY <1>2, <1>6, <2>3 DEF Track
  <2> QED BY <1>4, <2>1, <2>2, <2>3 DEF After, Shape, Trails
<1>8. CASE high - next <= 1
  <2>1. ~ Continues'
    BY <1>2, <1>8 DEF Turn, NoPoint, Start
  <2>2. ASSUME NEW p \in Start .. Top, AllFit, ValleyAt(p), Track(p) PROVE Landed(p)'
    <3>1. p = next
      BY <1>1, <1>6, <1>8, <2>2 DEF Start
    <3> QED BY <1>2, <3>1 DEF Landed, Turn, Costs
  <2> QED BY <1>4, <2>1, <2>2 DEF After, Trails
<1> QED BY <1>1, <1>7, <1>8

\* Neither neighbour of the middle is better: the middle is the lowest point.
LEMMA GiveUpTurn ==
    ASSUME Turn, AboveMiddle, ~ Improves, GiveUp
    PROVE  /\ After
           /\ \A p \in Start .. Top : AllFit /\ ValleyAt(p) /\ Track(p) => Trails(p)
<1>1. /\ low < next - 1 /\ next < high /\ low \in Nat /\ high \in Nat /\ next \in Nat
      /\ high - low \in Nat /\ high - low >= 2 /\ Start <= low /\ high <= Top
  BY DEF AboveMiddle, Interval, Turn, Start
<1>2. next' = NoPoint /\ best' = best /\ best = curve[next - 1]
      /\ next - 1 \in Start .. Top /\ seen # {} /\ direction = 1 /\ next - 1 < next
  BY <1>1 DEF GiveUp, GoTo, NoPoint, Turn, AboveMiddle, Interval, Start
<1>3. ~ Continues'
  BY <1>2 DEF Turn, NoPoint, Start
<1>4. Cardinality(seen') <= Budget
  <2>1. Halvings[high - low] \in Nat /\ Halvings[0] + 1 <= Halvings[high - low]
        /\ Halvings[0] \in Nat
    <3>1. 0 \in Nat /\ 0 <= (high - low) \div 2
      BY <1>1
    <3> QED BY <1>1, <3>1, HalvingPays
  <2> QED BY <2>1 DEF AboveMiddle, Interval, Turn
<1>5. ASSUME NEW p \in Start .. Top, AllFit, ValleyAt(p), Track(p) PROVE Landed(p)'
  <2>1. p = next - 1
    <3>1. next - 1 <= p
      BY <1>2, <1>5 DEF Track
    <3>2. p < next
      BY <1>2, <1>5, Compares DEF Compared
    <3> QED BY <1>1, <3>1, <3>2 DEF Start
  <2> QED BY <1>2, <2>1 DEF Landed, Turn, Costs
<1> QED BY <1>3, <1>4, <1>5 DEF After, Trails

\* The three together, with what is known without them
SearchInv ==
    /\ BkwInv /\ ShapeInv /\ LandInv /\ EvaluatesFew
    /\ phase = "begin" => seen = {}

\* A search on a curve begins fresh.
LEMMA OpensFresh ==
    ASSUME TypeOK', Open(curve'), phase' = "search"
    PROVE  Fresh' /\ ShapeInv' /\ LandInv' /\ EvaluatesFew'
<1>1. IsCurve(curve')
  BY DEF TypeOK, IsProblem, curve
<1>2. Cardinality(DOMAIN curve') \in Nat
  BY <1>1, FS_CardinalityType DEF IsCurve
<1>3. Fresh'
  BY <1>2 DEF Open, Fresh, Stop, Top, Start
<1> QED BY <1>3 DEF Fresh, ShapeInv, LandInv, EvaluatesFew

LEMMA SearchInvInit == Init => SearchInv
<1> SUFFICES ASSUME Init PROVE SearchInv
  OBVIOUS
<1>1. BkwInv
  BY BkwInvInit
<1> QED BY <1>1 DEF Init, SearchInv, ShapeInv, LandInv, EvaluatesFew

LEMMA EvaluateKeepsSearch == SearchInv /\ Evaluate => SearchInv'
<1> SUFFICES ASSUME SearchInv, Evaluate PROVE SearchInv'
  OBVIOUS
<1>1. BkwInv /\ BkwInv' /\ Turn
  BY EvaluateKeepsInv, TurnFacts DEF SearchInv
<1>2. /\ phase = "search" /\ phase' = "search" /\ Continues
      /\ curve' = curve /\ problem' = problem
  BY DEF Evaluate, curve, loop
<1>3. /\ After
      /\ \A p \in Start .. Top :
            AllFit /\ ValleyAt(p) /\ (seen # {} => Track(p)) => Trails(p)
  <2>1. Fresh \/ Shape
    BY <1>2 DEF SearchInv, ShapeInv
  <2>2. Fresh => direction = -1 /\ Improves /\ seen = {}
    BY DEF Fresh, Improves
  <2>3. /\ MiddleDown => direction = -2 /\ seen # {}
        /\ MiddleUp => direction = 2 /\ seen # {}
        /\ BelowMiddle => direction = -1 /\ seen # {}
        /\ AboveMiddle => direction = 1 /\ seen # {}
    BY DEF MiddleDown, MiddleUp, BelowMiddle, AboveMiddle, Interval
  <2>4. CASE Improves /\ StepBelow
    <3>1. MiddleDown \/ MiddleUp
      BY <2>1, <2>2, <2>3, <2>4 DEF StepBelow, Shape
    <3> QED BY <1>1, <2>3, <2>4, <3>1, StepBelowTurn
  <2>5. CASE Improves /\ HalveDown
    <3>1. Fresh \/ BelowMiddle
      BY <2>1, <2>3, <2>5 DEF HalveDown, Shape
    <3> QED BY <1>1, <2>5, <3>1, HalveDownTurn
  <2>6. CASE Improves /\ HalveUp
    <3>1. AboveMiddle
      BY <2>1, <2>2, <2>3, <2>6 DEF HalveUp, Shape
    <3> QED BY <1>1, <2>3, <2>6, <3>1, HalveUpTurn
  <2>7. CASE ~ Improves /\ StepAbove
    <3>1. BelowMiddle
      BY <2>1, <2>2, <2>3, <2>7 DEF StepAbove, Shape
    <3> QED BY <1>1, <2>3, <2>7, <3>1, StepAboveTurn
  <2>8. CASE ~ Improves /\ GiveUp
    <3>1. AboveMiddle
      BY <2>1, <2>2, <2>3, <2>8 DEF GiveUp, Shape
    <3> QED BY <1>1, <2>3, <2>8, <3>1, GiveUpTurn
  <2>9. CASE ~ Improves /\ RaiseLow
    <3>1. MiddleDown
      BY <2>1, <2>2, <2>3, <2>9 DEF RaiseLow, Shape
    <3> QED BY <1>1, <2>3, <2>9, <3>1, RaiseLowTurn
  <2>10. CASE ~ Improves /\ LowerHigh
    <3>1. MiddleUp
      BY <2>1, <2>2, <2>3, <2>10 DEF LowerHigh, Shape
    <3> QED BY <1>1, <2>3, <2>10, <3>1, LowerHighTurn
  <2> QED BY <2>4, <2>5, <2>6, <2>7, <2>8, <2>9, <2>10 DEF Evaluate
<1>4. seen' # {} /\ Budget' = Budget /\ Top' = Top
  BY <1>1 DEF Turn
<1>5. ShapeInv'
  BY <1>3, <1>4 DEF After, ShapeInv
<1>6. LandInv'
  <2> SUFFICES ASSUME AllFit', NEW p \in DOMAIN curve', ValleyAt(p)'
               PROVE  IF Continues' THEN Track(p)' ELSE Landed(p)'
    BY DEF LandInv
  <2>1. AllFit
    BY <1>2 DEF AllFit, Fits, NoBest
  <2>2. ValleyAt(p) /\ p \in Start .. Top /\ p \in DOMAIN curve
    BY <1>1, <1>2 DEF ValleyAt, Turn, Costs
  <2>3. seen # {} => Track(p)
    BY <1>2, <2>1, <2>2 DEF SearchInv, LandInv
  <2>4. Trails(p)
    BY <1>3, <2>1, <2>2, <2>3
  <2> QED BY <2>4 DEF Trails
<1>7. EvaluatesFew'
  <2>1. IsCurve(curve)
    BY DEF SearchInv, BkwInv, TypeOK, IsProblem, curve
  <2>2. Cardinality(DOMAIN curve) - 1 = Top - Start
    BY <2>1, FS_CardinalityType DEF IsCurve, Top, Start
  <2> QED BY <1>2, <1>3, <2>2 DEF After, EvaluatesFew, Budget
<1> QED BY <1>1, <1>2, <1>5, <1>6, <1>7 DEF SearchInv

LEMMA SearchInvKept == SearchInv /\ [Next]_vars => SearchInv'
<1> SUFFICES ASSUME SearchInv, [Next]_vars PROVE SearchInv'
  OBVIOUS
<1>0. BkwInv'
  BY BkwInvKept DEF SearchInv
<1>1. CASE SearchPlainly
  <2>1. Open(curve') /\ phase' = "search"
    BY <1>1 DEF SearchPlainly, loop, curve
  <2> QED BY <1>0, <2>1, OpensFresh DEF BkwInv, SearchInv
<1>2. CASE AddSamples
  <2>1. Open(curve') /\ phase' = "search"
    BY <1>2 DEF AddSamples, curve
  <2> QED BY <1>0, <2>1, OpensFresh DEF BkwInv, SearchInv
<1>3. CASE Evaluate
  BY <1>3, EvaluateKeepsSearch
<1>4. CASE Decline \/ TakeUnlimited \/ TakeLast
  <2>1. phase' = "done" /\ seen' = seen /\ curve' = curve
    BY <1>4 DEF Decline, TakeUnlimited, TakeLast, Report, search, loop, curve
  <2> QED BY <1>0, <2>1 DEF SearchInv, ShapeInv, LandInv, EvaluatesFew
<1>5. CASE Returned \/ UNCHANGED vars
  <2>1. UNCHANGED vars
    BY <1>5 DEF Returned
  <2>2. /\ phase' = phase /\ problem' = problem /\ round' = round
        /\ low' = low /\ high' = high /\ direction' = direction
        /\ next' = next /\ seen' = seen /\ best' = best
    BY <2>1 DEF vars, loop, search
  <2>3. curve' = curve
    BY <2>2 DEF curve
  <2> USE DEF SearchInv
  <2>4. ShapeInv'
    BY <2>2, <2>3 DEF ShapeInv, Fresh, Shape, MiddleDown, MiddleUp, BelowMiddle,
       AboveMiddle, Interval, Budget, Top, Continues
  <2>5. LandInv'
    BY <2>2, <2>3 DEF LandInv, AllFit, Fits, NoBest, ValleyAt, Continues, Track, Landed,
       MiddleDown, MiddleUp, BelowMiddle, AboveMiddle, Interval, Top
  <2>6. EvaluatesFew' /\ (phase = "begin" => seen = {})'
    BY <2>2, <2>3 DEF EvaluatesFew
  <2> QED BY <1>0, <2>4, <2>5, <2>6
<1> QED BY <1>1, <1>2, <1>3, <1>4, <1>5 DEF Next

LEMMA SearchInvariant == Spec => []SearchInv
BY SearchInvInit, SearchInvKept, PTL DEF Spec

-----------------------------------------------------------------------------
(* The theorems.                                                           *)

\* The search of slow_estimate.py stays within its types for every problem.
THEOREM BkwTypeOK == Spec => []TypeOK
BY BkwInvariant, PTL DEF BkwInv

\* However long the curve, the local-minimum search never holds a candidate
\* costlier than one it evaluated whose samples suffice.
THEOREM NothingCheaperLost == Spec => []NothingCheaperSeen
<1>1. BkwInv => NothingCheaperSeen
  BY DEF BkwInv, HeldIsCheapest, NothingCheaperSeen
<1> QED BY <1>1, BkwInvariant, PTL

\* The BKW number of the preflight is the cost of a candidate the caller's
\* samples suffice for, and covers what the last search of the loop found.
THEOREM AnswerIsUsable == Spec => []AnswerCoversLastSearch
BY BkwInvariant, PTL DEF BkwInv

\* On every curve with one valley, however long, the bisecting search ends at the
\* lowest point or right beside it.
THEOREM LandsBesideMinimum == Spec => []LandsNextToMinimum
<1>1. SearchInv => LandsNextToMinimum
  <2> SUFFICES ASSUME SearchInv, phase = "search", ~ Continues,
                      \A p \in DOMAIN curve : Fits(curve[p]),
                      NEW p \in DOMAIN curve, ValleyAt(p)
               PROVE  Landed(p)
    BY DEF LandsNextToMinimum, Landed
  <2>1. ~ Fresh
    <3>1. IsCurve(curve)
      BY DEF SearchInv, BkwInv, TypeOK, IsProblem, curve
    <3>2. Cardinality(DOMAIN curve) \in Nat
          /\ DOMAIN curve = Start .. Top
      BY <3>1, FS_CardinalityType DEF IsCurve, Top
    <3> QED BY <3>2 DEF Fresh, Continues, Top, Start
  <2>2. seen # {} /\ AllFit
    BY <2>1 DEF SearchInv, ShapeInv, AllFit
  <2> QED BY <2>2 DEF SearchInv, LandInv
<1> QED BY <1>1, SearchInvariant, PTL

\* A search evaluates at most three parameters per halving of its range, and one.
THEOREM FewAreEvaluated == Spec => []EvaluatesFew
BY SearchInvariant, PTL DEF SearchInv
-----------------------------------------------------------------------------
(* The search ends.                                                        *)

\* How much a search on curve c may evaluate
TurnLimit(c) == 3 * Halvings[Cardinality(DOMAIN c) - 1] + 1

\* The phase moves on, or another sample addition is tried, of which there are
\* problem.tries, or the search in hand uses up one of its turns.
Advances ==
    \/ phase = "begin" /\ phase' \in {"search", "done"}
    \/ phase = "search" /\ phase' = "done"
    \/ /\ phase = "search" /\ phase' = "search" /\ UNCHANGED problem
       /\ \/ round' = round + 1 /\ round' <= problem.tries
          \/ /\ round' = round
             /\ Cardinality(seen') = Cardinality(seen) + 1
             /\ Cardinality(seen') <= TurnLimit(problem.curves[round])

\* No loop of the BKW preflight, which has no deadline of its own, can go round
\* without end: every step brings bkw_estimate nearer to its return, for every
\* curve and any number of sample additions.
THEOREM SearchEnds == Spec => [][Advances]_vars
<1>1. SearchInv /\ SearchInv' /\ [Next]_vars => [Advances]_vars
  <2> SUFFICES ASSUME SearchInv, SearchInv', Next, ~ UNCHANGED vars
               PROVE  Advances
    OBVIOUS
  <2>1. CASE Decline \/ SearchPlainly
    BY <2>1 DEF Decline, SearchPlainly, Advances
  <2>2. CASE Evaluate
    <3>1. Turn /\ seen' # {}
      BY <2>2, TurnFacts DEF SearchInv, Turn
    <3>2. Cardinality(seen') <= TurnLimit(curve')
      BY <3>1 DEF SearchInv, EvaluatesFew, TurnLimit
    <3> QED BY <2>2, <3>1, <3>2 DEF Evaluate, Turn, Advances, loop, curve
  <2>3. CASE TakeUnlimited \/ TakeLast
    BY <2>3 DEF TakeUnlimited, TakeLast, Report, Advances
  <2>4. CASE AddSamples
    <3>1. round \in 0 .. problem.tries /\ problem.tries \in Nat /\ round # problem.tries
      BY <2>4, LimitsAssumption DEF SearchInv, BkwInv, TypeOK, IsProblem, AddSamples, LastRound
    <3> QED BY <2>4, <3>1 DEF AddSamples, Advances
  <2>5. CASE Returned
    BY <2>5 DEF Returned
  <2> QED BY <2>1, <2>2, <2>3, <2>4, <2>5 DEF Next
<1> QED BY <1>1, SearchInvariant, PTL DEF Spec
=============================================================================
