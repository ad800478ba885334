----------------------------- MODULE BkwSearch -----------------------------
(***************************************************************************)
(* The bounded search behind the BKW preflight number                      *)
(* (src/src/slow_estimate.py): bkw_estimate runs one local-minimum search, *)
(* or, when the caller has finitely many samples, one per number of sample *)
(* additions until eight searches in a row bring nothing.                  *)
(*                                                                         *)
(* A search sees a curve: for every integer parameter, the candidate its   *)
(* evaluation returns, which is a cost and whether the samples it needs    *)
(* are within the capacity of this search.  The code nests two such        *)
(* searches (block sizes over stage counts); both are _local_minimum, and  *)
(* the outer one's curve is the map from a block size to what the inner    *)
(* search returned for it.  The logarithms behind a cost are not modelled. *)
(***************************************************************************)
EXTENDS Integers, FiniteSets

CONSTANTS Problems,       \* the problems a caller may ask about, see below
          Infinite,       \* the cost of a configuration that does not work
          MaxAdditions,   \* additions tried at most: 64 in the code
          StaleLimit      \* fruitless searches that end the loop: 8

Start == 2      \* both searches start at parameter 2
NoPoint == 0    \* Python's None, as a point ...
NoBest == [cost |-> Infinite + 1, fits |-> FALSE]  \* ... and as a candidate

Candidate == [cost : 0 .. Infinite, fits : BOOLEAN]

ASSUME LimitsAssumption ==
    /\ Infinite \in Nat
    /\ MaxAdditions \in Nat \ {0}
    /\ StaleLimit \in Nat \ {0}

\* A curve is defined from Start to stop - 1; what does not work fits nowhere.
IsCurve(c) ==
    /\ IsFiniteSet(DOMAIN c)
    /\ c \in [Start .. Start + Cardinality(DOMAIN c) - 1 -> Candidate]
    /\ \A p \in DOMAIN c : c[p].cost = Infinite => ~ c[p].fits

\* A problem says whether its samples are limited, how many additions the loop
\* may make (the smaller of sample_count and 64), and what the search sees in
\* each round: with no additions in round 0, with round additions afterwards.
IsProblem(p) ==
    /\ p.limited \in BOOLEAN
    /\ p.tries \in 1 .. MaxAdditions
    /\ \A r \in 0 .. p.tries : IsCurve(p.curves[r])

ASSUME ProblemsAssumption == \A p \in Problems : IsProblem(p)

VARIABLES
    phase,      \* "begin", "search" or "done"
    problem,    \* what was asked
    round,      \* additions of the current search; 0 is the plain one
    low, high, direction, next, seen, best,  \* locals of _local_minimum
    cheapest,   \* the cheapest of "candidates"
    stale,      \* searches since the last improvement
    answer      \* the cost reported, Infinite when nothing was found

search == <<low, high, direction, next, seen, best>>
loop == <<round, cheapest, stale>>
vars == <<phase, problem, loop, search, answer>>

-----------------------------------------------------------------------------
(* _local_minimum.                                                         *)

curve == problem.curves[round]

Fits(c) == c.fits \/ (~ problem.limited /\ c # NoBest)

\* faulty: the capacity test with its two sides swapped
BetterSwapped(current, incumbent) ==
    /\ current.cost <= incumbent.cost
    /\ ~ (Fits(current) /\ ~ Fits(incumbent))

\* better: cheaper or as cheap, and no step back over the sample capacity
Better(current, incumbent) ==
    /\ current.cost <= incumbent.cost
    /\ ~ (Fits(incumbent) /\ ~ Fits(current))

HalfDown(a, b) == (a + b) \div 2
HalfUp(a, b) == (a + b + 1) \div 2

Stop(c) == Start + Cardinality(DOMAIN c)

\* A search on curve c begins at the highest parameter, if there is any.
Open(c) ==
    /\ low' = Start
    /\ high' = Stop(c) - 1
    /\ direction' = -1
    /\ next' = IF DOMAIN c = {} THEN NoPoint ELSE Stop(c) - 1
    /\ seen' = {}
    /\ best' = NoBest

\* The loop's condition
Continues == next \notin seen /\ next \in DOMAIN curve

GoTo(p) == next' = IF p = next THEN NoPoint ELSE p

\* The first candidate is compared with itself, which counts as better.
Improves == best = NoBest \/ Better(curve[next], best)

StepBelow ==
    /\ direction \in {-2, 2}
    /\ direction' = -1
    /\ GoTo(next - 1)
    /\ UNCHANGED <<low, high>>

\* faulty: one step down instead of a bisection
HalveDownByOne ==
    /\ direction = -1
    /\ direction' = -2
    /\ high' = next
    /\ GoTo(next - 1)
    /\ UNCHANGED low

HalveDown ==
    /\ direction = -1
    /\ direction' = -2
    /\ high' = next
    /\ GoTo(HalfUp(low, next))
    /\ UNCHANGED low

HalveUp ==
    /\ direction = 1
    /\ direction' = 2
    /\ low' = next
    /\ GoTo(HalfDown(next, high))
    /\ UNCHANGED high

\* faulty: the parameter tried next is the one just compared with
StepAboveByOne ==
    /\ direction = -1
    /\ direction' = 1
    /\ GoTo(next + 1)
    /\ UNCHANGED <<low, high>>

StepAbove ==
    /\ direction = -1
    /\ direction' = 1
    /\ GoTo(next + 2)
    /\ UNCHANGED <<low, high>>

GiveUp ==
    /\ direction = 1
    /\ GoTo(NoPoint)
    /\ UNCHANGED <<low, high, direction>>

RaiseLow ==
    /\ direction = -2
    /\ low' = next
    /\ GoTo(HalfUp(next, high))
    /\ UNCHANGED <<high, direction>>

LowerHigh ==
    /\ direction = 2
    /\ high' = next
    /\ GoTo(HalfDown(low, next))
    /\ UNCHANGED <<low, direction>>

\* One turn of the loop: evaluate a parameter, choose the next
Evaluate ==
    /\ phase = "search"
    /\ Continues
    /\ seen' = seen \cup {next}
    /\ \/ /\ Improves
          /\ best' = curve[next]
          /\ StepBelow \/ HalveDown \/ HalveUp
       \/ /\ ~ Improves
          /\ StepAbove \/ GiveUp \/ RaiseLow \/ LowerHigh
          /\ UNCHANGED best
    /\ UNCHANGED <<phase, problem, loop, answer>>

-----------------------------------------------------------------------------
(* bkw_estimate.                                                           *)

Init ==
    /\ phase = "begin"
    /\ problem \in Problems
    /\ round = 0
    /\ low = Start /\ high = Start /\ direction = -1
    /\ next = NoPoint /\ seen = {} /\ best = NoBest
    /\ cheapest = NoBest
    /\ stale = 0
    /\ answer = NoBest

\* Parameters the equations do not cover
Decline ==
    /\ phase = "begin"
    /\ phase' = "done"
    /\ UNCHANGED <<problem, loop, search, answer>>

SearchPlainly ==
    /\ phase = "begin"
    /\ phase' = "search"
    /\ Open(curve)
    /\ UNCHANGED <<problem, loop, answer>>

\* A finished search counts if its best needs no more samples than there are.
Accepted == best # NoBest /\ Fits(best)

Record ==
    /\ cheapest' = IF Accepted /\ best.cost < cheapest.cost THEN best ELSE cheapest
    /\ stale' =
         IF round = 0 \/ (~ Accepted /\ cheapest = NoBest) THEN stale
         ELSE IF Accepted /\ best.cost < cheapest.cost THEN 0 ELSE stale + 1

LastRound == round = problem.tries \/ (round > 0 /\ stale' >= StaleLimit)

\* An infinite best is reported as "nothing found", which NoBest stands for.
Report(c) ==
    /\ phase' = "done"
    /\ answer' = IF c.cost < Infinite THEN c ELSE NoBest
    /\ UNCHANGED <<round, search>>

TakeUnlimited ==
    /\ phase = "search"
    /\ ~ Continues
    /\ ~ problem.limited
    /\ Report(best)
    /\ UNCHANGED <<problem, cheapest, stale>>

\* faulty: the loop ends before the last result is among the candidates
TakeLastUnrecorded ==
    /\ phase = "search"
    /\ ~ Continues
    /\ problem.limited
    /\ Record
    /\ LastRound
    /\ Report(cheapest)
    /\ UNCHANGED problem

TakeLast ==
    /\ phase = "search"
    /\ ~ Continues
    /\ problem.limited
    /\ Record
    /\ LastRound
    /\ Report(cheapest')
    /\ UNCHANGED problem

\* One more sample addition: another error width, another capacity
AddSamples ==
    /\ phase = "search"
    /\ ~ Continues
    /\ problem.limited
    /\ Record
    /\ ~ LastRound
    /\ round' = round + 1
    /\ Open(problem.curves[round + 1])
    /\ UNCHANGED <<phase, problem, answer>>

\* bkw_estimate has returned; every other state has a step to take.
Returned == phase = "done" /\ UNCHANGED vars

Next ==
    \/ Decline \/ SearchPlainly
    \/ Evaluate
    \/ TakeUnlimited \/ TakeLast \/ AddSamples
    \/ Returned

Spec == Init /\ [][Next]_vars

-----------------------------------------------------------------------------
(* Properties.                                                             *)

TypeOK ==
    /\ phase \in {"begin", "search", "done"}
    /\ IsProblem(problem)
    /\ round \in 0 .. problem.tries
    /\ low \in Nat /\ high \in Nat
    /\ direction \in {-2, -1, 1, 2}
    /\ next \in Nat
    /\ seen \subseteq DOMAIN curve
    /\ {best, cheapest, answer} \subseteq Candidate \cup {NoBest}
    /\ stale \in 0 .. StaleLimit

\* A search never holds a candidate costlier than one it evaluated that fits:
\* comparing with the incumbent under two criteria, cost and capacity, loses no
\* better block size on the way (the function "better" inside bkw_estimate).
NothingCheaperSeen ==
    phase # "begin" =>
        \A p \in seen : Fits(curve[p]) => best.cost <= curve[p].cost

\* The number reported is that of a candidate the samples suffice for, and no
\* dearer than anything usable the last search saw: the early end of the loop
\* over sample additions does not drop what its last search found.
AnswerCoversLastSearch ==
    phase = "done" =>
        /\ answer # NoBest => Fits(answer)
        /\ Accepted =>
              \A p \in seen : Fits(curve[p]) /\ curve[p].cost < Infinite
                                  => answer.cost <= curve[p].cost

\* Strictly falling down to p, strictly rising from there
ValleyAt(p) ==
    /\ p \in DOMAIN curve
    /\ \A o \in DOMAIN curve \ {p} :
          IF o < p THEN curve[o].cost > curve[o + 1].cost
                   ELSE curve[o].cost > curve[o - 1].cost

\* On a curve with one valley whose points all fit, the bisecting search ends
\* at the lowest point or right beside it.  It does miss the lowest point: it
\* never evaluates the first one of two, for example.
LandsNextToMinimum ==
    phase = "search" /\ ~ Continues /\ (\A p \in DOMAIN curve : Fits(curve[p])) =>
        \A p \in DOMAIN curve : ValleyAt(p) =>
            \E o \in {p - 1, p, p + 1} \cap DOMAIN curve : best = curve[o]

\* How often a distance can be halved before it is at most 1
Halvings[n \in Nat] == IF n <= 1 THEN 0 ELSE 1 + Halvings[n \div 2]

\* A search evaluates its highest parameter and at most three more for every
\* halving of its range, whatever the curve: the BKW preflight has no deadline of
\* its own, and every candidate of the outer search is a search itself.
EvaluatesFew ==
    seen # {} => Cardinality(seen) <= 3 * Halvings[Cardinality(DOMAIN curve) - 1] + 1
=============================================================================
