--------------------------- MODULE MCAroraScreen ---------------------------
(* Instances of the Arora-GB screen with two candidates, both of them or     *)
(* only the first in the coarse grid.                                        *)
EXTENDS AroraScreen

CONSTANTS first, second, unsolved

MCCandidates == {first, second}
MCGrids == {[coarse |-> g, refined |-> MCCandidates] :
                g \in {{first}, MCCandidates}}

Cost == [c \in MCCandidates |-> [d \in 0 .. 3 |-> d]]

\* Systems that are solved at degree 1, at degree 3, and not at all
Easy == [vars |-> 1, equations |-> <<<<1, 2>>>>]
Hard == [vars |-> 2, equations |-> <<<<2, 2>>, <<3, 1>>, <<4, 0>>>>]
Open == [vars |-> 3, equations |-> <<<<2, 1>>>>]

\* The algorithm of the code agrees with the reference on every system of up to
\* four variables and two kinds of equations, and the systems reach every degree
Equations == {<<degree, count>> : degree \in 0 .. 4, count \in 0 .. 4}
Systems == [vars : 1 .. 4, equations : {<<e>> : e \in Equations}
                                       \cup {<<e, f>> : e, f \in Equations}]

ASSUME SeriesAssumption ==
    /\ \A s \in Systems, limit \in 0 .. 6 :
          SemiRegularDreg(s, limit) = HilbertDegree(s, limit, 8)
    /\ \A degree \in 1 .. 6 :
          \E s \in Systems : HilbertDegree(s, 6, 8) = degree

\* The refined threshold is usually the lower one, but a caller may ask for a
\* refined margin that makes it the higher one.
MCThresholds == {[coarse |-> 5, refined |-> 3], [coarse |-> 2, refined |-> 5]}

\* What the algebra may say of two candidates the screen can judge ...
Judged ==
    [supported : {TRUE}, grid : MCGrids, threshold : MCThresholds,
     usable : SUBSET MCCandidates, countable : {MCCandidates},
     repetition : [MCCandidates -> {0, 3}],
     system : [MCCandidates -> {Easy, Hard, Open}], cost : {Cost}]

\* ... and the problems, or candidates, it has no model for
Unjudged ==
    [supported : BOOLEAN, grid : MCGrids, threshold : MCThresholds,
     usable : {MCCandidates}, countable : SUBSET MCCandidates,
     repetition : {[c \in MCCandidates |-> 0]},
     system : {[c \in MCCandidates |-> Open]}, cost : {Cost}]

MCProblems == Judged \cup Unjudged
============================================================================
