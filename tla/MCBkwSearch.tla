---------------------------- MODULE MCBkwSearch ----------------------------
(* Small arbitrary curves, every order of the costs of a curve with one     *)
(* valley over up to eleven parameters, and longer falling and rising ones. *)
EXTENDS BkwSearch, Sequences

MaxArbitrary == 3    \* parameters of an arbitrary curve
MaxValley == 11      \* parameters of a curve with one valley
MaxSlope == 40       \* parameters of a falling or a rising curve
MaxUneven == 5       \* ... some of whose points need too many samples

Points(n) == Start .. Start + n - 1

ArbitraryCurves ==
    UNION {[Points(n) -> {[cost |-> 0, fits |-> TRUE], [cost |-> 0, fits |-> FALSE],
                          [cost |-> 1, fits |-> TRUE], [cost |-> 1, fits |-> FALSE],
                          [cost |-> Infinite, fits |-> FALSE]}] : n \in 0 .. MaxArbitrary}

\* The costs 0 .. n - 1 in every order that first falls and then rises: the
\* highest is at either end of a shorter valley
Valleys[n \in 1 .. MaxValley] ==
    IF n = 1 THEN {<<0>>}
    ELSE UNION {{<<n - 1>> \o v, Append(v, n - 1)} : v \in Valleys[n - 1]}

ValleyCurves(n, fitting) ==
    {[p \in Points(n) |-> [cost |-> v[p - Start + 1], fits |-> p \in fitting]] :
        v \in Valleys[n]}

\* Costs that only fall or only rise with the parameter
Slopes(n) ==
    {[p \in Points(n) |-> [cost |-> Start + n - p, fits |-> TRUE]],
     [p \in Points(n) |-> [cost |-> p - Start, fits |-> TRUE]]}

\* What the rounds of a problem with limited samples may find
RoundCurves ==
    {[p \in Points(1) |-> c] : c \in {[cost |-> 2, fits |-> TRUE],
                                      [cost |-> 3, fits |-> TRUE],
                                      [cost |-> 4, fits |-> TRUE],
                                      [cost |-> 0, fits |-> FALSE]}}

Asking(limited, tries, curves) ==
    [limited |-> limited, tries |-> tries, curves |-> curves]

MCProblems ==
    \* one curve, with unlimited samples or with samples that are enough:
    \* whole valleys, or valleys with some points that need too many samples
    {Asking(FALSE, 1, [r \in 0 .. 1 |-> c]) :
        c \in UNION {ValleyCurves(n, Points(n)) : n \in 1 .. MaxValley}
                 \cup UNION {Slopes(n) : n \in 1 .. MaxSlope}}
    \cup {Asking(TRUE, 1, [r \in 0 .. 1 |-> c]) :
            c \in ArbitraryCurves \cup
                  UNION {ValleyCurves(n, fitting) :
                            n \in 1 .. MaxUneven, fitting \in SUBSET Points(MaxUneven)}}
    \cup {Asking(FALSE, 1, [r \in 0 .. 1 |-> c]) : c \in ArbitraryCurves}
    \* every sequence of rounds that find something, or nothing
    \cup {Asking(TRUE, tries, curves) :
            tries \in 1 .. MaxAdditions, curves \in [0 .. MaxAdditions -> RoundCurves]}
============================================================================
