---------------------------- MODULE HilbertSeries ----------------------------
(***************************************************************************)
(* The solving degree of a semi-regular system (_semi_regular_dreg of      *)
(* src/slow_estimate.py): the degree of the first negative coefficient of  *)
(*                                                                         *)
(*     product over the equations of (1 - z^degree)^count  /  (1 - z)^vars *)
(*                                                                         *)
(* An equation is a pair <<degree, count>>.  The code expands the powers   *)
(* by the binomial theorem, drops every term above the degree limit and    *)
(* gets the coefficients of the quotient by a convolution with binomials;  *)
(* the reference multiplies and divides one factor at a time.              *)
(***************************************************************************)
EXTENDS Integers, Sequences, Combinatorics

CONSTANT Unsolved  \* no negative Hilbert coefficient was found

\* the constant polynomial 1 up to a degree
One(limit) == [d \in 0 .. limit |-> IF d = 0 THEN 1 ELSE 0]

\* The sums of the first values of a function on 0 .. n
Sums(f) ==
    LET sum[d \in DOMAIN f] == IF d = 0 THEN f[0] ELSE sum[d - 1] + f[d]
    IN  sum

Sign(i) == IF i % 2 = 0 THEN 1 ELSE -1

\* What (1 - z^degree)^count contributes to the coefficient of z^d
Terms(poly, degree, count, d) ==
    [i \in 0 .. count |-> IF i * degree <= d
                          THEN Sign(i) * choose(count, i) * poly[d - i * degree]
                          ELSE 0]

\* The turn of the first loop for one equation: poly * (1 - z^degree)^count
Expand(poly, equation, limit) ==
    LET degree == equation[1]  count == equation[2]
    IN  IF degree <= 0 \/ count <= 0 THEN poly
        ELSE [d \in 0 .. limit |-> Sums(Terms(poly, degree, count, d))[count]]

Numerator(equations, limit) ==
    LET poly[n \in 0 .. Len(equations)] ==
            IF n = 0 THEN One(limit)
            ELSE Expand(poly[n - 1], equations[n], limit)
    IN  poly[Len(equations)]

\* A coefficient of numerator / (1 - z)^vars
Coefficient(vars, numerator, d) ==
    Sums([s \in 0 .. d |-> numerator[s] * choose(vars + d - s - 1, d - s)])[d]

FirstNegative(coefficient, limit) ==
    LET negative == {d \in 0 .. limit : coefficient[d] < 0}
    IN  IF negative = {} THEN Unsolved
        ELSE CHOOSE d \in negative : \A e \in negative : d <= e

\* _semi_regular_dreg
SemiRegularDreg(system, limit) ==
    LET numerator == Numerator(system.equations, limit)
    IN  FirstNegative([d \in 0 .. limit |->
                          Coefficient(system.vars, numerator, d)], limit)

----------------------------------------------------------------------------
(* The reference *)

\* times 1 - z^degree
TimesFactor(poly, degree) ==
    [d \in DOMAIN poly |->
        poly[d] - (IF d >= degree THEN poly[d - degree] ELSE 0)]

\* times (1 - z^degree)^count
TimesPower(poly, equation) ==
    LET power[k \in 0 .. equation[2]] ==
            IF k = 0 THEN poly ELSE TimesFactor(power[k - 1], equation[1])
    IN  IF equation[1] <= 0 THEN poly ELSE power[equation[2]]

Product(equations, top) ==
    LET poly[n \in 0 .. Len(equations)] ==
            IF n = 0 THEN One(top) ELSE TimesPower(poly[n - 1], equations[n])
    IN  poly[Len(equations)]

\* by 1 - z as often as there are variables: each time the sums of the
\* coefficients
Quotient(poly, vars) ==
    LET series[k \in 0 .. vars] ==
            IF k = 0 THEN poly ELSE Sums(series[k - 1])
    IN  series[vars]

\* A series over degrees 0 .. top of which the first negative coefficient up to
\* limit is sought
HilbertDegree(system, limit, top) ==
    FirstNegative(Quotient(Product(system.equations, top), system.vars), limit)
=============================================================================
