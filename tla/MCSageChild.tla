---------------------------- MODULE MCSageChild ----------------------------
(* Bodies with every kind of problem and distribution, legal and not, with   *)
(* the attacks of their own and of other problems, and with and without the  *)
(* fields of a preflight.                                                    *)
EXTENDS SageChild

D(kind, a, b) == [kind |-> kind, a |-> a, b |-> b]

Gaussian == D("discrete_gaussian", 3, 0)

Problem(kind, n, secret, error) ==
    [kind |-> kind, dimension |-> n, modulus |-> 17, secret |-> secret,
     error |-> error, bound |-> 1]

\* secrets, of a length they fit and of one they do not fit
Secrets == {D("uniform_binary", 0, 0), D("uniform_ternary", 0, 0),
            D("fixed_weight_binary", 3, 0), D("fixed_weight_ternary", 2, 1),
            D("fixed_weight_ternary", 1, 1), D("discrete_gaussian", 0, 0),
            D("centered_binomial", 2, 0), D("uniform_integer", 1, -1)}

Sound == {Problem("lwe", 2, s, Gaussian) : s \in Secrets}
         \cup {Problem("lwe", n, D("sparse_ternary", 0, 0), Gaussian) : n \in 0 .. 6}
         \cup {Problem("lwe", 3, D("fixed_weight_ternary", 2, 1), e) :
                   e \in {D("uniform_integer", -2, 2), D("sparse_ternary", 0, 0)}}

Others == {Problem("ntru", 2, D("sparse_ternary", 0, 0), Gaussian),
           [Problem("sis", 2, Gaussian, Gaussian) EXCEPT !.bound = 0],
           Problem("sis", 2, Gaussian, Gaussian)}

AttackLists == {<<>>, <<"arora_gb">>, <<"bkw", "arora_gb">>,
                <<"bkw", "bkw">>, <<"dual", "arora_gb", "usvp">>,
                <<"bdd", "dsd">>, <<"lattice">>}

\* what a body holds beside problem and attacks
Plain == [operation : {Absent, "preflight", "estimate"}, security : {Absent},
          coarse : {Absent}, refined : {Absent}]
Screening == [operation : {Absent, "preflight"}, security : {0, 100, 1000},
              coarse : {0, 70, 1000}, refined : {0, 20, 1000}]
Odd == {[operation |-> "estimate", security |-> 100, coarse |-> 0, refined |-> 0],
        [operation |-> "preflight", security |-> 100, coarse |-> -1, refined |-> 0],
        [operation |-> Absent, security |-> 100, coarse |-> Absent, refined |-> 0]}

Body(p, attacks, f) ==
    [problem |-> p, attacks |-> attacks, operation |-> f.operation,
     security |-> f.security, coarse |-> f.coarse, refined |-> f.refined]

Simple == Problem("lwe", 2, D("uniform_binary", 0, 0), Gaussian)

\* every problem with one set of fields, and every set of fields with one
MCBodies ==
    {Body(p, a, f) : p \in Sound \cup Others, a \in AttackLists, f \in Plain}
    \cup {Body(Simple, a, f) : a \in AttackLists, f \in Screening \cup Odd}
    \cup {Body(p, a, [operation |-> "preflight", security |-> 100,
                      coarse |-> 0, refined |-> 0]) :
             p \in Sound \cup Others, a \in AttackLists}
============================================================================
