------------------------------ MODULE SageChild ------------------------------
(***************************************************************************)
(* One request on its way through the strict models of the HTTP process    *)
(* (src/models.py), the pipe, the Sage child that parses and dispatches it *)
(* (src/worker.py), the adapter that calls the estimator or the screens    *)
(* (src/adapter.py) and back to the parent, which judges exit status and   *)
(* standard output.                                                        *)
(*                                                                         *)
(* The request is validated twice: as the JSON body of an endpoint, and by *)
(* the child, which only has the field "operation" to tell the two kinds   *)
(* of request apart.  The estimator and Sage are outside the repository;   *)
(* they may raise, print, and leave out or spoil the result of any attack. *)
(***************************************************************************)
EXTENDS Integers, Sequences

CONSTANTS Bodies,    \* the JSON objects clients post, see BodyType
          Absent,    \* the value of a field that is not there
          FloatMax   \* a float of more than this is infinite

LweAttacks  == {"arora_gb", "bkw", "usvp", "bdd", "bdd_hybrid",
                "bdd_mitm_hybrid", "dual", "dual_hybrid"}
SlowAttacks == {"arora_gb", "bkw"}
NtruAttacks == {"usvp", "dsd", "bdd", "bdd_hybrid", "bdd_mitm_hybrid"}
SisAttacks  == {"lattice"}
Attacks     == LweAttacks \cup NtruAttacks \cup SisAttacks

AttacksFor(kind) == CASE kind = "lwe"  -> LweAttacks
                      [] kind = "ntru" -> NtruAttacks
                      [] OTHER         -> SisAttacks

\* PUBLIC_TO_UPSTREAM
PublicToUpstream ==
    [a \in Attacks |-> IF a = "arora_gb" THEN "arora-gb" ELSE a]

UpstreamNames(attacks) == {PublicToUpstream[a] : a \in attacks}

DistributionKinds ==
    {"uniform_binary", "uniform_ternary", "sparse_ternary",
     "fixed_weight_binary", "fixed_weight_ternary", "discrete_gaussian",
     "centered_binomial", "uniform_integer"}
ErrorKinds == {"discrete_gaussian", "centered_binomial", "uniform_integer"}

\* a and b are the parameters of the kind: a weight, positive and negative
\* weight, standard deviation, eta, lower and upper bound
Distribution == [kind : DistributionKinds, a : Int, b : Int]

\* bound is the length_bound of an SIS instance, which has no distributions
ProblemType == [kind : {"lwe", "ntru", "sis"}, dimension : Int, modulus : Int,
                secret : Distribution, error : Distribution, bound : Int]

Number == Int \cup {Absent}

BodyType == [problem : ProblemType, attacks : Seq(Attacks),
             operation : {Absent, "preflight", "estimate"},
             security : Number, coarse : Number, refined : Number]

ASSUME BodyAssumption == Bodies \subseteq BodyType
ASSUME NumberAssumption == Absent \notin Int \cup {"preflight", "estimate"}
                           /\ FloatMax \in Nat

VARIABLES endpoint,  \* where the body was posted
          request,   \* the body, then the request that goes to the child
          pc,        \* where the request is
          params,    \* the distributions the estimator was given
          called,    \* the upstream attacks it was asked to run
          raw,       \* what it returned for each of them
          results,   \* the outcomes so far, in order
          noise,     \* what was printed: by Python code, or below it
          stdout,    \* what the parent reads
          exit       \* the exit status of the child

upstream == <<params, called, raw, noise>>
vars == <<endpoint, request, pc, upstream, results, stdout, exit>>

\* posted     not validated yet       refused    answered with 422
\* sent       in the pipe             exact      in execute
\* normalizing  turning raw results into outcomes
\* preparing  in execute_preflight, before its loop
\* screening  in its loop             writing    the response is complete
\* rejected   exited because the request did not validate in the child
\* exited     for any other reason
Places == {"posted", "refused", "sent", "exact", "normalizing", "preparing",
           "screening", "writing", "rejected", "exited"}

Families == {"Uniform", "SparseBinary", "SparseTernary", "DiscreteGaussian",
             "CenteredBinomial"}

Noises == {"none", "python", "native"}

\* an object of estimator.ND: its two parameters and its length
UpstreamObject == [family : Families, x : Int, y : Int, n : Int]

\* nothing, no finite cost, a finite one, and what the adapter cannot normalise
\* (an exception that _log2_cost or _normalize_metric does not catch)
RawResults == {"none", "infinite", "finite", "odd"}

Tiers == {"coarse", "refined"}

Outcomes ==
    [attack : Attacks,
     kind : {"computed", "no_finite_estimate", "failed", "preflight_unknown"}]
    \cup [attack : {"arora_gb"}, kind : {"threshold_screen"}, tier : Tiers,
          decision : {"above_threshold", "needs_exact"}, threshold : Int]

TypeOK ==
    /\ endpoint \in {"estimate", "preflight"}
    /\ request \in BodyType
    /\ pc \in Places
    /\ params \in Seq(UpstreamObject)
    /\ called \subseteq UpstreamNames(Attacks)
    /\ raw = <<>> \/ raw \in [called -> RawResults]
    /\ results \in Seq(Outcomes)
    /\ noise \in Noises
    /\ stdout \in Seq({"noise", "document"})
    /\ exit \in 0 .. 2

Init ==
    /\ endpoint \in {"estimate", "preflight"}
    /\ request \in Bodies
    /\ pc = "posted"
    /\ params = <<>> /\ called = {} /\ raw = <<>> /\ noise = "none"
    /\ results = <<>> /\ stdout = <<>> /\ exit = 0

----------------------------------------------------------------------------
(* The models *)

\* the validators of the distributions
WellFormed(d) ==
    CASE d.kind \in {"discrete_gaussian", "centered_binomial"} -> d.a > 0
      [] d.kind = "uniform_integer" -> d.a <= d.b
      [] d.kind \in {"fixed_weight_binary", "fixed_weight_ternary"} ->
            d.a >= 0 /\ d.b >= 0
      [] OTHER -> TRUE

\* faulty: the two weights of a ternary secret are compared one by one
FitsEach(d, length) ==
    /\ d.kind = "fixed_weight_binary" => d.a <= length
    /\ d.kind = "fixed_weight_ternary" => d.a <= length /\ d.b <= length

\* _require_secret_length
Fits(d, length) ==
    /\ d.kind = "fixed_weight_binary" => d.a <= length
    /\ d.kind = "fixed_weight_ternary" => d.a + d.b <= length

ProblemValid(p) ==
    /\ p.dimension > 0 /\ p.modulus > 1
    /\ IF p.kind = "sis" THEN p.bound > 0
       ELSE /\ WellFormed(p.secret) /\ Fits(p.secret, p.dimension)
            /\ p.error.kind \in ErrorKinds /\ WellFormed(p.error)

Distinct(s) == \A i, j \in DOMAIN s : s[i] = s[j] => i = j
Asked(r) == {r.attacks[i] : i \in DOMAIN r.attacks}

\* faulty: any attack goes with any problem
AttacksUnchecked(r) == r.attacks # <<>> /\ Distinct(r.attacks)

AttacksValid(r) == /\ r.attacks # <<>> /\ Distinct(r.attacks)
                   /\ Asked(r) \subseteq AttacksFor(r.problem.kind)

\* EstimateRequest, which like every StrictModel forbids further fields
EstimateValid(r) ==
    /\ ProblemValid(r.problem) /\ AttacksValid(r)
    /\ \A field \in {"operation", "security", "coarse", "refined"} :
          r[field] = Absent

PreflightValid(r) ==
    /\ ProblemValid(r.problem) /\ AttacksValid(r)
    /\ r.operation \in {Absent, "preflight"}
    /\ Absent \notin {r.security, r.coarse, r.refined}
    /\ r.security > 0 /\ r.coarse >= 0 /\ r.refined >= 0
    /\ r.problem.kind = "lwe"
    /\ Asked(r) \subseteq SlowAttacks

Valid == IF endpoint = "preflight" THEN PreflightValid(request)
         ELSE EstimateValid(request)

\* faulty: fields the client left to their default are not sent on
DumpAsPosted(r) == r

\* model_dump_json, which sends defaults too
Dump(r) == IF endpoint = "preflight" THEN [r EXCEPT !.operation = "preflight"]
           ELSE r

Refuse ==
    /\ pc = "posted" /\ ~Valid
    /\ pc' = "refused"
    /\ UNCHANGED <<endpoint, request, upstream, results, stdout, exit>>

Accept ==
    /\ pc = "posted" /\ Valid
    /\ pc' = "sent" /\ request' = Dump(request)
    /\ UNCHANGED <<endpoint, upstream, results, stdout, exit>>

----------------------------------------------------------------------------
(* The child *)

Exit(status) == pc' = "exited" /\ exit' = status

\* the request is not valid: "invalid_worker_request"
Reject == pc' = "rejected" /\ exit' = 2

\* An exception that leaves execute or execute_preflight.  A ValidationError of
\* a response model is taken for one of the request and exits with 2.
Crash == \E status \in {1, 2} : Exit(status)

\* main: parse, dispatch on the operation and validate again
Dispatch ==
    /\ pc = "sent"
    /\ IF request.operation = "preflight"
       THEN IF PreflightValid(request)
            THEN pc' = "preparing" /\ UNCHANGED exit ELSE Reject
       ELSE IF EstimateValid(request)
            THEN pc' = "exact" /\ UNCHANGED exit ELSE Reject
    /\ UNCHANGED <<endpoint, request, upstream, results, stdout>>

\* the fixed composition that stands for a probabilistic sparse secret
TypicalSignWeight(length) == (length + 2) \div 4

\* _distribution: the parameters of the upstream object, with its length,
\* which only the secret has
Translate(d, length) ==
    LET object(family, x, y) ==
            [family |-> family, x |-> x, y |-> y, n |-> length]
        w == TypicalSignWeight(length)
    IN  CASE d.kind = "uniform_binary"       -> object("Uniform", 0, 1)
          [] d.kind = "uniform_ternary"      -> object("Uniform", -1, 1)
          [] d.kind = "sparse_ternary"       -> object("SparseTernary", w, w)
          [] d.kind = "fixed_weight_binary"  -> object("SparseBinary", d.a, 0)
          [] d.kind = "fixed_weight_ternary" -> object("SparseTernary", d.a, d.b)
          [] d.kind = "discrete_gaussian"    -> object("DiscreteGaussian", d.a, 0)
          [] d.kind = "centered_binomial"    -> object("CenteredBinomial", d.a, 0)
          [] OTHER                           -> object("Uniform", d.a, d.b)

\* no error distribution takes a length; 0 stands for None
NoLength == 0

Parameters(p) ==
    IF p.kind = "sis" THEN <<>>
    ELSE <<Translate(p.secret, p.dimension), Translate(p.error, NoLength)>>

\* what the estimator runs of a problem unless it is denied
UpstreamAttacks(kind) ==
    CASE kind = "lwe"  -> {"arora-gb", "bkw", "usvp", "bdd", "bdd_hybrid",
                           "bdd_mitm_hybrid", "dual", "dual_hybrid"}
      [] kind = "ntru" -> {"usvp", "dsd", "bdd", "bdd_hybrid",
                           "bdd_mitm_hybrid"}
      [] OTHER         -> {"lattice"}

\* the deny_list of _run_estimator
DenyList(r) ==
    IF r.problem.kind = "sis" THEN {}
    ELSE UpstreamNames(AttacksFor(r.problem.kind)) \ UpstreamNames(Asked(r))

Outcome(attack, kind) == [attack |-> attack, kind |-> kind]

AllFailed == [i \in DOMAIN request.attacks |-> Outcome(request.attacks[i], "failed")]

\* _run_estimator, with what it prints
Estimate(visible) ==
    /\ pc = "exact"
    /\ params' = Parameters(request.problem)
    /\ called' = UpstreamAttacks(request.problem.kind) \ DenyList(request)
    /\ noise' \in Noises
    /\ stdout' = IF noise' \in visible THEN <<"noise">> ELSE <<>>
    /\ UNCHANGED <<endpoint, request>>

Returns == /\ raw' \in [called' -> RawResults]
           /\ pc' = "normalizing"
           /\ UNCHANGED <<results, exit>>

\* an exception becomes a failure of every attack
Raises == /\ results' = AllFailed
          /\ pc' = "writing"
          /\ UNCHANGED <<raw, exit>>

\* faulty: what the estimator prints is not captured
ExecuteNoisily == Estimate({"python", "native"}) /\ (Returns \/ Raises)

\* faulty: an exception of the estimator is not caught
ExecuteUnguarded ==
    /\ Estimate({"native"})
    /\ Returns \/ (Crash /\ UNCHANGED <<raw, results>>)

\* execute up to its results: only what goes around sys.stdout escapes the
\* capture
Execute == Estimate({"native"}) /\ (Returns \/ Raises)

Turn == request.attacks[Len(results) + 1]

\* pc after one more outcome
Continue(at) == IF Len(results') = Len(request.attacks) THEN "writing" ELSE at

\* faulty: the results are looked up by public name
RawByPublicName(attack) == IF attack \in DOMAIN raw THEN raw[attack] ELSE "none"

RawOf(attack) == LET name == PublicToUpstream[attack]
                 IN  IF name \in DOMAIN raw THEN raw[name] ELSE "none"

KindOf(result) == CASE result = "finite"   -> "computed"
                    [] result = "infinite" -> "no_finite_estimate"
                    [] OTHER               -> "failed"

\* _normalize_attack, outside the try of execute
Normalize ==
    /\ pc = "normalizing"
    /\ IF RawOf(Turn) = "odd" THEN Crash /\ UNCHANGED results
       ELSE /\ results' = Append(results, Outcome(Turn, KindOf(RawOf(Turn))))
            /\ pc' = Continue("normalizing")
            /\ UNCHANGED exit
    /\ UNCHANGED <<endpoint, request, upstream, stdout>>

----------------------------------------------------------------------------
(* The screens *)

\* execute_preflight up to its loop, which nothing captures
Prepare ==
    /\ pc = "preparing"
    /\ params' = Parameters(request.problem)
    /\ noise' \in Noises
    /\ stdout' = IF noise' = "none" THEN <<>> ELSE <<"noise">>
    /\ pc' = "screening"
    /\ UNCHANGED <<endpoint, request, called, raw, results, exit>>

Larger(x, y) == IF x >= y THEN x ELSE y

Floor == [coarse |-> 64, refined |-> 10]

\* the threshold of a tier of arora_gb_threshold_screen
Threshold(tier) == request.security + Larger(request[tier], Floor[tier])

\* faulty: the coarse margin is reported for a screen that was interrupted
AlarmThresholdCoarse == request.security + Larger(request.coarse, 10)

\* the threshold execute_preflight reports for a screen the alarm interrupted
AlarmThreshold == request.security + Larger(request.refined, 10)

ThresholdScreen(decision, tier, threshold) ==
    [attack |-> "arora_gb", kind |-> "threshold_screen", decision |-> decision,
     tier |-> tier, threshold |-> threshold]

\* _canonical_decimal refuses what is not finite
Screened(outcome) ==
    /\ outcome.threshold <= FloatMax
    /\ results' = Append(results, outcome)

ScreenArora ==
    /\ pc = "screening" /\ Turn = "arora_gb"
    /\ \/ \E tier \in Tiers :
             Screened(ThresholdScreen("above_threshold", tier, Threshold(tier)))
       \/ Screened(ThresholdScreen("needs_exact", "refined", Threshold("refined")))
       \/ Screened(ThresholdScreen("needs_exact", "refined", AlarmThreshold))
    /\ pc' = Continue("screening")
    /\ UNCHANGED <<endpoint, request, upstream, stdout, exit>>

EstimateBkw ==
    /\ pc = "screening" /\ Turn = "bkw"
    /\ \E kind \in {"computed", "preflight_unknown"} :
          results' = Append(results, Outcome("bkw", kind))
    /\ pc' = Continue("screening")
    /\ UNCHANGED <<endpoint, request, upstream, stdout, exit>>

\* Sage, or a number that is too large for a float, raises: no screen has a try
PreflightRaises ==
    /\ pc \in {"preparing", "screening"}
    /\ Crash
    /\ UNCHANGED <<endpoint, request, upstream, results, stdout>>

WriteResponse ==
    /\ pc = "writing"
    /\ stdout' = Append(stdout, "document")
    /\ Exit(0)
    /\ UNCHANGED <<endpoint, request, upstream, results>>

Next == \/ Refuse \/ Accept \/ Dispatch \/ Execute \/ Normalize
        \/ Prepare \/ ScreenArora \/ EstimateBkw \/ PreflightRaises
        \/ WriteResponse

Spec == Init /\ [][Next]_vars

----------------------------------------------------------------------------
(* Properties *)

\* What SageProcessRunner._decode_response makes of a child that exited
Verdict ==
    IF exit # 0 THEN "failed"
    ELSE IF stdout # <<"document">> THEN "malformed"
    ELSE IF [i \in DOMAIN results |-> results[i].attack] # request.attacks
         THEN "mismatched"
    ELSE "valid"

OnExactPath == pc \in {"exact", "normalizing"}
OnPreflightPath == pc \in {"preparing", "screening"}

\* The child takes the path of the endpoint the request was posted to, and it
\* never refuses what the HTTP process accepted, whatever fields the client
\* put in the body or left out.
RightPath ==
    /\ OnExactPath => endpoint = "estimate"
    /\ OnPreflightPath => endpoint = "preflight"
    /\ pc # "rejected"

\* A child that exits with 0 is believed: only what was printed around the
\* capture, which the preflight path does not have, spoils its response.
AnswersAccepted ==
    pc = "exited" /\ exit = 0 /\ Verdict # "valid" =>
        \/ noise = "native"
        \/ noise = "python" /\ endpoint = "preflight"

\* On the exact path no exception of the estimator takes the child down: it
\* exits in failure only over a result that cannot be normalised.
ExactSurvivesEstimator ==
    endpoint = "estimate" /\ exit # 0 =>
        \E name \in DOMAIN raw : raw[name] = "odd"

\* The outcome of an attack is the one of its own upstream result, whatever the
\* results of the attacks around it.
OutcomesFaithful ==
    endpoint = "estimate" /\ raw # <<>> =>
        \A i \in DOMAIN results :
            results[i].kind = KindOf(raw[PublicToUpstream[request.attacks[i]]])

\* The estimator runs exactly the attacks that were asked for.
RunsRequested ==
    pc = "normalizing" => called = UpstreamNames(Asked(request))

\* an object the constructors of estimator.ND are meant for
Legal(d) ==
    CASE d.family = "Uniform"       -> d.x <= d.y
      [] d.family = "SparseBinary"  -> 0 <= d.x /\ d.x <= d.n
      [] d.family = "SparseTernary" -> 0 <= d.x /\ 0 <= d.y /\ d.x + d.y <= d.n
      [] OTHER                      -> d.x > 0

\* Validation at the boundary is enough for the translation behind the pipe:
\* no distribution the estimator is given is empty or heavier than it is long.
ParametersLegal == \A i \in DOMAIN params : Legal(params[i])

\* The threshold a screen reports is finite and is the one of the tier it
\* reports, although the adapter computes it anew when the alarm cut the
\* screen off.
ThresholdsHonest ==
    \A i \in DOMAIN results :
        results[i].kind = "threshold_screen" =>
            /\ results[i].threshold = Threshold(results[i].tier)
            /\ results[i].threshold <= FloatMax
=============================================================================
