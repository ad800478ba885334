--------------------------- MODULE SageChildProofs ---------------------------
(***************************************************************************)
(* Proofs about the Sage child, for every set of bodies.                   *)
(*                                                                         *)
(* What the properties need of the past is that the request is valid for   *)
(* its endpoint from the pipe on (PathInv), that the outcomes so far are   *)
(* those of the first attacks (ProgressInv) and where the content of       *)
(* standard output came from (OutputInv).                                  *)
(***************************************************************************)
EXTENDS SageChild, TLAPS

----------------------------------------------------------------------------
(* The composition that stands for a sparse secret *)

\* The fixed composition fits into the secret, and its two weights are as near
\* to the expected quarter of the length as whole numbers are.
THEOREM TypicalWeightFits ==
    ASSUME NEW n \in Nat \ {0}
    PROVE  LET w == TypicalSignWeight(n)
           IN  w \in Nat /\ 2 * w <= n /\ -2 < 4 * w - n /\ 4 * w - n <= 2
  BY SMT DEF TypicalSignWeight

\* No balanced composition of n coefficients is likelier than that of weight w:
\* the ratios of neighbouring multinomial probabilities with 1/4, 1/2 and 1/4
IsMode(n, w) ==
    /\ (n - 2 * w) * (n - 2 * w - 1) <= 4 * (w + 1) * (w + 1)
    /\ w > 0 => (n - 2 * w + 2) * (n - 2 * w + 1) >= 4 * w * w

\* adapter.py calls its composition the modal one.  It is for three lengths of
\* four; when the length is 2 modulo 4 the mode is one below it.
THEOREM TypicalWeightIsModal ==
    ASSUME NEW n \in Nat \ {0}
    PROVE  LET w == TypicalSignWeight(n)
           IN  IF n % 4 = 2 THEN IsMode(n, w - 1) /\ ~IsMode(n, w)
               ELSE IsMode(n, w)
<1> DEFINE w == TypicalSignWeight(n)
           k == n \div 4
<1>0. k \in Nat
  BY SMT
<1>1. CASE n % 4 = 0
  <2>1. n = 4 * k /\ w = k
    BY <1>1, SMT DEF TypicalSignWeight
  <2>2. n - 2 * w = 2 * k
    BY <1>0, <2>1, SMT
  <2> QED
    BY <1>0, <1>1, <2>1, <2>2, SMT DEF IsMode
<1>2. CASE n % 4 = 1
  <2>1. n = 4 * k + 1 /\ w = k
    BY <1>2, SMT DEF TypicalSignWeight
  <2>2. n - 2 * w = 2 * k + 1
    BY <1>0, <2>1, SMT
  <2> QED
    BY <1>0, <1>2, <2>1, <2>2, SMT DEF IsMode
<1>3. CASE n % 4 = 2
  <2>1. n = 4 * k + 2 /\ w = k + 1
    BY <1>3, SMT DEF TypicalSignWeight
  <2>2. n - 2 * w = 2 * k
    BY <1>0, <2>1, SMT
  <2> QED
    BY <1>0, <1>3, <2>1, <2>2, SMT DEF IsMode
<1>4. CASE n % 4 = 3
  <2>1. n = 4 * k + 3 /\ w = k + 1
    BY <1>4, SMT DEF TypicalSignWeight
  <2>2. n - 2 * w = 2 * k + 1
    BY <1>0, <2>1, SMT
  <2> QED
    BY <1>0, <1>4, <2>1, <2>2, SMT DEF IsMode
<1> QED
  BY <1>1, <1>2, <1>3, <1>4, SMT

----------------------------------------------------------------------------
(* Types *)

\* Where nothing has been answered yet
Fresh == {"posted", "refused", "sent", "exact", "preparing"}

\* The request is valid for its endpoint from the pipe on, and its operation
\* names the endpoint
PathInv ==
    /\ pc \notin {"posted", "refused"} =>
          Valid /\ (request.operation = "preflight" <=> endpoint = "preflight")
    /\ OnExactPath => endpoint = "estimate"
    /\ OnPreflightPath => endpoint = "preflight"
    /\ exit \in 0 .. 2 /\ pc # "rejected"
    /\ pc # "exited" => exit = 0

\* The outcomes are those of the first attacks, in order
ProgressInv ==
    /\ pc \in Fresh => results = <<>> /\ raw = <<>> /\ stdout = <<>>
    /\ pc = "screening" => raw = <<>>
    /\ pc \in {"normalizing", "screening"} => Len(results) < Len(request.attacks)
    /\ pc = "writing" \/ (pc = "exited" /\ exit = 0) =>
          Len(results) = Len(request.attacks)
    /\ \A i \in DOMAIN results : results[i].attack = request.attacks[i]

LEMMA TranslateType ==
    ASSUME NEW d \in Distribution, NEW n \in Int
    PROVE  Translate(d, n) \in UpstreamObject
<1>1. d.a \in Int /\ d.b \in Int /\ TypicalSignWeight(n) \in Int
  BY DEF Distribution, TypicalSignWeight
<1>2. \A f \in Families, x, y \in Int :
         [family |-> f, x |-> x, y |-> y, n |-> n] \in UpstreamObject
  BY DEF UpstreamObject
<1> QED
  BY <1>1, <1>2 DEF Translate, Families

LEMMA ParametersType ==
    ASSUME NEW p \in ProblemType
    PROVE  Parameters(p) \in Seq(UpstreamObject)
<1>1. p.secret \in Distribution /\ p.error \in Distribution /\ p.dimension \in Int
  BY DEF ProblemType
<1>2. /\ Translate(p.secret, p.dimension) \in UpstreamObject
      /\ Translate(p.error, NoLength) \in UpstreamObject
  BY <1>1, TranslateType DEF NoLength
<1> QED
  BY <1>2 DEF Parameters

\* The estimator knows the attacks of a problem by their upstream names
LEMMA UpstreamComplete ==
    ASSUME NEW kind PROVE UpstreamAttacks(kind) = UpstreamNames(AttacksFor(kind))
<1> DEFINE name(a) == IF a = "arora_gb" THEN "arora-gb" ELSE a
<1>1. \A a \in Attacks : PublicToUpstream[a] = name(a)
  BY DEF PublicToUpstream
<1>2. AttacksFor(kind) \subseteq Attacks
  BY DEF AttacksFor, Attacks
<1>3. UpstreamNames(AttacksFor(kind)) = {name(a) : a \in AttacksFor(kind)}
  BY <1>1, <1>2 DEF UpstreamNames
<1>4. CASE kind = "lwe"
  BY <1>3, <1>4 DEF UpstreamAttacks, AttacksFor, LweAttacks
<1>5. CASE kind = "ntru"
  BY <1>3, <1>5 DEF UpstreamAttacks, AttacksFor, NtruAttacks
<1>6. CASE kind \notin {"lwe", "ntru"}
  BY <1>3, <1>6 DEF UpstreamAttacks, AttacksFor, SisAttacks
<1> QED
  BY <1>4, <1>5, <1>6

LEMMA UpstreamType ==
    ASSUME NEW kind PROVE UpstreamAttacks(kind) \subseteq UpstreamNames(Attacks)
  BY UpstreamComplete DEF UpstreamNames, AttacksFor, Attacks

LEMMA AppendOutcome ==
    ASSUME TypeOK, NEW o \in Outcomes
    PROVE  /\ Append(results, o) \in Seq(Outcomes)
           /\ Len(Append(results, o)) = Len(results) + 1
           /\ DOMAIN Append(results, o) = DOMAIN results \cup {Len(results) + 1}
           /\ Append(results, o)[Len(results) + 1] = o
           /\ \A i \in DOMAIN results : Append(results, o)[i] = results[i]
  BY DEF TypeOK

\* Where there is a turn it is an attack of the request
LEMMA TurnIsAttack ==
    ASSUME TypeOK, ProgressInv, pc \in {"normalizing", "screening"}
    PROVE  Turn \in Asked(request) /\ Turn \in Attacks
<1>1. Len(results) \in Nat /\ request.attacks \in Seq(Attacks)
  BY DEF TypeOK, BodyType
<1>2. Len(results) + 1 \in DOMAIN request.attacks
  BY <1>1 DEF ProgressInv
<1> QED
  BY <1>1, <1>2 DEF Turn, Asked

LEMMA FailedType ==
    ASSUME TypeOK
    PROVE  /\ AllFailed \in Seq(Outcomes)
           /\ Len(AllFailed) = Len(request.attacks)
           /\ \A i \in DOMAIN AllFailed : AllFailed[i].attack = request.attacks[i]
<1>1. request.attacks \in Seq(Attacks)
  BY DEF TypeOK, BodyType
<1>2. \A i \in DOMAIN request.attacks : Outcome(request.attacks[i], "failed") \in Outcomes
  BY <1>1 DEF Outcome, Outcomes
<1>3. DOMAIN request.attacks = 1 .. Len(request.attacks) /\ Len(request.attacks) \in Nat
  BY <1>1
<1> QED
  BY <1>2, <1>3 DEF AllFailed, Outcome

LEMMA DumpType ==
    TypeOK => Dump(request) \in BodyType /\ Dump(request).attacks = request.attacks
  BY DEF TypeOK, Dump, BodyType

\* What the numbers of a preflight are
LEMMA PreflightNumbers ==
    ASSUME TypeOK, PathInv, pc = "screening"
    PROVE  /\ request.security \in Int
           /\ \A tier \in Tiers : Threshold(tier) \in Int
           /\ AlarmThreshold = Threshold("refined")
<1>1. request.security \in Int /\ request.coarse \in Int /\ request.refined \in Int
  BY DEF TypeOK, BodyType, Number, PathInv, OnPreflightPath, Valid, PreflightValid
<1> QED
  BY <1>1 DEF Threshold, AlarmThreshold, Larger, Floor, Tiers

\* One more outcome of a screen
LEMMA ScreenOutcome ==
    ASSUME TypeOK, PathInv, ScreenArora
    PROVE  \E o \in Outcomes :
              /\ results' = Append(results, o)
              /\ o.attack = "arora_gb" /\ o.kind = "threshold_screen"
              /\ o.threshold = Threshold(o.tier) /\ o.threshold <= FloatMax
<1> DEFINE good(o) == /\ o \in Outcomes
                      /\ o.attack = "arora_gb" /\ o.kind = "threshold_screen"
                      /\ o.threshold = Threshold(o.tier)
<1>1. pc = "screening"
  BY DEF ScreenArora
<1>2. \A decision \in {"above_threshold", "needs_exact"}, tier \in Tiers :
         good(ThresholdScreen(decision, tier, Threshold(tier)))
  BY <1>1, PreflightNumbers DEF ThresholdScreen, Outcomes
<1>3. AlarmThreshold = Threshold("refined")
  BY <1>1, PreflightNumbers
<1>4. PICK decision \in {"above_threshold", "needs_exact"}, tier \in Tiers :
         Screened(ThresholdScreen(decision, tier, Threshold(tier)))
  BY <1>3 DEF ScreenArora, Tiers
<1>5. good(ThresholdScreen(decision, tier, Threshold(tier)))
  BY <1>2
<1> QED
  BY <1>4, <1>5 DEF Screened

LEMMA BkwOutcome ==
    ASSUME EstimateBkw
    PROVE  \E o \in Outcomes : /\ results' = Append(results, o)
                               /\ o.attack = "bkw" /\ o.kind # "threshold_screen"
<1>1. PICK kind \in {"computed", "preflight_unknown"} :
         results' = Append(results, Outcome("bkw", kind))
  BY DEF EstimateBkw
<1>2. Outcome("bkw", kind) \in Outcomes
  BY <1>1 DEF Outcome, Outcomes, Attacks, LweAttacks
<1> QED
  BY <1>1, <1>2 DEF Outcome

LEMMA NormalOutcome ==
    ASSUME TypeOK, ProgressInv, Normalize, RawOf(Turn) # "odd"
    PROVE  \E o \in Outcomes : /\ results' = Append(results, o)
                               /\ o = Outcome(Turn, KindOf(RawOf(Turn)))
                               /\ o.kind # "threshold_screen"
<1>1. Turn \in Attacks
  BY TurnIsAttack DEF Normalize
<1>2. KindOf(RawOf(Turn)) \in {"computed", "no_finite_estimate", "failed"}
  BY DEF KindOf
<1>3. Outcome(Turn, KindOf(RawOf(Turn))) \in Outcomes
  BY <1>1, <1>2 DEF Outcome, Outcomes
<1> QED
  BY <1>2, <1>3 DEF Normalize, Outcome

LEMMA OutputTypes == {<<>>, <<"noise">>} \subseteq Seq({"noise", "document"})
<1>1. <<"noise">> \in Seq({"noise", "document"})
  OBVIOUS
<1> QED
  BY <1>1

LEMMA InitTypeOK == Init => TypeOK
  BY BodyAssumption DEF Init, TypeOK, Places, Noises

LEMMA NextTypeOK == TypeOK /\ PathInv /\ ProgressInv /\ [Next]_vars => TypeOK'
<1> SUFFICES ASSUME TypeOK, PathInv, ProgressInv, [Next]_vars PROVE TypeOK'
  OBVIOUS
<1> USE DEF Places
<1>1. CASE Refuse \/ Dispatch \/ PreflightRaises
  BY <1>1 DEF TypeOK, Refuse, Dispatch, PreflightRaises, Exit, Crash, Reject, upstream
<1>2. CASE Accept
  BY <1>2, DumpType DEF TypeOK, Accept, upstream
<1>3. CASE Execute
  <2>1. request.problem \in ProblemType
    BY DEF TypeOK, BodyType
  <2>2. /\ params' \in Seq(UpstreamObject)
        /\ called' \subseteq UpstreamNames(Attacks)
        /\ noise' \in Noises
        /\ UNCHANGED <<endpoint, request>>
    <3>1. Parameters(request.problem) \in Seq(UpstreamObject)
      BY <2>1, ParametersType
    <3>2. UpstreamAttacks(request.problem.kind) \subseteq UpstreamNames(Attacks)
      BY UpstreamType
    <3> QED
      BY <1>3, <3>1, <3>2 DEF Execute, Estimate
  <2>6. stdout' \in Seq({"noise", "document"})
    BY <1>3, OutputTypes DEF Execute, Estimate
  <2>3. raw = <<>>
    BY <1>3 DEF Execute, Estimate, ProgressInv, Fresh
  <2>4. CASE Returns
    BY <2>2, <2>4, <2>6 DEF Returns, TypeOK
  <2>5. CASE Raises
    BY <2>2, <2>3, <2>5, <2>6, FailedType DEF Raises, TypeOK
  <2> QED
    BY <1>3, <2>4, <2>5 DEF Execute
<1>4. CASE Normalize
  <2>1. results' \in Seq(Outcomes)
    BY <1>4, NormalOutcome, AppendOutcome DEF Normalize, TypeOK
  <2> QED
    BY <1>4, <2>1 DEF TypeOK, Normalize, Continue, Exit, Crash, upstream
<1>5. CASE Prepare
  <2>1. request.problem \in ProblemType
    BY DEF TypeOK, BodyType
  <2>2. stdout' \in Seq({"noise", "document"})
    BY <1>5, OutputTypes DEF Prepare
  <2>3. Parameters(request.problem) \in Seq(UpstreamObject)
    BY <2>1, ParametersType
  <2> QED
    BY <1>5, <2>2, <2>3 DEF TypeOK, Prepare
<1>6. CASE ScreenArora
  <2>1. results' \in Seq(Outcomes)
    BY <1>6, ScreenOutcome, AppendOutcome
  <2> QED
    BY <1>6, <2>1 DEF TypeOK, ScreenArora, Continue, upstream
<1>7. CASE EstimateBkw
  <2>1. results' \in Seq(Outcomes)
    BY <1>7, BkwOutcome, AppendOutcome
  <2> QED
    BY <1>7, <2>1 DEF TypeOK, EstimateBkw, Continue, upstream
<1>8. CASE WriteResponse
  BY <1>8 DEF TypeOK, WriteResponse, Exit, upstream
<1>9. CASE UNCHANGED vars
  BY <1>9 DEF TypeOK, vars, upstream
<1> QED
  BY <1>1, <1>2, <1>3, <1>4, <1>5, <1>6, <1>7, <1>8, <1>9 DEF Next
----------------------------------------------------------------------------
(* The path, and the progress of the answer *)

LEMMA AcceptIsValid == TypeOK /\ Accept => Valid'
<1> SUFFICES ASSUME TypeOK, Accept PROVE Valid'
  OBVIOUS
<1>1. request' = Dump(request) /\ endpoint' = endpoint /\ Valid
  BY DEF Accept
<1>2. CASE endpoint = "preflight"
  <2>1. request' = [request EXCEPT !.operation = "preflight"]
    BY <1>1, <1>2 DEF Dump
  <2>2. /\ request'.problem = request.problem /\ request'.attacks = request.attacks
        /\ request'.security = request.security /\ request'.coarse = request.coarse
        /\ request'.refined = request.refined /\ request'.operation = "preflight"
    BY <2>1 DEF TypeOK, BodyType
  <2> QED
    BY <1>1, <1>2, <2>2 DEF Valid, PreflightValid, AttacksValid, Asked
<1>3. CASE endpoint # "preflight"
  BY <1>1, <1>3 DEF Valid, Dump
<1> QED
  BY <1>2, <1>3

LEMMA NextPathInv == TypeOK /\ PathInv /\ [Next]_vars => PathInv'
<1> SUFFICES ASSUME TypeOK, PathInv, [Next]_vars PROVE PathInv'
  OBVIOUS
<1> USE DEF OnExactPath, OnPreflightPath
<1>1. CASE Refuse
  BY <1>1 DEF Refuse, PathInv
<1>2. CASE Accept
  <2>1. request'.operation = "preflight" <=> endpoint' = "preflight"
    BY <1>2, NumberAssumption DEF Accept, Valid, Dump, EstimateValid, TypeOK, BodyType
  <2> QED
    BY <1>2, <2>1, AcceptIsValid DEF Accept, PathInv
<1>3. CASE Dispatch
  <2>1. IF endpoint = "preflight" THEN PreflightValid(request) ELSE EstimateValid(request)
    BY <1>3 DEF Dispatch, PathInv, Valid
  <2> QED
    BY <1>3, <2>1 DEF Dispatch, PathInv, Reject, Valid, TypeOK
<1>4. CASE \/ Execute \/ Normalize \/ Prepare \/ ScreenArora \/ EstimateBkw
           \/ PreflightRaises \/ WriteResponse
  <2>1. UNCHANGED <<endpoint, request>>
    BY <1>4 DEF Execute, Estimate, Normalize, Prepare, ScreenArora, EstimateBkw,
                PreflightRaises, WriteResponse
  <2>2. pc \notin {"posted", "refused"}
    BY <1>4 DEF Execute, Estimate, Normalize, Prepare, ScreenArora, EstimateBkw,
                PreflightRaises, WriteResponse
  <2>3. /\ exit' \in 0 .. 2 /\ (pc' # "exited" => exit' = exit) /\ pc # "exited"
        /\ pc' # "rejected"
        /\ pc' \in {"exact", "normalizing"} => pc \in {"exact", "normalizing"}
        /\ pc' \in {"preparing", "screening"} => pc \in {"preparing", "screening"}
    BY <1>4 DEF PathInv, Execute, Estimate, Returns, Raises, Normalize, Prepare,
                ScreenArora, EstimateBkw, PreflightRaises, WriteResponse, Exit, Crash,
                Continue
  <2> QED
    BY <2>1, <2>2, <2>3 DEF PathInv, Valid
<1>5. CASE UNCHANGED vars
  BY <1>5 DEF vars, PathInv, Valid
<1> QED
  BY <1>1, <1>2, <1>3, <1>4, <1>5 DEF Next

\* A step that appends the outcome of the attack whose turn it is
LEMMA ProgressStep ==
    ASSUME TypeOK, ProgressInv, UNCHANGED request, UNCHANGED raw,
           pc \in {"normalizing", "screening"}, pc' = Continue(pc),
           NEW o \in Outcomes, o.attack = Turn, results' = Append(results, o)
    PROVE  ProgressInv'
<1>1. Len(results) \in Nat /\ Len(request.attacks) \in Nat
  BY DEF TypeOK, BodyType
<1>2. /\ Len(results') = Len(results) + 1
      /\ DOMAIN results' = DOMAIN results \cup {Len(results) + 1}
      /\ results'[Len(results) + 1] = o
      /\ \A i \in DOMAIN results : results'[i] = results[i]
  BY AppendOutcome
<1>3. \A i \in DOMAIN results' : results'[i].attack = request'.attacks[i]
  BY <1>2 DEF ProgressInv, Turn
<1>4. Len(results) < Len(request.attacks)
  BY DEF ProgressInv
<1> QED
  BY <1>1, <1>2, <1>3, <1>4 DEF ProgressInv, Continue, Fresh

LEMMA NextProgressInv ==
    TypeOK /\ PathInv /\ ProgressInv /\ [Next]_vars => ProgressInv'
<1> SUFFICES ASSUME TypeOK, PathInv, ProgressInv, [Next]_vars PROVE ProgressInv'
  OBVIOUS
<1>0. /\ Len(request.attacks) \in Nat /\ Len(<<>>) = 0 /\ DOMAIN <<>> = {}
      /\ request.attacks # <<>> => Len(request.attacks) > 0
  BY DEF TypeOK, BodyType
<1>1. CASE Refuse \/ Accept
  BY <1>1, DumpType DEF Refuse, Accept, upstream, ProgressInv, Fresh
<1>2. CASE Dispatch
  BY <1>2 DEF Dispatch, Reject, upstream, ProgressInv, Fresh, PathInv, Valid
<1>3. CASE Execute
  <2>1. request.attacks # <<>> /\ UNCHANGED request /\ pc = "exact"
    BY <1>3 DEF Execute, Estimate, PathInv, Valid, EstimateValid, PreflightValid, AttacksValid
  <2>2. CASE Returns
    BY <1>0, <2>1, <2>2 DEF Returns, ProgressInv, Fresh
  <2>3. CASE Raises
    BY <2>1, <2>3, FailedType DEF Raises, ProgressInv, Fresh
  <2> QED
    BY <1>3, <2>2, <2>3 DEF Execute
<1>4. CASE Normalize
  <2>1. CASE RawOf(Turn) = "odd"
    BY <1>4, <2>1 DEF Normalize, Exit, Crash, upstream, ProgressInv, Fresh
  <2>2. CASE RawOf(Turn) # "odd"
    <3>1. PICK o \in Outcomes : results' = Append(results, o) /\ o.attack = Turn
      BY <1>4, <2>2, NormalOutcome DEF Outcome
    <3> QED
      BY <1>4, <2>2, <3>1, ProgressStep DEF Normalize, upstream
  <2> QED
    BY <2>1, <2>2
<1>5. CASE Prepare
  <2>1. request.attacks # <<>>
    BY <1>5 DEF Prepare, PathInv, Valid, EstimateValid, PreflightValid, AttacksValid
  <2> QED
    BY <1>0, <1>5, <2>1 DEF Prepare, ProgressInv, Fresh
<1>6. CASE ScreenArora
  BY <1>6, ScreenOutcome, ProgressStep DEF ScreenArora, upstream
<1>7. CASE EstimateBkw
  BY <1>7, BkwOutcome, ProgressStep DEF EstimateBkw, upstream
<1>8. CASE PreflightRaises \/ WriteResponse
  BY <1>8 DEF PreflightRaises, WriteResponse, Exit, Crash, upstream, ProgressInv, Fresh
<1>9. CASE UNCHANGED vars
  BY <1>9 DEF vars, upstream, ProgressInv, Fresh
<1> QED
  BY <1>1, <1>2, <1>3, <1>4, <1>5, <1>6, <1>7, <1>8, <1>9 DEF Next

BaseInv == TypeOK /\ PathInv /\ ProgressInv

LEMMA BaseInvariant == Spec => []BaseInv
<1>1. Init => BaseInv
  BY InitTypeOK DEF Init, BaseInv, PathInv, ProgressInv, OnExactPath, OnPreflightPath,
     TypeOK, BodyType
<1>2. BaseInv /\ [Next]_vars => BaseInv'
  BY NextTypeOK, NextPathInv, NextProgressInv DEF BaseInv
<1> QED
  BY <1>1, <1>2, PTL DEF Spec

\* The request, the calls and the answer keep their types, whatever is posted.
THEOREM ChildTypeOK == Spec => []TypeOK
  BY BaseInvariant, PTL DEF BaseInv

\* The child takes the path of the endpoint and accepts what the parent accepted.
THEOREM ChildTakesRightPath == Spec => []RightPath
<1>1. BaseInv => RightPath
  BY DEF BaseInv, PathInv, RightPath
<1> QED
  BY <1>1, BaseInvariant, PTL
----------------------------------------------------------------------------
(* The answer and its document *)

\* Printed where nothing captures it
Spoiled == noise = "native" \/ (noise = "python" /\ endpoint = "preflight")

OutputInv ==
    /\ pc # "exited" => stdout = <<>> \/ (stdout = <<"noise">> /\ Spoiled)
    /\ pc = "exited" /\ exit = 0 => stdout = <<"document">> \/ Spoiled

LEMMA NextOutputInv == BaseInv /\ OutputInv /\ [Next]_vars => OutputInv'
<1> SUFFICES ASSUME BaseInv, OutputInv, [Next]_vars PROVE OutputInv'
  OBVIOUS
<1> USE DEF OutputInv, Spoiled
<1>1. CASE Refuse \/ Accept
  BY <1>1 DEF Refuse, Accept, upstream
<1>2. CASE Dispatch \/ PreflightRaises
  <2>1. UNCHANGED <<stdout, noise, endpoint>> /\ pc # "exited"
    BY <1>2 DEF Dispatch, PreflightRaises, upstream
  <2>2. pc' = "exited" => exit' # 0
    BY <1>2 DEF Dispatch, PreflightRaises, Exit, Crash, Reject
  <2> QED
    BY <2>1, <2>2
<1>3. CASE Execute
  <2>1. pc' # "exited" /\ stdout' = IF noise' = "native" THEN <<"noise">> ELSE <<>>
    BY <1>3 DEF Execute, Estimate, Returns, Raises
  <2> QED
    BY <2>1
<1>4. CASE Prepare
  <2>1. /\ pc' # "exited" /\ noise' \in Noises /\ endpoint' = endpoint
        /\ stdout' = IF noise' = "none" THEN <<>> ELSE <<"noise">>
    BY <1>4 DEF Prepare
  <2>2. endpoint = "preflight"
    BY <1>4 DEF Prepare, BaseInv, PathInv, OnPreflightPath
  <2> QED
    BY <2>1, <2>2 DEF Noises
<1>5. CASE Normalize \/ ScreenArora \/ EstimateBkw
  <2>1. UNCHANGED <<stdout, noise, endpoint>> /\ pc # "exited"
    BY <1>5 DEF Normalize, ScreenArora, EstimateBkw, upstream
  <2>2. pc' = "exited" => exit' # 0
    BY <1>5 DEF Normalize, ScreenArora, EstimateBkw, Continue, Exit, Crash
  <2> QED
    BY <2>1, <2>2
<1>6. CASE WriteResponse
  <2>1. UNCHANGED <<noise, endpoint>> /\ stdout' = Append(stdout, "document")
    BY <1>6 DEF WriteResponse, upstream
  <2>2. CASE stdout = <<>>
    BY <1>6, <2>1, <2>2 DEF WriteResponse, Exit
  <2>3. CASE Spoiled
    BY <1>6, <2>1, <2>3 DEF WriteResponse, Exit
  <2> QED
    BY <1>6, <2>2, <2>3 DEF WriteResponse
<1>7. CASE UNCHANGED vars
  BY <1>7 DEF vars, upstream
<1> QED
  BY <1>1, <1>2, <1>3, <1>4, <1>5, <1>6, <1>7 DEF Next

\* A response is spoiled only by what is printed around the capture.
THEOREM AnswersAreAccepted == Spec => []AnswersAccepted
<1>1. Init => OutputInv
  BY DEF Init, OutputInv
<1>2. BaseInv /\ OutputInv => AnswersAccepted
  <2> SUFFICES ASSUME BaseInv, OutputInv, pc = "exited", exit = 0, ~Spoiled
               PROVE  Verdict = "valid"
    BY DEF AnswersAccepted, Spoiled
  <2>1. stdout = <<"document">>
    BY DEF OutputInv
  <2>2. /\ Len(results) = Len(request.attacks)
        /\ \A i \in DOMAIN results : results[i].attack = request.attacks[i]
        /\ results \in Seq(Outcomes) /\ request.attacks \in Seq(Attacks)
    BY DEF BaseInv, ProgressInv, TypeOK, BodyType
  <2>3. [i \in DOMAIN results |-> results[i].attack] = request.attacks
    BY <2>2
  <2> QED
    BY <2>1, <2>3 DEF Verdict
<1> QED
  BY <1>1, <1>2, NextOutputInv, BaseInvariant, PTL DEF Spec

----------------------------------------------------------------------------
(* The estimator and its results *)

ResultInv ==
    /\ raw # <<>> => pc \in {"normalizing", "writing", "exited"}
    /\ pc = "normalizing" =>
          raw \in [called -> RawResults] /\ called = UpstreamNames(Asked(request))
    /\ OutcomesFaithful
    /\ ExactSurvivesEstimator

LEMMA AskedNonempty ==
    ASSUME NEW r, r.attacks # <<>>, r.attacks \in Seq(Attacks) PROVE Asked(r) # {}
<1>1. 1 \in DOMAIN r.attacks
  OBVIOUS
<1> QED
  BY <1>1 DEF Asked

\* The deny list leaves what was asked for
LEMMA DeniesTheRest ==
    ASSUME NEW r \in BodyType, AttacksValid(r)
    PROVE  UpstreamAttacks(r.problem.kind) \ DenyList(r) = UpstreamNames(Asked(r))
<1> DEFINE all == AttacksFor(r.problem.kind)
<1>1. UpstreamAttacks(r.problem.kind) = UpstreamNames(all)
  BY UpstreamComplete
<1>2. Asked(r) \subseteq all
  BY DEF AttacksValid
<1>3. UpstreamNames(Asked(r)) \subseteq UpstreamNames(all)
  BY <1>2 DEF UpstreamNames
<1>4. CASE r.problem.kind = "sis"
  <2>1. all = {"lattice"} /\ DenyList(r) = {}
    BY <1>4 DEF AttacksFor, SisAttacks, DenyList
  <2> QED
    <3>1. Asked(r) # {}
      BY AskedNonempty DEF AttacksValid, BodyType
    <3> QED
      BY <1>1, <1>2, <2>1, <3>1 DEF UpstreamNames
<1>5. CASE r.problem.kind # "sis"
  BY <1>1, <1>3, <1>5 DEF DenyList
<1> QED
  BY <1>4, <1>5

LEMMA NextResultInv == BaseInv /\ ResultInv /\ [Next]_vars => ResultInv'
<1> SUFFICES ASSUME BaseInv, ResultInv, [Next]_vars PROVE ResultInv'
  OBVIOUS
<1>0. TypeOK /\ PathInv /\ ProgressInv
  BY DEF BaseInv
<1> USE DEF ResultInv, OutcomesFaithful, ExactSurvivesEstimator
<1>1. CASE Refuse \/ Accept \/ Prepare
  BY <1>0, <1>1 DEF Refuse, Accept, Prepare, upstream, ProgressInv, Fresh
<1>2. CASE Dispatch
  <2>1. pc' # "rejected" /\ UNCHANGED exit
    BY <1>0, <1>2, NextPathInv DEF Dispatch, Reject, PathInv
  <2> QED
    BY <1>0, <1>2, <2>1 DEF Dispatch, Reject, upstream, ProgressInv, Fresh
<1>3. CASE Execute
  <2>1. /\ results = <<>> /\ raw = <<>> /\ UNCHANGED request /\ exit = 0
        /\ called' = UpstreamNames(Asked(request))
    <3>1. AttacksValid(request)
      BY <1>0, <1>3 DEF Execute, Estimate, PathInv, Valid, EstimateValid, PreflightValid
    <3> QED
      BY <1>0, <1>3, <3>1, DeniesTheRest
         DEF Execute, Estimate, PathInv, ProgressInv, Fresh, TypeOK
  <2>2. CASE Returns
    BY <2>1, <2>2 DEF Returns, Asked
  <2>3. CASE Raises
    BY <2>1, <2>3 DEF Raises
  <2> QED
    BY <1>3, <2>2, <2>3 DEF Execute
<1>4. CASE Normalize
  <2>1. /\ PublicToUpstream[Turn] \in called /\ DOMAIN raw = called
        /\ RawOf(Turn) = raw[PublicToUpstream[Turn]]
        /\ endpoint = "estimate" /\ exit = 0 /\ UNCHANGED <<endpoint, request, upstream>>
    BY <1>0, <1>4, TurnIsAttack DEF Normalize, UpstreamNames, RawOf, PathInv, OnExactPath
  <2>2. CASE RawOf(Turn) = "odd"
    BY <1>4, <2>1, <2>2 DEF Normalize, Exit, Crash, upstream
  <2>3. CASE RawOf(Turn) # "odd"
    <3>1. PICK o \in Outcomes : /\ results' = Append(results, o)
                                /\ o.kind = KindOf(raw[PublicToUpstream[Turn]])
      BY <1>0, <1>4, <2>1, <2>3, NormalOutcome DEF Outcome
    <3>2. \A i \in DOMAIN results' :
             results'[i].kind = KindOf(raw'[PublicToUpstream[request'.attacks[i]]])
      BY <1>0, <1>4, <2>1, <3>1, AppendOutcome DEF Turn, upstream, Normalize
    <3>3. exit' = exit /\ pc' \in {"normalizing", "writing"}
      BY <1>4, <2>3 DEF Normalize, Continue
    <3> QED
      BY <1>4, <2>1, <3>2, <3>3 DEF Normalize, upstream, Asked
  <2> QED
    BY <2>2, <2>3
<1>5. CASE ScreenArora \/ EstimateBkw \/ PreflightRaises
  <2>1. UNCHANGED <<raw, endpoint>> /\ endpoint = "preflight" /\ raw = <<>>
    BY <1>0, <1>5 DEF ScreenArora, EstimateBkw, PreflightRaises, upstream, ProgressInv,
                      Fresh, PathInv, OnPreflightPath
  <2>2. pc' # "normalizing"
    BY <1>5 DEF ScreenArora, EstimateBkw, PreflightRaises, Exit, Crash, Continue
  <2> QED
    BY <2>1, <2>2
<1>6. CASE WriteResponse
  BY <1>6 DEF WriteResponse, Exit, upstream
<1>7. CASE UNCHANGED vars
  BY <1>7 DEF vars, upstream, Asked
<1> QED
  BY <1>1, <1>2, <1>3, <1>4, <1>5, <1>6, <1>7 DEF Next

LEMMA ResultInvariant == Spec => []ResultInv
<1>1. Init => ResultInv
  BY DEF Init, ResultInv, OutcomesFaithful, ExactSurvivesEstimator
<1> QED
  BY <1>1, NextResultInv, BaseInvariant, PTL DEF Spec

\* An exception of the estimator never ends the child.
THEOREM ExactSurvives == Spec => []ExactSurvivesEstimator
  BY ResultInvariant, PTL DEF ResultInv

\* Every outcome is that of the attack's own result.
THEOREM OutcomesAreFaithful == Spec => []OutcomesFaithful
  BY ResultInvariant, PTL DEF ResultInv

\* The estimator runs the attacks asked for and no others.
THEOREM RequestedAttacksRun == Spec => []RunsRequested
<1>1. ResultInv => RunsRequested
  BY DEF ResultInv, RunsRequested
<1> QED
  BY <1>1, ResultInvariant, PTL

----------------------------------------------------------------------------
(* Parameters and thresholds *)

LEMMA FittingIsLegal ==
    ASSUME NEW secret, secret.kind \in DistributionKinds,
           secret.a \in Int, secret.b \in Int, NEW n \in Nat \ {0},
           WellFormed(secret), Fits(secret, n)
    PROVE  Legal(Translate(secret, n))
<1>1. CASE secret.kind \in {"uniform_binary", "uniform_ternary"}
  BY <1>1 DEF Translate, Legal
<1>2. CASE secret.kind = "sparse_ternary"
  BY <1>2, TypicalWeightFits DEF Translate, Legal
<1>3. CASE secret.kind \in {"fixed_weight_binary", "fixed_weight_ternary"}
  BY <1>3 DEF WellFormed, Fits, Translate, Legal
<1>4. CASE secret.kind \in {"discrete_gaussian", "centered_binomial"}
  BY <1>4 DEF WellFormed, Translate, Legal
<1>5. CASE secret.kind = "uniform_integer"
  BY <1>5 DEF WellFormed, Translate, Legal
<1> QED
  BY <1>1, <1>2, <1>3, <1>4, <1>5 DEF DistributionKinds

LEMMA TranslationIsLegal ==
    ASSUME NEW p \in ProblemType, ProblemValid(p), p.kind # "sis"
    PROVE  Legal(Translate(p.secret, p.dimension)) /\ Legal(Translate(p.error, NoLength))
<1>1. /\ p.secret.a \in Int /\ p.secret.b \in Int /\ p.error.a \in Int /\ p.error.b \in Int
      /\ p.dimension \in Nat \ {0} /\ p.secret.kind \in DistributionKinds
  BY DEF ProblemType, Distribution, ProblemValid
<1>2. Legal(Translate(p.secret, p.dimension))
  <2>1. WellFormed(p.secret) /\ Fits(p.secret, p.dimension)
    BY DEF ProblemValid
  <2> QED
    BY <1>1, <2>1, FittingIsLegal
<1>3. Legal(Translate(p.error, NoLength))
  BY <1>1 DEF ProblemValid, WellFormed, ErrorKinds, Translate, Legal
<1> QED
  BY <1>2, <1>3

LEMMA ParametersAreLegalOnce ==
    ASSUME BaseInv, pc \notin {"posted", "refused"}
    PROVE  \A i \in DOMAIN Parameters(request.problem) : Legal(Parameters(request.problem)[i])
<1>1. request.problem \in ProblemType /\ ProblemValid(request.problem)
  BY DEF BaseInv, TypeOK, BodyType, PathInv, Valid, EstimateValid, PreflightValid
<1> QED
  BY <1>1, TranslationIsLegal DEF Parameters

\* What passes validation translates into distributions the estimator is meant for.
THEOREM ParametersStayLegal == Spec => []ParametersLegal
<1>1. Init => ParametersLegal
  BY DEF Init, ParametersLegal
<1>2. BaseInv /\ ParametersLegal /\ [Next]_vars => ParametersLegal'
  <2> SUFFICES ASSUME BaseInv, ParametersLegal, [Next]_vars PROVE ParametersLegal'
    OBVIOUS
  <2>1. CASE Execute \/ Prepare
    <3>1. params' = Parameters(request.problem) /\ pc \notin {"posted", "refused"}
      BY <2>1 DEF Execute, Estimate, Prepare
    <3> QED
      BY <3>1, ParametersAreLegalOnce DEF ParametersLegal
  <2>2. CASE ~(Execute \/ Prepare)
    <3>1. params' = params
      BY <2>2 DEF Next, vars, upstream, Refuse, Accept, Dispatch, Normalize, ScreenArora,
                  EstimateBkw, PreflightRaises, WriteResponse
    <3> QED
      BY <3>1 DEF ParametersLegal
  <2> QED
    BY <2>1, <2>2
<1> QED
  BY <1>1, <1>2, BaseInvariant, PTL DEF Spec

\* A reported threshold is finite and the one of the reported tier.
THEOREM ThresholdsAreHonest == Spec => []ThresholdsHonest
<1>1. Init => ThresholdsHonest
  BY DEF Init, ThresholdsHonest
<1>2. BaseInv /\ ThresholdsHonest /\ [Next]_vars => ThresholdsHonest'
  <2> SUFFICES ASSUME BaseInv, ThresholdsHonest, [Next]_vars PROVE ThresholdsHonest'
    OBVIOUS
  <2>0. TypeOK /\ PathInv /\ ProgressInv
    BY DEF BaseInv
  <2> USE DEF ThresholdsHonest, Threshold
  <2>1. CASE Accept
    BY <2>0, <2>1 DEF Accept, ProgressInv, Fresh
  <2>2. CASE Execute
    <3>1. CASE Returns
      BY <2>2, <3>1 DEF Execute, Estimate, Returns
    <3>2. CASE Raises
      BY <3>2 DEF Raises, AllFailed, Outcome
    <3> QED
      BY <2>2, <3>1, <3>2 DEF Execute
  <2>3. CASE Normalize
    <3>1. CASE RawOf(Turn) = "odd"
      BY <2>3, <3>1 DEF Normalize
    <3>2. CASE RawOf(Turn) # "odd"
      <4>1. PICK o \in Outcomes : results' = Append(results, o) /\ o.kind # "threshold_screen"
        BY <2>0, <2>3, <3>2, NormalOutcome
      <4> QED
        BY <2>0, <2>3, <4>1, AppendOutcome DEF Normalize
    <3> QED
      BY <3>1, <3>2
  <2>4. CASE ScreenArora
    <3>1. PICK o \in Outcomes : /\ results' = Append(results, o)
                                /\ o.threshold = Threshold(o.tier)
                                /\ o.threshold <= FloatMax
      BY <2>0, <2>4, ScreenOutcome
    <3> QED
      BY <2>0, <2>4, <3>1, AppendOutcome DEF ScreenArora
  <2>5. CASE EstimateBkw
    <3>1. PICK o \in Outcomes : results' = Append(results, o) /\ o.kind # "threshold_screen"
      BY <2>5, BkwOutcome
    <3> QED
      BY <2>0, <2>5, <3>1, AppendOutcome DEF EstimateBkw
  <2>6. CASE \/ Refuse \/ Dispatch \/ Prepare \/ PreflightRaises \/ WriteResponse
             \/ UNCHANGED vars
    BY <2>6 DEF Refuse, Dispatch, Prepare, PreflightRaises, WriteResponse, vars
  <2> QED
    BY <2>1, <2>2, <2>3, <2>4, <2>5, <2>6 DEF Next
<1> QED
  BY <1>1, <1>2, BaseInvariant, PTL DEF Spec

============================================================================
