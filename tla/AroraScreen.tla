----------------------------- MODULE AroraScreen -----------------------------
(***************************************************************************)
(* The target-aware Arora-GB screen: arora_gb_threshold_screen and the     *)
(* search under it (src/slow_estimate.py), run by execute_preflight under  *)
(* the SIGALRM of _arora_alarm (src/adapter.py).                           *)
(*                                                                         *)
(* A candidate stands for one (zeta, tail) pair of the grid.  Its system   *)
(* of equations, its guessing cost and the cost of a degree are data of    *)
(* the problem; the Hilbert series that gives the solving degree is in     *)
(* HilbertSeries; the control that walks the grid, bisects the    *)
(* degree limit, memoises the Hilbert series, watches two deadlines and    *)
(* races the alarm is what is modelled.  The order in which a grid is      *)
(* walked is left open.                                                    *)
(***************************************************************************)
EXTENDS HilbertSeries, FiniteSets

CONSTANTS Candidates,     \* the (zeta, tail) pairs a tier may look at
          MaxDegree,      \* ARORA_MAX_SOLVING_DEGREE
          Problems,       \* the instances, see ProblemAssumption
          CoarseBudget,   \* ARORA_COARSE_BUDGET_SECONDS, in clock ticks
          TotalBudget,    \* ARORA_TOTAL_BUDGET_SECONDS
          Horizon         \* the clock stops here; bounds the checking only

Tiers   == {"coarse", "refined"}
Degrees == 0 .. MaxDegree

\* supported  the error distribution is one the screen has a model for
\* grid       the candidates of a tier
\* threshold  required security plus the effective margin of a tier
\* usable     enough samples for the tail of the candidate
\* countable  _screen_repetition has an estimate for it
\* repetition log2 of the guessing repetitions
\* system     the variables and equations left once the guess is right
\* cost       omega * log2 of the monomials up to a degree
ProblemType ==
    [supported  : BOOLEAN,
     grid       : [Tiers -> SUBSET Candidates],
     threshold  : [Tiers -> Nat],
     usable     : SUBSET Candidates,
     countable  : SUBSET Candidates,
     repetition : [Candidates -> Nat],
     system     : [Candidates -> [vars : Nat \ {0}, equations : Seq(Nat \X Nat)]],
     cost       : [Candidates -> [Degrees -> Nat]]]

\* log2_monomials is 0 at degree 0 and never decreases with the degree; zeta = 0
\* is in every grid
ASSUME ProblemAssumption ==
    /\ Problems \subseteq ProblemType
    /\ \A p \in Problems, t \in Tiers : p.grid[t] # {}
    /\ \A p \in Problems, c \in Candidates :
          /\ p.cost[c][0] = 0
          /\ \A d, e \in Degrees : d <= e => p.cost[c][d] <= p.cost[c][e]

ASSUME BudgetAssumption ==
    /\ MaxDegree \in Nat /\ Unsolved \notin Int
    /\ CoarseBudget \in Nat /\ TotalBudget \in Nat /\ Horizon \in Nat
    /\ CoarseBudget <= TotalBudget /\ TotalBudget <= Horizon

VARIABLES problem,    \* the instance under screening, never changed
          pc,         \* where the worker is, see Steps
          tier,       \* the tier of the loop of arora_gb_threshold_screen
          todo,       \* the candidates of the tier not looked at yet
          cand,       \* the candidate in hand
          low, high,  \* the bisection of _threshold_degree_limit
          hilbert,    \* work.hilbert: (candidate, limit) to solving degree
          deadline,   \* work.deadline
          screen,     \* the screen's decision, "none" before and on alarm
          clock,      \* time.monotonic() - started
          alarm,      \* ITIMER_REAL and its signal
          handler     \* the SIGALRM handler in force

search == <<tier, todo, cand, low, high, hilbert, deadline>>
timing == <<clock, alarm, handler>>
vars   == <<problem, pc, search, screen, timing>>

\* entered    before _arora_alarm      starting  about to search a tier
\* walking    in the loops of the tier examining the second deadline check
\* bisecting  in _threshold_degree_limit
\* solving    in _semi_regular_dreg    solved    past its last check
\* found / cleared  the tier returned True / False
\* leaving    before the finally of _arora_alarm
\* disarmed   between its two statements         done  outcome appended
\* killed     SIGALRM met the default handler
Steps == {"entered", "starting", "walking", "examining", "bisecting",
          "solving", "solved", "found", "cleared", "leaving", "disarmed",
          "done", "killed"}

Keys == Candidates \X Degrees

TypeOK ==
    /\ problem \in ProblemType
    /\ pc \in Steps
    /\ tier \in Tiers
    /\ todo \subseteq Candidates
    /\ cand \in Candidates
    /\ low \in Degrees /\ high \in Degrees
    /\ DOMAIN hilbert \subseteq Keys
    /\ \A k \in DOMAIN hilbert : hilbert[k] \in Degrees \cup {Unsolved}
    /\ deadline \in {CoarseBudget, TotalBudget}
    /\ screen \in {"none", "above_threshold", "needs_exact"}
    /\ clock \in 0 .. Horizon
    /\ alarm \in {"unset", "armed", "expired", "delivered", "cancelled"}
    /\ handler \in {"previous", "deadline_exceeded"}

Threshold == problem.threshold[tier]

Init ==
    /\ problem \in Problems
    /\ pc = "entered"
    /\ tier = "coarse" /\ todo = {} /\ cand \in Candidates
    /\ low = 0 /\ high = MaxDegree
    /\ hilbert = [k \in {} |-> Unsolved]
    /\ deadline = CoarseBudget
    /\ screen = "none"
    /\ clock = 0 /\ alarm = "unset" /\ handler = "previous"

----------------------------------------------------------------------------
\* _arora_alarm up to its yield: the handler first, then the timer
EnterAlarm ==
    /\ pc = "entered"
    /\ pc' = "starting"
    /\ handler' = "deadline_exceeded"
    /\ alarm' = "armed"
    /\ UNCHANGED <<problem, search, screen, clock>>

\* The top of _arora_tier_has_candidate_below
StartTier ==
    /\ pc = "starting"
    /\ IF problem.supported
       THEN pc' = "walking" /\ todo' = problem.grid[tier]
       ELSE pc' = "found" /\ UNCHANGED todo
    /\ UNCHANGED <<problem, tier, cand, low, high, hilbert, deadline,
                   screen, timing>>

\* faulty: only the coarse tier watches its deadline
InTimeOnceRefined == tier = "refined" \/ clock < deadline

\* work.check_deadline() passes
InTime == clock < deadline

\* One turn of the loops over zeta and tail
TakeCandidate ==
    /\ pc = "walking" /\ InTime
    /\ \E c \in todo :
          /\ cand' = c
          /\ todo' = todo \ {c}
          /\ pc' = IF c \notin problem.countable THEN "found"
                   ELSE IF c \in problem.usable THEN "examining"
                   ELSE "walking"
    /\ UNCHANGED <<problem, tier, low, high, hilbert, deadline, screen, timing>>

GridDone ==
    /\ pc = "walking" /\ todo = {}
    /\ pc' = "cleared"
    /\ UNCHANGED <<problem, search, screen, timing>>

\* faulty: the bisection starts one degree too high
ExamineTooHigh ==
    /\ pc = "examining" /\ InTime
    /\ IF problem.repetition[cand] >= Threshold
       THEN pc' = "walking" /\ UNCHANGED <<low, high>>
       ELSE pc' = "bisecting" /\ low' = 0 /\ high' = MaxDegree + 1
    /\ UNCHANGED <<problem, tier, todo, cand, hilbert, deadline, screen, timing>>

\* _screen_hilbert_candidate: prune on the guessing cost, or start the
\* bisection of the degree limit
ExamineCandidate ==
    /\ pc = "examining" /\ InTime
    /\ IF problem.repetition[cand] >= Threshold
       THEN pc' = "walking" /\ UNCHANGED <<low, high>>
       ELSE pc' = "bisecting" /\ low' = 0 /\ high' = MaxDegree
    /\ UNCHANGED <<problem, tier, todo, cand, hilbert, deadline, screen, timing>>

Below(c, degree) ==
    problem.repetition[c] + problem.cost[c][degree] < Threshold

\* One turn of the loop of _threshold_degree_limit
Bisect ==
    /\ pc = "bisecting" /\ low < high
    /\ LET middle == (low + high + 1) \div 2
       IN  IF Below(cand, middle)
           THEN low' = middle /\ UNCHANGED high
           ELSE high' = middle - 1 /\ UNCHANGED low
    /\ UNCHANGED <<problem, pc, tier, todo, cand, hilbert, deadline,
                   screen, timing>>

Verdict(degree) ==
    IF degree # Unsolved /\ Below(cand, degree) THEN "found" ELSE "walking"

\* faulty: the cache key leaves out the degree limit
MemoisedAnyLimit(c, limit) == {k \in DOMAIN hilbert : k[1] = c}

\* The entries of work.hilbert for a degree limit
Memoised(c, limit) == {k \in DOMAIN hilbert : k = <<c, limit>>}

\* The limit is known: judge by the memoised degree, or solve
LookUp ==
    /\ pc = "bisecting" /\ low = high
    /\ \/ \E k \in Memoised(cand, low) : pc' = Verdict(hilbert[k])
       \/ Memoised(cand, low) = {} /\ pc' = "solving"
    /\ UNCHANGED <<problem, search, screen, timing>>

\* A deadline check of _semi_regular_dreg that passes and has no successor
LastCheck ==
    /\ pc = "solving" /\ InTime
    /\ pc' = "solved"
    /\ UNCHANGED <<problem, search, screen, timing>>

\* faulty: the degree limit of the key is not passed on
SolvingDegreeUnlimited(c, limit) == SemiRegularDreg(problem.system[c], MaxDegree)

\* _semi_regular_dreg(max_degree=limit)
SolvingDegree(c, limit) == SemiRegularDreg(problem.system[c], limit)

Solve ==
    /\ pc = "solved"
    /\ LET key == <<cand, low>>  degree == SolvingDegree(cand, low)
       IN  /\ hilbert' = [k \in DOMAIN hilbert \cup {key} |->
                             IF k = key THEN degree ELSE hilbert[k]]
           /\ pc' = Verdict(degree)
    /\ UNCHANGED <<problem, tier, todo, cand, low, high, deadline, screen,
                   timing>>

----------------------------------------------------------------------------
\* faulty: the refined tier gets a budget of its own
RenewBudget ==
    IF tier = "coarse"
    THEN /\ pc' = "starting" /\ tier' = "refined"
         /\ deadline' = clock + TotalBudget
         /\ UNCHANGED screen
    ELSE /\ pc' = "leaving" /\ screen' = "needs_exact"
         /\ UNCHANGED <<tier, deadline>>

\* A tier ends without clearing the target
TierFails ==
    IF tier = "coarse"
    THEN /\ pc' = "starting" /\ tier' = "refined"
         /\ deadline' = TotalBudget
         /\ UNCHANGED screen
    ELSE /\ pc' = "leaving" /\ screen' = "needs_exact"
         /\ UNCHANGED <<tier, deadline>>

TierRest == <<problem, todo, cand, low, high, hilbert>>

CandidateFound ==
    /\ pc = "found" /\ TierFails
    /\ UNCHANGED <<TierRest, timing>>

\* check_deadline() raises inside the try of the tier loop
DeadlinePasses ==
    /\ \/ pc = "walking" /\ todo # {}
       \/ pc \in {"examining", "solving"}
    /\ ~InTime
    /\ TierFails
    /\ UNCHANGED <<TierRest, timing>>

TierClears ==
    /\ pc = "cleared"
    /\ pc' = "leaving" /\ screen' = "above_threshold"
    /\ UNCHANGED <<problem, search, timing>>

----------------------------------------------------------------------------
\* The timer runs out; what the signal does depends on the handler
Expire ==
    /\ alarm = "armed" /\ clock >= TotalBudget
    /\ alarm' = "expired"
    /\ pc' = IF handler = "previous" THEN "killed" ELSE pc
    /\ UNCHANGED <<problem, search, screen, clock, handler>>

InTry == {"starting", "walking", "examining", "bisecting", "solving", "solved",
          "found", "cleared"}

\* deadline_exceeded raises AroraScreenDeadline where the tier loop catches it
AlarmInTier ==
    /\ alarm = "expired" /\ pc \in InTry
    /\ alarm' = "delivered"
    /\ TierFails
    /\ UNCHANGED <<TierRest, clock, handler>>

\* ... or between the tiers, where only execute_preflight catches it
AlarmInScreen ==
    /\ alarm = "expired" /\ pc \in {"starting", "found", "cleared", "leaving"}
    /\ alarm' = "delivered"
    /\ pc' = "leaving" /\ screen' = "none"
    /\ UNCHANGED <<problem, search, clock, handler>>

\* ... or in the finally of _arora_alarm, the rest of which is then skipped
AlarmInFinally ==
    /\ alarm = "expired" /\ pc \in {"leaving", "disarmed"}
    /\ alarm' = "delivered"
    /\ pc' = "done" /\ screen' = "none"
    /\ UNCHANGED <<problem, search, clock, handler>>

\* faulty: the timer is left running
DisarmNothing ==
    /\ pc = "leaving"
    /\ pc' = "disarmed"
    /\ UNCHANGED <<problem, search, screen, timing>>

\* signal.setitimer(signal.ITIMER_REAL, *previous_timer)
Disarm ==
    /\ pc = "leaving"
    /\ pc' = "disarmed"
    /\ alarm' = IF alarm = "armed" THEN "cancelled" ELSE alarm
    /\ UNCHANGED <<problem, search, screen, clock, handler>>

\* signal.signal(signal.SIGALRM, previous_handler), which first runs the
\* handler of a signal that has already arrived
Restore ==
    /\ pc = "disarmed" /\ alarm # "expired"
    /\ pc' = "done"
    /\ handler' = "previous"
    /\ UNCHANGED <<problem, search, screen, clock, alarm>>

Tick ==
    /\ clock < Horizon
    /\ clock' = clock + 1
    /\ UNCHANGED <<problem, pc, search, screen, alarm, handler>>

Solver == LastCheck \/ Solve

Screen == \/ EnterAlarm \/ StartTier \/ TakeCandidate \/ GridDone
          \/ ExamineCandidate \/ Bisect \/ LookUp
          \/ CandidateFound \/ DeadlinePasses \/ TierClears
          \/ Disarm \/ Restore

Alarm == Expire \/ AlarmInTier \/ AlarmInScreen \/ AlarmInFinally

Next == Screen \/ Solver \/ Alarm \/ Tick

Spec == Init /\ [][Next]_vars

\* The worker runs, time passes and signals arrive.  Nothing is assumed of the
\* solver: that it ever returns or gets to its next deadline check.
FairSpec == Spec /\ WF_vars(Screen) /\ WF_vars(Alarm) /\ WF_vars(Tick)

----------------------------------------------------------------------------
\* The outcome execute_preflight appends when it has no screen
Decision == IF screen = "none" THEN "needs_exact" ELSE screen

CanFall(c) ==
    LET degree == SolvingDegree(c, MaxDegree)
    IN  /\ degree # Unsolved
        /\ problem.repetition[c] + problem.cost[c][degree] < Threshold

\* A verdict "above_threshold" is never given while a candidate of the tier's
\* grid for which there are samples falls below the tier's threshold, whatever
\* the bisection, the pruning, the cache filled by the other tier and the
\* deadlines did.
ClearedIsAbove ==
    screen = "above_threshold" =>
        /\ problem.supported
        /\ \A c \in problem.grid[tier] :
              /\ c \in problem.countable
              /\ c \in problem.usable => ~CanFall(c)

\* Every degree the screen has memoised, in either tier and under any limit, is
\* the one the Hilbert series has, however the tiers were cut off.
CacheIsHilbert ==
    \A k \in DOMAIN hilbert :
        hilbert[k] = HilbertDegree(problem.system[k[1]], k[2], MaxDegree)

\* Once the alarm has interrupted the screen, wherever it struck and although
\* the coarse tier swallows its exception, the exact attack is asked for.
AlarmMeansExact ==
    pc = "done" /\ alarm = "delivered" => Decision = "needs_exact"

\* The alarm of one screen is spent or cancelled when the screen is left: it
\* neither kills the worker nor strikes the attack that follows.
NoStrayAlarm ==
    /\ pc # "killed"
    /\ pc = "done" => alarm \notin {"armed", "expired"}

\* The screen ends even if a call of the solver never does.
ScreenReturns == <>(pc = "done")

\* calibration/README.md:22-24: a sample-starved instance falls through to the
\* exact attack.
StarvedFallsThrough ==
    problem.grid["coarse"] \cap problem.usable = {} =>
        ~(tier = "coarse" /\ screen = "above_threshold")
=============================================================================
