# A TLA+ model of lattice-estimator-api

This directory models the Python service in `src/`: a stateless HTTP front end
that runs one Sage process per request, the fast screens those processes run
before an exact estimate, and the tool that collects the data the screens were
calibrated with. Modules are checked with TLC on small instances; what matters
most is proved with TLAPS for every value of the constants. Paths below are
relative to `src/` (so `src/app.py` is the service's own `src/app.py`).

## 1. The system

| Part | Code | State | Operations |
| --- | --- | --- | --- |
| HTTP handlers | `src/app.py` 150-260 | per request: cancellation event, monitor task, `acquired` | `estimate`, `preflight`, error mapping |
| Concurrency slots | `src/app.py` 158-160, 263-285 | an `asyncio.Semaphore`: counter and deque of waiters | acquire or cancel, release, poll for a disconnect |
| Worker supervision | `src/process.py` | process group, exit status, two tasks, a timer | launch, watch, decode, terminate, drain |
| Body limit | `src/app.py` 102-147, 362-394 | buffered messages, byte count, replay index | refuse, buffer, replay |
| Sage child | `src/worker.py`, `src/adapter.py` | none between requests; within one, the raw results, the outcomes so far, captured output | parse, dispatch, execute, execute_preflight, normalize |
| Arora-GB screen | `src/slow_estimate.py` 160-423, `src/adapter.py` 139-290 | tier, soft deadline, work counters, caches, SIGALRM timer and handler | two-tier search, alarm |
| BKW search | `src/slow_estimate.py` 634-892 | bisection bounds, direction, best so far; candidates and stale count | local-minimum search, loop over sample additions |
| Models | `src/models.py` | none | validation |
| Calibration tool | `tools/slow_attack_calibration.py` | two append-only JSONL files, a pool of threads | collect, replay, select, summarize, validate |
| Build | `Dockerfile`, `.github/`, `tools/check_dependency_pins.py` | none | image, release, pin check |

How they interact. A request passes the body limit, is validated, waits for a
slot while a monitor task polls for the client's disconnect and sets the
cancellation event, and then calls `SageProcessRunner.run`, which starts the
child in a session of its own, writes the request to its stdin and waits for
the first of three things: the complete output, the cancellation, the timeout.
The last two end the process group. The `finally` block of the handler gives
the slot back. The child answers on stdout; for a preflight it runs the Arora
screen under a SIGALRM and the BKW search with no deadline. The calibration
tool is a client of the API that appends one row per answer to a file and
resumes from that file.

Where it is hard: asyncio hands a semaphore's permit to a waiter before the
waiter runs, so a cancellation can meet a permit already granted; response,
timeout, cancellation and task cancellation can be ready in the same turn; the
child's group outlives or predeceases its leader; signals go to a pid that may
have been collected; a Python signal handler raises at any point of the screen,
including where the same exception type means something else; caches survive
from one tier to the next; a request is validated in one process and trusted in
another that must recognise it again, and what the estimator raises, prints or
leaves out must not spoil the results of other attacks; a collector can die
between or within two writes.

What makes each part correct, in a sentence: slots are never lost, never
overtaken and never idle beside a waiter; a Sage process runs only inside a
slot and not for a client known to have left; `run` always ends, with the
leader collected and an answer that says what the worker did; a screen clears
an attack only after looking at every candidate it can judge, and an expired
budget means an exact run; the BKW search keeps the best usable candidate it
saw; the child runs what was asked, on distributions that make sense, and every
outcome is its own attack's; the application sees exactly the client's body,
within the limit; a good calibration row is never superseded by a worse one.

## 2. Modules

| Module | Models | State and actions |
| --- | --- | --- |
| `WorkerPool` | the abstract promise of the slots | a status per request; at most `Concurrency` served, nobody served for ever skipped |
| `SlotQueue` | the semaphore and `_acquire_or_cancel` | `value`, the deque order, a stage per request (waiting, granted, yielding, ...); one action per resumption of a coroutine |
| `WorkerProcess` | `SageProcessRunner` | per run: phase of the coroutine, members of the group that live, are doomed (hit by a signal they will not survive) or were ever forked, the leader's exit, its collection by the child watcher and, later, the callback that sets `returncode`, the event, the outcome. Any member of the group that is not doomed may fork |
| `EstimatorService` | the handlers; instantiates both of the above over the same requests | adds the client, what was noticed of it, and the reply |
| `BodyLimit` | `RequestBodyLimitMiddleware` | the stream received, the buffer, the replay index, what the application saw |
| `HilbertSeries` | `_semi_regular_dreg` (operators only) | the solving degree of a system of equations, and its definition as a power series |
| `AroraScreen` | `arora_gb_threshold_screen` under `_arora_alarm`; extends `HilbertSeries` | position in the candidate walk and the bisection, tier, deadline, cache, clock, timer and handler |
| `SageChild` | `src/models.py`, `main` of `src/worker.py`, `execute`, `execute_preflight` and their helpers | one request from the posted body to the parent's verdict: the body, the place, the distributions and attacks handed to the estimator, its raw results, the outcomes, output, exit status |
| `BkwSearch` | `_local_minimum` and the loop of `bkw_estimate` | the search's locals, the cheapest candidate, the stale count |
| `Calibration` | `collect`, `replay_preflight` and, as operators over the files, `_latest_rows` and `select_plan` | both files as sequences of rows, the running job and what it still owes |

`MC*` modules instantiate these for TLC, `*Proofs` modules hold the proofs.
Definitions commented "faulty" are variants of the definition after them, used
to confirm that a property can fail; no specification uses them.

Abstractions worth knowing:

* **External code.** asyncio's semaphore, `communicate`, `wait` and child
  watcher, the kernel's processes and the ASGI server are modelled from how the
  code uses them. Where CPython versions differ (whether a released permit
  wakes one waiter or as many as there are permits, and whether
  `Process.wait` waits for the pipes), the model takes both, by nondeterminism
  or by the constant `WaitNeedsEof`.
* **The process group** is the leader and everything forked in its session, by
  whichever member. `TermIgnorers` survive SIGTERM, whether they ignore it or
  handle it and go on. `killpg` reaches all members in one step: a fork comes
  before or after it. The kernel's collection of the leader (`Collect`) and
  `returncode` becoming known (`Reap`) are two steps; between them a signal
  still goes out.
* **Answers of a worker** are `valid`, `failed`, `malformed` or `mismatched`:
  what `_decode_response` tells apart.
  `Answers` says which of them an instance has. `SageChild` has the same four as
  the verdict on its exit status and output.
* **Algebra.** The Arora screen sees a table: per candidate whether it is
  usable and countable, its repetition cost, its system of equations and the
  cost of each degree, increasing with the degree. The solving degree is
  computed from the system, by the code's algorithm. The BKW search sees a curve of
  candidates, each with a cost and whether the samples suffice. The code nests
  two searches; both are the same function, and the outer one's curve is what
  the inner searches return.
* **The estimator and Sage** in `SageChild` may raise, print to Python's or to
  the process's own standard output, leave out an attack, and return a cost that
  is finite, infinite, or (`odd`) such that the adapter's own normalisation
  raises. What leaves `execute` or `execute_preflight` ends the child with 1, or
  with 2 if it is a `ValidationError`, as for a request that does not validate
  (`src/worker.py:32-46`). `UpstreamAttacks` are the attacks this repository
  knows of. Numbers are integers, and `FloatMax` stands for the largest float.
* **Time** in the screen is a clock that may tick between any two steps; in the
  supervision a timer may fire at any moment after it is armed.

## 3. Runs

| Run | What it asks | Bounds |
| --- | --- | --- |
| `worker` | the supervision against a leader and a pipe-holding descendant that ignore SIGTERM and a descendant that obeys it | one run (runs share nothing), 3 processes: enough for one member to fork another after a third has died, and for SIGKILL to be needed (it exercises the SIGKILL half of `NobodyEscapes`; of a group that obeys SIGTERM only the theorem `EscapeNeedsSurvivor` speaks) |
| `worker_survivor` | *violated:* after cleanup the whole group is gone | the same with one descendant |
| `worker_hang` | *violated:* a timeout is always answered | a descendant that keeps a pipe for ever |
| `slots` | permits, order and refinement of `WorkerPool` | 4 requests, 2 slots: two served, one being handed a permit, one behind it |
| `service` | slots and supervision together | 2 requests, 1 slot, a leader that ignores SIGTERM, one descendant that may hold the pipes after it, workers that answer or fail (other bad answers go the way of a failure) |
| `body` | the middleware | 4 messages, sizes 0 to 3 around a limit of 2, every declared length around it |
| `screen` | both tiers of the screen under both budgets | 2 candidates, each with an easy, a hard or an unsolvable system, degrees 0 to 3, coarse budget 1, total budget 2, clock up to `Horizon` 3, so that either budget ends at any point and time passes beyond both; an `ASSUME` compares the two definitions of the solving degree on many more systems and limits |
| `screen_starved` | *violated:* a caller with too few samples falls through to exact | the same |
| `bkw` | the local-minimum search and the loop over additions | every order of costs with one valley over up to 11 parameters, slopes over up to 40, all curves of up to 3 parameters with 5 kinds of candidate, all sequences of 5 rounds over 4 results with `StaleLimit` 2 |
| `calibration` | collection with failures, deaths and resumption | 3 requests, `MaxFailures` 2 failed rows, `MaxCrashes` 1 death, between or within writes |
| `calibration_replay` | *violated:* the replay keeps the exact outcome | the same |
| `child` | a request through both validations, the child and back | some 950 bodies: every kind of problem and distribution, fitting and not, dimensions 0 to 6 for the sparse secret, attack lists that are empty, doubled, foreign or out of order, every way to fill or omit the fields of a preflight, numbers beyond `FloatMax`; both endpoints |

What the passing runs show (type invariants are checked in `worker` and
`screen` and proved for every module but the abstract `WorkerPool`):

* `worker`: `NoLeaderLeft`, `AnswerMatchesWorker`, `NobodyEscapes` (once the
  cleanup has signalled anybody to death the whole group is dying, unless a
  member survived SIGTERM and was spared SIGKILL: such a member and all it forks
  from then on can outlive the run), `KillIsFinal` (after SIGKILL `run` waits for
  nobody who is not dying, except for a pipe held after the leader's exit),
  `CompleteResponseWins`, and the liveness of `RunReturns` and
  `CancelledRunReturns`.
* `slots`: `SlotConservation`, `NoStrandedWaiter`, `FirstComeFirstServed`, and
  `PoolFairSpec`: the queue implements the pool with its fairness.
* `service`: `WorkersBounded`, `NoWorkForTheGone`, `HonestReply`,
  `GoneIsCleared` and `EveryRequestAnswered`, both under the premise that no
  descendant holds a pipe for ever (without it both fail, as `worker_hang` shows
  of a single run), and `QueueSpec`: the handlers use the slots the way
  `SlotQueue` assumes.
* `body`: `AppSeesStream`, `LimitEnforced`.
* `screen`: `ClearedIsAbove`, `CacheIsHilbert` (every entry of the cache is the
  degree the power series defines, under the limit in its key; the `ASSUME` of
  `MCAroraScreen` compares the algorithm with the series on more systems than the
  run has, and section 4 proves it for all), `AlarmMeansExact`,
  `NoStrayAlarm`, `ScreenReturns`.
* `bkw`: `NothingCheaperSeen`, `AnswerCoversLastSearch`, `LandsNextToMinimum`
  (on one valley the search ends at the lowest point or beside it; it does miss
  it, for instance the lower one of two points), `EvaluatesFew` (one evaluation
  and at most three for every halving of the range). Deadlock is checked too: a search that could get
  stuck would show.
* `calibration`: `GoodIsLast`, `SelectionIsGood` (what `select_plan` makes of a
  completely observed plan has no failed row), and `CompletesUnlessTorn`: failed
  calls, deaths between two writes and jobs in between cost no request its
  observation; only half a line in the file can.
* `child`: `RightPath` (the child recognises by one field what the parent
  accepted, and never refuses it), `AnswersAccepted`, `ExactSurvivesEstimator`,
  `OutcomesFaithful`, `RunsRequested`, `ParametersLegal` (the validation in
  front of the pipe suffices for the translation behind it) and
  `ThresholdsHonest` (also for the threshold the adapter computes a second time).

Deadlock checking is off only where the modelled activity is over (requests
answered, screen returned, middleware done) or where a torn line stops the
collector for good.

### Fairness

* A coroutine that can resume does: the event loop runs every ready callback.
  That is weak fairness of each coroutine's resumptions, in the service of
  `Proceed`, the resumptions of one handler and of the run inside it.
* Timers fire: the grace period (`wait_for`) always; the request timer only
  where a property names it (`RunReturns`, `EveryRequestAnswered`), because
  `timeout_seconds` is at least 1 and at most 7200. `CancelledRunReturns` and
  `GoneIsCleared` hold without it.
* A process that received a signal it does not survive dies, and the child
  watcher collects it. Nothing is assumed of a worker that was not signalled.
  `RunReturns` also assumes that a descendant with a pipe exits some time after
  its leader (`PipesClose`), and so do `CancelledRunReturns`, `GoneIsCleared` and
  `EveryRequestAnswered`: it is a premise written into each of them, because
  nothing in the code enforces it. `worker_hang` drops it.
* The monitor polls again (`asyncio.sleep(0.1)`).
* Screen: its own steps, the kernel's alarm and the clock are fair; the solver
  (`_semi_regular_dreg`) is not, so it may run for ever and the screen still
  returns.
* Collector: the futures of a run finish or are written (weak fairness), and
  somebody starts it again each time it stopped (strong fairness of
  `StartCollect`, which a torn line disables).
* BKW: no fairness and no liveness property. That the search ends follows from
  the deadlock check (it never gets stuck) and `SearchEnds` (section 4: every
  step is nearer to the return).

## 4. What is proved

TLAPS checks these for every number of requests, slots, processes, candidates,
parameters and rows. The assumptions are the named `ASSUME`s of the modules
(finite sets, positive limits, a well-formed problem).

* `SlotQueueProofs`: `SlotInv == TypeOK /\ SlotConservation`. Neither half is
  inductive alone: `value` stays a natural number only because no more waiters
  are woken than permits are free, and permits are counted only over well-typed
  slots. From it `PermitsConserved`, `NobodyStranded`, `NobodyOvertakes`, and
  `SlotsImplementPool` (the initial states and every step map to `WorkerPool`).
  `PoolServesFew` and `PoolAnswersOnce` are about the abstract pool, and so about
  whatever implements it. `NoQueueWithoutHolder` needs both conservation and
  `NobodyStranded`: while somebody waits, a permit is held. `HandlersGoForward`:
  no handler goes back to an earlier stage, so each is done after five moves.
* `WorkerProcessProofs`: `WorkerInv` adds to the types, for each run,
  `LeaderInv` (what the event loop believes of the leader is true of it),
  `AnswerInv` (what is decided agrees with what the worker did, and nobody is
  signalled before the run is given up) and `EscapeInv`, which is `NobodyEscapes`
  for one run: a fork keeps it because only a member that is not doomed forks,
  and while nobody survives SIGTERM there is none. From it `LeaderNeverLeft`,
  `AnswersMatch`, `EscapeNeedsSurvivor` and `CompleteResponseTaken`.
  `KilledCannotHoldUp` is the safety behind
  `RunReturns`: from SIGKILL on, while `returncode` is not set, the group is dying
  as a whole, also what was forked in the grace period, and the leader holds nobody up. Without
  SIGKILL that is not so: a leader that ignores SIGTERM can fork in the grace
  period and exit by itself, and what it forked is never signalled.
  `RunGoesForward` bounds the moves of `run()` by seven, although a cancelled
  task sends its cleanup back to the beginning: in the measure a cancellation
  still to come counts for two stages. It rests on the model's condition that a
  task is cancelled at most once (section 6).
* `EstimatorServiceProofs`: `ServiceInv` joins the invariants of both components
  and `LinkInv`: a serving request has a run that is not idle, an answered one
  an idle or returned run, every other an idle one. From it `WorkStaysInSlots`,
  `GoneStartNothing` and `WorkersStayBounded`, which needs `PermitsConserved`.
  `ReplyInv` adds why a reply is what it is (an answered run's outcome does not
  change any more); from it `RepliesAreHonest`. `HandlersUseSlots` and
  `HandlersUseWorkers` map every step of the service to one of `SlotQueue` and to
  one of `WorkerProcess`, so the theorems about both hold in it, and
  `ServiceImplementsPool` maps it to `WorkerPool`. `AnsweredIsClean` says across
  the two components what an answered request can leave behind: no Sage process,
  and where its cleanup signalled anybody to death no process that is not dying,
  unless a member survived SIGTERM and was spared SIGKILL.
  `AnsweredMeansReplied` and `EachAnsweredOnce`: a handler is done exactly when
  it has produced a response, and that response stands. `NobodyWaitsInVain` joins
  `NoQueueWithoutHolder` with `LinkInv`: a waiter depends on a handler that is
  between grant and run, or on a run that has begun, and by `RunGoesForward` and
  `HandlersGoForward` both have boundedly many moves left.
* `AroraScreenProofs`: `SearchInv` splits into what was walked (`WalkInv`:
  every candidate neither left to do nor current is known not to fall below the
  tier's threshold), the bisection (`BisectInv`), the cache (`MemoInv`: an
  entry is the solving degree under the limit in its key) and the verdict. From
  it `ClearanceIsSound` and, with the algebra below, `CacheHoldsTheSeries`.
  `AlarmInv` relates timer, handler and position, with `SpentInv`: when the
  coarse tier swallowed the alarm the budget is spent and the refined tier still
  has a deadline check to fail at. From it `AlarmForcesExact` and `AlarmIsOver`.
  `ScreenGoesForward` is the safety behind `ScreenReturns`: in lexicographic
  order, every step is in a later section of the screen, has the alarm further,
  a candidate less, the candidate in hand further, a smaller interval to bisect,
  or time gone by up to the horizon.
* The algebra in the same module. `SeriesDegree`: for every number of variables
  and equations of any degrees, `_semi_regular_dreg`, cut off at any limit,
  finds the first negative degree of the power series, multiplied and divided
  factor by factor. The code uses binomials, so the proof goes through Pascal's
  rule: multiplying out one more factor of the numerator is one more row
  (`PowerIsBinomial`, `NumeratorIsProduct`), dividing once more is one more
  variable (`CoefficientStep`, `QuotientIs`). From it `HilbertLimits`: a smaller
  limit finds the same degree, or nothing if the degree is beyond it, which
  `ClearanceIsSound` needs because the cache is filled under changing limits.
* `BkwSearchProofs`: `BkwInv` strengthens `NothingCheaperSeen` to
  `HeldIsCheapest`: while what is held does not fit, it is the cheapest of
  everything evaluated, and from the first fitting one on it is the cheapest of
  what fits. The comparison in the code is not an order, so the plain statement
  is not inductive. From it `NothingCheaperLost` and `AnswerIsUsable`.
  `ShapeInv` names the four shapes the loop of `_local_minimum` can be in (the
  middle going down, the middle going up, the point below it, the point above
  it), each with what of its interval is evaluated and how many evaluations the
  halving in hand may still cost; `LandInv` says where the lowest point of a
  valley is in each shape, or that the search has landed beside it. One lemma
  per turn of the loop keeps both. From them `LandsBesideMinimum`,
  `FewAreEvaluated` and `SearchEnds`.
* `CalibrationProofs`: `CollectInv` adds `OwedInv` (what a running job still
  owes has no complete observation yet) and `TornInv` (half a line is never
  taken for a complete one). From it `GoodStaysLast` and, since the last row of
  an identity is then its good one, `CompletePlanSelects`. `JobInv` (what a job
  no longer owes is in its output) gives `FinishedJobsAreComplete`, the safety
  behind `CompletesUnlessTorn`, and `ReplayAddsNoOutcome`.
* `BodyLimitProofs`: `BodyInv` says what the application saw is the prefix of
  the buffer up to the replay index and, once that is used up, a prefix of the
  stream (`ReplayInv`), and bounds the counter (`CountInv`); `AccountInv` adds
  that the counter is the sum of the sizes in the buffer and that a served body is
  complete. From them `AppSeesTheStream` and `LimitIsEnforced`.
* `SageChildProofs`: `BaseInv` joins the types, `PathInv` (what a request has
  passed by the time it is in a place: the request in the pipe is valid for the
  endpoint and carries its operation) and `ProgressInv` (the outcomes are for
  the first attacks of the request, and complete when the response is written).
  Over it `OutputInv` relates what was printed to what the parent reads and
  `ResultInv` the outcomes to the raw results. From them the seven properties of
  `child`, for every set of bodies, of any dimension, weight and number.
  `TypicalWeightFits` and `TypicalWeightIsModal` are about the sparse secret for every dimension.

Induction over numbers. The library's induction theorems take an operator as a
parameter, which the provers here cannot instantiate. `AroraScreenProofs`,
`BkwSearchProofs` and `BodyLimitProofs` start from the one fact they can use,
that a non-empty set of natural numbers has a least element: an induction is the
least counterexample, and a recursive function exists because a table of its
first values exists for every length. That is why the recursion of the models (`Halvings`, the binomials
and sums of `HilbertSeries`, the sum in `Bytes`) is written as functions on
numbers.

Only model-checked: every liveness property and `PoolFairSpec`, which need
fairness. The safety half of the liveness is proved where it has one of its own:
`KilledCannotHoldUp`, `RunGoesForward`, `NobodyStranded`, `HandlersGoForward`,
`NobodyWaitsInVain`, `ScreenGoesForward`, `SearchEnds`,
`FinishedJobsAreComplete`. Every invariant and action property of the passing
runs is proved.

## 5. Disagreements found

Each is a run whose property quotes the repository and is violated.

1. `worker_survivor`: `_terminate_process_group` promises to "kill the complete
   process group if needed" (`src/process.py:195`) but escalates only while the
   leader lives. A descendant that ignores SIGTERM outlives a leader that obeys,
   and so does everything it forks after that, deaf to SIGTERM or not.
2. `worker_hang`: with the leader gone and a descendant holding a pipe, the
   timeout signals nobody and waits for the pipe without a limit, against
   "timeout, cancellation, and descendant-process cleanup remain enforceable"
   (`README.md:5-6`).
3. `screen_starved`: a caller with fewer samples than any tail needs is cleared
   (`above_threshold`) with no candidate checked, against "unsupported or
   sample-starved instances return a non-finite preflight and therefore fall
   through to exact Arora-GB" (`calibration/README.md:22-24`).
4. `calibration_replay`: with a failed and a good row for one identity, the
   replay can keep the failed exact outcome as the last word.

Observations that no run of its own is spent on:

* After a death within a write, `collect` cannot parse its own output any more,
  although `calibration/README.md:4-6` calls collection resumable; the second
  alternative of `CompletesUnlessTorn` is this.
* The preflight path does not capture output: anything Sage prints there is read
  as part of the response, which the parent then rejects. `AnswersAccepted`
  names it as one of the two exceptions; `src/process.py:124-125` expects
  diagnostics on stderr.
* A result the adapter cannot normalise takes the results of the other attacks
  with it; it is the one reason in `ExactSurvivesEstimator`.
* `src/adapter.py:406-409` calls the composition of a sparse secret the modal
  one. It is, except for dimensions that are 2 modulo 4, where it is one above
  (`TypicalWeightIsModal`).

## 6. Not modelled

* Windows branches, and descendants that leave the group with `setsid`.
* Whom a signal meets when the leader was collected, `returncode` is not set yet
  and the group is empty: the pid may be free or in use again. The model has the
  step, with nobody of the group to signal; no property is about a stranger.
* A `CancelledError` inside `create_subprocess_exec` (`src/process.py:111`), where
  asyncio itself kills and collects the child.
* A child that dies of a signal of its own or of a `BaseException`: to the parent
  (`WorkerProcess`) it is one more exit in failure, but `SageChild` does not have it,
  so `ExactSurvivesEstimator` says nothing about it.
* An estimator that runs attacks the repository does not know of.
* For the collector: a plan that repeats a request (`pending` is a list in the
  code, `Plan` a set; no plan in `calibration/plans` repeats one), and an
  exception that recurs on every run (`MaxCrashes` is finite), which could
  keep other requests from being collected for ever.
* Whether `bkw_estimate` should give up a usable candidate for a cheaper one that
  is not: it does, and `NothingCheaperSeen` does not object.
* A second `CancelledError` during the cleanup of the first, and a
  `CancelledError` inside `_acquire_or_cancel` (which leaves the acquisition
  task, and the permit it will take, to nobody): both need the server to cancel
  a handler task, which it does only when it shuts down.
* ASGI scopes other than http.
* Two calibration jobs on one file at the same time.
* In `SageChild`: the fields `samples`, `cost_model`, `timeout_seconds` and the
  NTRU structure, which are passed on unread; JSON of the wrong type or shape;
  the syntax of canonical decimals; durations, metrics and audit texts; what
  `normalize()` of the estimator's parameters does.
* The floating-point formulas of the screens (logarithms of binomials, Gaussian
  tails, repetition counts, BKW costs); metadata, health, error wording, the
  reports `summarize` and `validate_arora_v6_local`, build and release files.
  `PROJECT.json` gives the reason for each.

## 7. Plan

Done, in this order: `SlotQueue` under `WorkerPool`, `WorkerProcess`,
`EstimatorService` composing them, `AroraScreen`, `Calibration`, `BodyLimit`,
`BkwSearch`, `SageChild`, `HilbertSeries` under `AroraScreen`, with the proofs
above.

Next, most important first:

1. `EstimatorService` with `SageChild` in place of the four answers: the verdict
   is already the same set, the composition would state it as a refinement.
2. Server shutdown: task cancellation of handlers in any await, including a
   second one, on top of `EstimatorService`.
3. `_gaussian_tail_sample_count` and `_sparse_repetition_log2`, if exact
   rational bounds for their floats are worth stating.
