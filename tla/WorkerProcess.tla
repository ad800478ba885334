--------------------------- MODULE WorkerProcess ---------------------------
(***************************************************************************)
(* SageProcessRunner.run and the cleanup it performs (src/src/process.py): *)
(* one operating-system process group per run, supervised by one asyncio   *)
(* coroutine that races the group's output against the client's            *)
(* cancellation and the request's own timeout.                             *)
(*                                                                         *)
(* Three parties interleave: the coroutine (phase, outcome), the operating *)
(* system with the child watcher (live, doomed, result, collected) and the *)
(* event loop's bookkeeping of the child (reaped = Process.returncode is   *)
(* set, comm = the communicate() task is done).  A run is identified by    *)
(* the request it serves.                                                  *)
(***************************************************************************)
EXTENDS FiniteSets

CONSTANTS Runs,          \* the runs that may be in flight
          Leader,        \* the Sage process run launches, leader of its group
          Descendants,   \* processes the Sage process may fork into its group
          PipeHolders,   \* descendants that inherit a pipe of the leader
          TermIgnorers,  \* members that survive SIGTERM: they ignore it, or
                         \* handle it and go on for as long as they like
          WaitNeedsEof,  \* does Process.wait() also wait for the pipes' EOF?
                         \* (it does up to CPython 3.11 / 3.12.4)
          Answers        \* what a leader may leave behind

\* exit status 0 and a valid document, non-zero exit status, a document
\* that is not a WorkerResponse, one whose attacks are not the requested ones
Results == {"valid", "failed", "malformed", "mismatched"}

ASSUME GroupAssumption == /\ Leader \notin Descendants
                          /\ PipeHolders \subseteq Descendants
                          /\ TermIgnorers \subseteq Descendants \cup {Leader}
                          /\ WaitNeedsEof \in BOOLEAN
                          /\ Answers \subseteq Results

VARIABLES phase,      \* where the coroutine of run(r) is suspended
          outcome,    \* what run(r) returns or raises, once decided
          live,       \* members of the group that still execute
          forked,     \* members that ever executed
          doomed,     \* members that received a signal they do not survive
          result,     \* what the leader left behind when it exited
          collected,  \* the child watcher has waited for the leader: its
                      \* pid is free once the group is empty
          reaped,     \* Process.returncode is set
          comm,       \* the communicate() task is done
          cancelled   \* the asyncio.Event shared with the disconnect monitor

procVars == <<live, forked, doomed, result, collected, reaped>>
runVars  == <<phase, outcome, live, forked, doomed, result, collected, reaped,
              comm>>
vars     == <<runVars, cancelled>>

Group   == Descendants \cup {Leader}
Holders == PipeHolders \cup {Leader}

Phases   == {"idle", "watching", "terming", "killing", "draining", "returned"}
Cleanup  == {"terming", "killing", "draining"}
Decoded  == {"ok", "process_error", "protocol_error"}
Outcomes == Decoded \cup {"none", "launch_error", "timeout", "cancelled",
                          "task_cancelled"}

TypeOK == /\ phase \in [Runs -> Phases]
          /\ outcome \in [Runs -> Outcomes]
          /\ live \in [Runs -> SUBSET Group]
          /\ forked \in [Runs -> SUBSET Group]
          /\ doomed \in [Runs -> SUBSET Group]
          /\ result \in [Runs -> Results \cup {"none"}]
          /\ collected \in [Runs -> BOOLEAN]
          /\ reaped \in [Runs -> BOOLEAN]
          /\ comm \in [Runs -> BOOLEAN]
          /\ cancelled \in [Runs -> BOOLEAN]

Init == /\ phase = [r \in Runs |-> "idle"]
        /\ outcome = [r \in Runs |-> "none"]
        /\ live = [r \in Runs |-> {}]
        /\ forked = [r \in Runs |-> {}]
        /\ doomed = [r \in Runs |-> {}]
        /\ result = [r \in Runs |-> "none"]
        /\ collected = [r \in Runs |-> FALSE]
        /\ reaped = [r \in Runs |-> FALSE]
        /\ comm = [r \in Runs |-> FALSE]
        /\ cancelled = [r \in Runs |-> FALSE]

----------------------------------------------------------------------------
(* The coroutine *)

GoTo(r, p) == phase' = [phase EXCEPT ![r] = p]

Return(r, o) == /\ GoTo(r, "returned")
                /\ outcome' = [outcome EXCEPT ![r] = o]

\* run() finds the event set and raises before it launches anything
RefuseStart(r) ==
    /\ phase[r] = "idle"
    /\ cancelled[r]
    /\ Return(r, "cancelled")
    /\ UNCHANGED <<procVars, comm, cancelled>>

\* create_subprocess_exec raises OSError or ValueError
LaunchFails(r) ==
    /\ phase[r] = "idle"
    /\ ~cancelled[r]
    /\ Return(r, "launch_error")
    /\ UNCHANGED <<procVars, comm, cancelled>>

\* faulty: run() does not look at the event before it launches
LaunchUnchecked(r) ==
    /\ phase[r] = "idle"
    /\ live' = [live EXCEPT ![r] = {Leader}]
    /\ forked' = [forked EXCEPT ![r] = {Leader}]
    /\ GoTo(r, "watching")
    /\ UNCHANGED <<outcome, doomed, result, collected, reaped, comm, cancelled>>

\* The child is forked in the step that checks the event: no suspension
\* point separates the two.
Launch(r) ==
    /\ phase[r] = "idle"
    /\ ~cancelled[r]
    /\ live' = [live EXCEPT ![r] = {Leader}]
    /\ forked' = [forked EXCEPT ![r] = {Leader}]
    /\ GoTo(r, "watching")
    /\ UNCHANGED <<outcome, doomed, result, collected, reaped, comm, cancelled>>

\* faulty: a ValidationError escapes undecoded
DecodeUnmapped(res) == IF res \in {"malformed", "mismatched"} THEN res
                       ELSE IF res = "valid" THEN "ok" ELSE "process_error"

\* faulty: coverage and order of the results are not compared
DecodeUnordered(res) == IF res \in {"valid", "mismatched"} THEN "ok"
                        ELSE IF res = "failed" THEN "process_error"
                             ELSE "protocol_error"

\* exit status first, then the schema, then coverage and order
DecodeResponse(res) ==
    CASE res = "valid"  -> "ok"
      [] res = "failed" -> "process_error"
      [] OTHER          -> "protocol_error"

\* asyncio.wait returns and communication is among the finished tasks,
\* whatever else has happened meanwhile
WatchSeesResponse(r) ==
    /\ phase[r] = "watching"
    /\ comm[r]
    /\ Return(r, DecodeResponse(result[r]))
    /\ UNCHANGED <<procVars, comm, cancelled>>

\* faulty: process.terminate() and process.kill() instead of killpg
SignalLeader(r, deaf) ==
    doomed' = [doomed EXCEPT ![r] = IF reaped[r] THEN @
                                    ELSE @ \cup ((live[r] \cap {Leader}) \ deaf)]

\* _signal_process_group: nobody is signalled once returncode is set.  It is
\* set by a callback some time after the leader was collected, and until then
\* killpg still goes to its pid: to what is left of the group, or to nobody
\* of it.  killpg reaches every member there is, in one step.
SignalGroup(r, deaf) ==
    doomed' = [doomed EXCEPT ![r] = IF reaped[r] THEN @
                                                 ELSE @ \cup (live[r] \ deaf)]

\* _terminate_process_group up to its first suspension point
TerminateGroup(r) ==
    IF reaped[r]
    THEN GoTo(r, "draining") /\ UNCHANGED doomed
    ELSE GoTo(r, "terming") /\ SignalGroup(r, TermIgnorers)

Abandon(r, o) == /\ TerminateGroup(r)
                 /\ outcome' = [outcome EXCEPT ![r] = o]
                 /\ UNCHANGED <<live, forked, result, collected, reaped, cancelled>>

\* faulty: the cancellation is looked at before the communication
CancelSeenFirst(r) ==
    /\ phase[r] = "watching"
    /\ cancelled[r]
    /\ Abandon(r, "cancelled")
    /\ UNCHANGED comm

\* faulty: asyncio.wait does not wait for the event
CancelNotWatched(r) == FALSE /\ UNCHANGED vars

WatchSeesCancel(r) ==
    /\ phase[r] = "watching"
    /\ ~comm[r]
    /\ cancelled[r]
    /\ Abandon(r, "cancelled")
    /\ UNCHANGED comm

\* The timer may win even when the event has just been set: the task that
\* waits for the event needs one more turn of the loop to be done.
WatchTimesOut(r) ==
    /\ phase[r] = "watching"
    /\ ~comm[r]
    /\ Abandon(r, "timeout")
    /\ UNCHANGED comm

\* CancelledError reaches the coroutine at one of its suspension points.
\* gather() passes the cancellation on to the communicate() task.  A task
\* is cancelled at most once.
TaskCancelled(r) ==
    /\ phase[r] \in {"watching"} \cup Cleanup
    /\ outcome[r] # "task_cancelled"
    /\ Abandon(r, "task_cancelled")
    /\ comm' = [comm EXCEPT ![r] = @ \/ phase[r] = "draining"]

WaitDone(r) == reaped[r] /\ (WaitNeedsEof => live[r] \cap Holders = {})

GraceReturns(r) ==
    /\ phase[r] = "terming"
    /\ WaitDone(r)
    /\ GoTo(r, "draining")
    /\ UNCHANGED <<outcome, procVars, comm, cancelled>>

\* faulty: SIGTERM is repeated instead of sending SIGKILL
GraceRepeatsTerm(r) ==
    /\ phase[r] = "terming"
    /\ GoTo(r, "killing")
    /\ SignalGroup(r, TermIgnorers)
    /\ UNCHANGED <<outcome, live, forked, result, collected, reaped, comm, cancelled>>

GraceExpires(r) ==
    /\ phase[r] = "terming"
    /\ GoTo(r, "killing")
    /\ SignalGroup(r, {})
    /\ UNCHANGED <<outcome, live, forked, result, collected, reaped, comm, cancelled>>

\* faulty: the leader is not awaited after SIGKILL
KillNotAwaited(r) ==
    /\ phase[r] = "killing"
    /\ GoTo(r, "draining")
    /\ UNCHANGED <<outcome, procVars, comm, cancelled>>

KillReturns(r) ==
    /\ phase[r] = "killing"
    /\ WaitDone(r)
    /\ GoTo(r, "draining")
    /\ UNCHANGED <<outcome, procVars, comm, cancelled>>

\* gather(communication) is over and run() raises what it had decided
DrainReturns(r) ==
    /\ phase[r] = "draining"
    /\ comm[r]
    /\ Return(r, outcome[r])
    /\ UNCHANGED <<procVars, comm, cancelled>>

----------------------------------------------------------------------------
(* The operating system and the event loop *)

\* Any member of the group that is not dying forks, the leader's descendants
\* also after its death.  A pipe is inherited from a process that holds it.
Fork(r, p, d) ==
    /\ p \in live[r] \ doomed[r]
    /\ d \in Descendants \ forked[r]
    /\ d \in PipeHolders => p \in Holders
    /\ live' = [live EXCEPT ![r] = @ \cup {d}]
    /\ forked' = [forked EXCEPT ![r] = @ \cup {d}]
    /\ UNCHANGED <<phase, outcome, doomed, result, collected, reaped, comm, cancelled>>

\* A process exits, of its own accord or because it is doomed.
Exit(r, p) ==
    /\ p \in live[r]
    /\ live' = [live EXCEPT ![r] = @ \ {p}]
    /\ IF p = Leader
       THEN \E res \in Answers : result' = [result EXCEPT ![r] = res]
       ELSE UNCHANGED result
    /\ UNCHANGED <<phase, outcome, forked, doomed, collected, reaped, comm, cancelled>>

\* the child watcher's waitpid takes the leader's exit status
Collect(r) ==
    /\ Leader \in forked[r] \ live[r]
    /\ ~collected[r]
    /\ collected' = [collected EXCEPT ![r] = TRUE]
    /\ UNCHANGED <<phase, outcome, live, forked, doomed, result, reaped, comm, cancelled>>

\* the callback the watcher scheduled sets Process.returncode
Reap(r) ==
    /\ collected[r]
    /\ ~reaped[r]
    /\ reaped' = [reaped EXCEPT ![r] = TRUE]
    /\ UNCHANGED <<phase, outcome, live, forked, doomed, result, collected, comm, cancelled>>

\* communicate() read both pipes to their end and saw the leader's status
CommCompletes(r) ==
    /\ reaped[r]
    /\ ~comm[r]
    /\ live[r] \cap Holders = {}
    /\ comm' = [comm EXCEPT ![r] = TRUE]
    /\ UNCHANGED <<phase, outcome, procVars, cancelled>>

\* the disconnect monitor sets the event; it is only stopped by the handler,
\* after run() is over
Cancel(r) ==
    /\ ~cancelled[r]
    /\ cancelled' = [cancelled EXCEPT ![r] = TRUE]
    /\ UNCHANGED runVars

----------------------------------------------------------------------------
Start(r) == RefuseStart(r) \/ LaunchFails(r) \/ Launch(r)

\* what the event loop does for the coroutine without any timer
Resume(r) == \/ WatchSeesResponse(r)
             \/ WatchSeesCancel(r)
             \/ GraceReturns(r)
             \/ KillReturns(r)
             \/ DrainReturns(r)

Loop(r) == Collect(r) \/ Reap(r) \/ CommCompletes(r)

Supervise(r) == \/ Resume(r)
                \/ WatchTimesOut(r)
                \/ TaskCancelled(r)
                \/ GraceExpires(r)
                \/ Loop(r)
                \/ \E p \in Group, d \in Descendants : Fork(r, p, d)
                \/ \E p \in Group : Exit(r, p)

Next == \E r \in Runs : Start(r) \/ Supervise(r) \/ Cancel(r)

Spec == Init /\ [][Next]_vars

\* The event loop keeps running, the cleanup timer fires, and a process
\* that received a signal it does not survive dies.
CleanupFairness(r) ==
    /\ WF_vars(Start(r))
    /\ WF_vars(Resume(r))
    /\ WF_vars(Loop(r))
    /\ WF_vars(GraceExpires(r))
    /\ \A p \in Group : WF_vars(p \in doomed[r] /\ Exit(r, p))

\* asyncio.wait's timeout fires: request.timeout_seconds is finite
TimerFairness(r) == WF_vars(WatchTimesOut(r))

\* An assumption on the worker, not on this code: a descendant that holds a
\* pipe does not keep it for ever once the leader is gone.
PipesClose(r) ==
    \A p \in PipeHolders : WF_vars(Leader \notin live[r] /\ Exit(r, p))

FairSpec == Spec /\ \A r \in Runs : CleanupFairness(r)

TimedSpec == FairSpec /\ \A r \in Runs : TimerFairness(r)

----------------------------------------------------------------------------
(* Properties *)

\* run() never returns or raises while the Sage process it launched still
\* runs or is an uncollected zombie, whichever of the racing exits it took.
NoLeaderLeft ==
    \A r \in Runs : phase[r] = "returned" /\ Leader \in forked[r]
                        => Leader \notin live[r] /\ collected[r] /\ reaped[r]

\* A response is passed on only if the worker produced exactly that answer,
\* nobody in its group was ever signalled and its output was read to the
\* end; an error names what the worker really did.
AnswerMatchesWorker ==
    \A r \in Runs : phase[r] = "returned" =>
        /\ outcome[r] = "ok" => /\ result[r] = "valid"
                                /\ doomed[r] = {}
                                /\ live[r] \cap Holders = {}
        /\ outcome[r] = "process_error" => result[r] = "failed"
        /\ outcome[r] = "protocol_error" => result[r] \in {"malformed", "mismatched"}

\* A response that is complete when the coroutine resumes is never thrown
\* away for a timeout or a cancellation that happened at the same moment.
TakesResponse ==
    \A r \in Runs : phase[r] = "watching" /\ comm[r] /\ phase'[r] # "watching"
                      => outcome'[r] \in Decoded \cup {"task_cancelled"}

CompleteResponseWins == [][TakesResponse]_vars

\* Every run that is entered ends whatever the worker does, if the request's
\* timer fires and no descendant holds a pipe for ever: cleanup needs no
\* cooperation from a leader that ignores SIGTERM.
RunReturns ==
    (\A r \in Runs : TimerFairness(r) /\ PipesClose(r))
        => \A r \in Runs : phase[r] # "idle" ~> phase[r] = "returned"

\* Once the client is known to be gone, the run ends even if the worker
\* would compute for ever and the request's timer never fired.
CancelledRunReturns ==
    (\A r \in Runs : PipesClose(r))
        => \A r \in Runs : cancelled[r] ~> phase[r] = "returned"

\* From SIGKILL on run() waits for nobody who is not dying, except for
\* descendants that hold a pipe after the leader's exit: a leader that ignores
\* SIGTERM, or members that fork as fast as they are signalled, cannot keep it
\* (_terminate_process_group, process.py:207-208).
KillIsFinal ==
    \A r \in Runs :
        /\ phase[r] = "killing" => reaped[r] \/ live[r] \subseteq doomed[r]
        /\ phase[r] \in {"killing", "draining"} => Leader \notin live[r] \ doomed[r]

\* Once the cleanup has signalled anybody to death the whole group is dying and
\* forks no more, unless some member survived SIGTERM and no SIGKILL met it.
\* Such a member, and all that it forks from then on, can outlive the run.
NobodyEscapes ==
    \A r \in Runs :
        doomed[r] # {} => \/ live[r] \subseteq doomed[r]
                          \/ /\ forked[r] \cap TermIgnorers # {}
                             /\ doomed[r] \cap TermIgnorers = {}

\* "Terminate gracefully, then kill the complete process group if needed."
\* (process.py:195): after a timeout or a cancellation that signalled a
\* running leader to death, what remains of the group is dying.
GroupGoneAfterCleanup ==
    \A r \in Runs : /\ phase[r] = "returned"
                    /\ outcome[r] \in {"timeout", "cancelled"}
                    /\ Leader \in doomed[r]
                    => live[r] \subseteq doomed[r]

\* A run whose worker exceeded the timeout is answered: the claim of
\* README.md:5 that timeout and descendant-process cleanup are enforceable.
TimeoutEnforced ==
    \A r \in Runs : outcome[r] = "timeout" ~> phase[r] = "returned"
============================================================================
