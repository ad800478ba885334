-------------------------- MODULE EstimatorService --------------------------
(***************************************************************************)
(* The service as a whole: the handlers of /v1/estimate and /v1/preflight  *)
(* (src/src/app.py), which put the slots of SlotQueue around the worker    *)
(* processes of WorkerProcess, together with the clients that disconnect   *)
(* and the monitor that tells a handler so.  The two handlers have the     *)
(* same control; a request is either.                                      *)
(*                                                                         *)
(* A handler takes a slot, calls run(), builds the response and releases   *)
(* the slot in its finally clause whatever happened.  The event that       *)
(* cancels the wait for a slot is the one that cancels the run.            *)
(***************************************************************************)
EXTENDS Integers, FiniteSets

CONSTANTS Requests, Concurrency,
          Leader, Descendants, PipeHolders, TermIgnorers, WaitNeedsEof,
          Answers

ASSUME ServiceAssumption ==
    /\ IsFiniteSet(Requests) /\ Concurrency \in Nat \ {0}
    /\ Leader \notin Descendants /\ PipeHolders \subseteq Descendants
    /\ TermIgnorers \subseteq Descendants \cup {Leader}
    /\ WaitNeedsEof \in BOOLEAN
    /\ Answers \subseteq {"valid", "failed", "malformed", "mismatched"}

VARIABLES slot, ticket, nextTicket, value,              \* see SlotQueue
          phase, outcome, live, forked, doomed, result, \* see WorkerProcess
          collected, reaped, comm,
          cancelled,  \* the event of each request, shared by the two parts
          client,     \* is the HTTP client still connected
          reply       \* the code of the response the handler produced

Queue  == INSTANCE SlotQueue
Worker == INSTANCE WorkerProcess WITH Runs <- Requests

slotVars == <<slot, ticket, nextTicket, value>>
runVars  == <<phase, outcome, live, forked, doomed, result, collected, reaped,
              comm>>
httpVars == <<client, reply>>
vars     == <<slotVars, runVars, cancelled, httpVars>>

Replies == {"none", "ok", "internal_error", "worker_launch_failed",
            "worker_process_failed", "worker_protocol_error",
            "worker_timeout", "worker_cancelled", "no_response"}

TypeOK == /\ Queue!TypeOK
          /\ Worker!TypeOK
          /\ client \in [Requests -> {"connected", "gone"}]
          /\ reply \in [Requests -> Replies]

Init == /\ Queue!Init
        /\ Worker!Init
        /\ client = [r \in Requests |-> "connected"]
        /\ reply = [r \in Requests |-> "none"]

----------------------------------------------------------------------------
\* faulty: a timeout is reported as a cancellation
ReplyConfused(o) ==
    CASE o = "ok"             -> {"ok", "internal_error"}
      [] o = "launch_error"   -> {"worker_launch_failed"}
      [] o = "process_error"  -> {"worker_process_failed"}
      [] o = "protocol_error" -> {"worker_protocol_error"}
      [] OTHER                -> {"worker_cancelled"}

\* The exception handlers: what the response to a finished run can be.  The
\* provenance of a result is read from the installed distribution and may
\* raise, which the last-resort handler turns into a 500.
ReplyTo(o) ==
    CASE o = "ok"             -> {"ok", "internal_error"}
      [] o = "launch_error"   -> {"worker_launch_failed"}
      [] o = "process_error"  -> {"worker_process_failed"}
      [] o = "protocol_error" -> {"worker_protocol_error"}
      [] o = "timeout"        -> {"worker_timeout"}
      [] o = "cancelled"      -> {"worker_cancelled"}
      [] OTHER                -> {"no_response"}

Answer(r, code) == reply' = [reply EXCEPT ![r] = code]

Arrive(r) ==
    /\ Queue!Arrive(r)
    /\ UNCHANGED <<runVars, httpVars>>

\* the client closes its connection
Disconnect(r) ==
    /\ slot[r] \notin {"absent", "answered"}
    /\ client[r] = "connected"
    /\ client' = [client EXCEPT ![r] = "gone"]
    /\ UNCHANGED <<slotVars, runVars, cancelled, reply>>

\* faulty: the monitor stops once the request has its slot
PollWhileQueued(r) ==
    /\ client[r] = "gone"
    /\ slot[r] # "serving"
    /\ Queue!NoticeDisconnect(r)
    /\ UNCHANGED <<runVars, httpVars>>

\* _monitor_disconnect: one poll that finds the client gone
Poll(r) ==
    /\ client[r] = "gone"
    /\ Queue!NoticeDisconnect(r)
    /\ UNCHANGED <<runVars, httpVars>>

\* the waiting part of the handler, while it has no answer yet
AwaitSlot(r) ==
    /\ Queue!AcquireResumes(r) \/ Queue!WithdrawGranted(r)
    /\ UNCHANGED <<runVars, httpVars>>

\* _acquire_or_cancel returns False
RefuseCancelled(r) ==
    /\ Queue!Withdraw(r) \/ Queue!YieldPermit(r)
    /\ Answer(r, "worker_cancelled")
    /\ UNCHANGED <<runVars, client>>

\* faulty: the outcome of the wait for a slot is not looked at
EnterRunUnqueued(r) ==
    /\ slot[r] \in {"waiting", "acquired"}
    /\ slot' = [slot EXCEPT ![r] = "serving"]
    /\ Worker!Start(r)
    /\ UNCHANGED <<ticket, nextTicket, value, cancelled, httpVars>>

\* _acquire_or_cancel returns True and run() is entered in the same step
EnterRun(r) ==
    /\ Queue!StartServing(r)
    /\ Worker!Start(r)
    /\ UNCHANGED httpVars

\* the handler is suspended inside run()
InsideRun(r) ==
    /\ Worker!Supervise(r)
    /\ UNCHANGED <<slotVars, httpVars>>

\* faulty: the handler answers, and releases its slot, as soon as run()
\* begins to clean up
RespondBeforeCleanup(r) ==
    /\ phase[r] \in Worker!Cleanup \cup {"returned"}
    /\ Queue!StopServing(r)
    /\ \E code \in ReplyTo(outcome[r]) : Answer(r, code)
    /\ UNCHANGED <<runVars, client>>

\* faulty: the finally clause does not release the slot
RespondWithoutRelease(r) ==
    /\ phase[r] = "returned"
    /\ Queue!StopWithoutRelease(r)
    /\ \E code \in ReplyTo(outcome[r]) : Answer(r, code)
    /\ UNCHANGED <<runVars, client>>

\* run() has returned or raised: the response is built and the finally
\* clause releases the slot and stops the monitor
Respond(r) ==
    /\ phase[r] = "returned"
    /\ Queue!StopServing(r)
    /\ \E code \in ReplyTo(outcome[r]) : Answer(r, code)
    /\ UNCHANGED <<runVars, client>>

Next == \E r \in Requests : \/ Arrive(r)
                            \/ Disconnect(r)
                            \/ Poll(r)
                            \/ AwaitSlot(r)
                            \/ RefuseCancelled(r)
                            \/ EnterRun(r)
                            \/ InsideRun(r)
                            \/ Respond(r)

Spec == Init /\ [][Next]_vars

\* The event loop resumes the handler, or the run inside it, whenever it is
\* ready, the monitor keeps polling, the grace period ends and doomed processes
\* die.
Proceed(r) == \/ AwaitSlot(r) \/ RefuseCancelled(r) \/ EnterRun(r) \/ Respond(r)
              \/ (Worker!Resume(r) \/ Worker!Loop(r)) /\ InsideRun(r)

Fairness(r) ==
    /\ WF_vars(Proceed(r))
    /\ WF_vars(Poll(r))
    /\ WF_vars(Worker!GraceExpires(r) /\ InsideRun(r))
    /\ \A p \in Worker!Group :
          WF_vars(p \in doomed[r] /\ Worker!Exit(r, p) /\ InsideRun(r))

FairSpec == Spec /\ \A r \in Requests : Fairness(r)

\* The request's own timer fires.
TimerFires(r) == WF_vars(Worker!WatchTimesOut(r) /\ InsideRun(r))

\* An assumption on the worker, as in WorkerProcess: a descendant that holds
\* a pipe does not keep it for ever once the leader is gone.
PipesClose(r) ==
    \A p \in PipeHolders :
        WF_vars(Leader \notin live[r] /\ Worker!Exit(r, p) /\ InsideRun(r))

----------------------------------------------------------------------------
(* Properties *)

Working == {r \in Requests : Leader \in live[r]}

\* At no time do more Sage processes run than there are slots, however
\* cancellations, timeouts, failing launches and releases interleave.
WorkersBounded == Cardinality(Working) <= Concurrency

\* A Sage process runs only while its request occupies a slot.
WorkOnlyInSlot == \A r \in Working : slot[r] = "serving"

\* A request whose client is known to be gone never starts a Sage process,
\* even if it is given a slot after that.
SparesTheGone == \A r \in Requests : cancelled[r] /\ Leader \notin live[r]
                                        => Leader \notin live'[r]

NoWorkForTheGone == [][SparesTheGone]_vars

\* Nobody is told that the work was cancelled unless the client left, and an
\* answer that reports a finished worker is the answer of that worker.
HonestReply ==
    \A r \in Requests :
        /\ reply[r] = "worker_cancelled" => client[r] = "gone"
        /\ reply[r] = "ok" => result[r] = "valid" /\ doomed[r] = {}
        /\ reply[r] = "worker_process_failed" => result[r] = "failed"

\* Clients that leave are cleared from the queue and from their slots, again
\* and again until none is there any more, even if every Sage process computes
\* for ever and no request timer fires, if no descendant keeps a pipe for ever
\* after its leader's exit.  Requests being finitely many and answered for good,
\* this says that each client that leaves is cleared in the end.
GoneIsCleared ==
    (\A r \in Requests : PipesClose(r))
        => []<>(\A r \in Requests : client[r] = "gone" => slot[r] = "answered")

\* Every request that arrives is answered in the end (again and again there is
\* none to answer), if the request timers fire and no descendant keeps a pipe
\* for ever after its leader's exit.
EveryRequestAnswered ==
    (\A r \in Requests : TimerFires(r) /\ PipesClose(r))
        => []<>(\A r \in Requests : slot[r] \in {"absent", "answered"})

\* The queue of slots is used as SlotQueue says.
QueueSpec == Queue!Spec
=============================================================================
