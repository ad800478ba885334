------------------------ MODULE WorkerProcessProofs -------------------------
(***************************************************************************)
(* Theorems about WorkerProcess, for any runs, any process group and either*)
(* behaviour of Process.wait().  The inductive invariant WorkerInv says of *)
(* every run what each phase of the coroutine may rely on: LeaderInv ties  *)
(* the event loop's view of the leader to the leader, AnswerInv what has   *)
(* been decided to what the worker did, and EscapeInv whom signals reached.*)
(***************************************************************************)
EXTENDS WorkerProcess, Integers, TLAPS

USE GroupAssumption

\* What the phases and flags say about the leader.
LeaderInv(r) ==
    /\ live[r] \subseteq forked[r]
    /\ phase[r] = "idle" => forked[r] = {}
    /\ Leader \in forked[r] \ live[r] => result[r] \in Results
    /\ collected[r] => Leader \in forked[r] \ live[r]
    /\ reaped[r] => collected[r]
    /\ comm[r] => reaped[r]
    /\ phase[r] = "draining" => reaped[r]
    /\ phase[r] = "returned" /\ Leader \in forked[r] => reaped[r]

\* Nobody is signalled before the run is given up, and a decoded outcome is
\* that of an undisturbed worker that is gone.
AnswerInv(r) ==
    /\ phase[r] \in {"idle", "watching"} => outcome[r] = "none" /\ doomed[r] = {}
    /\ phase[r] \in Cleanup => outcome[r] \in {"timeout", "cancelled", "task_cancelled"}
    /\ phase[r] = "watching" /\ comm[r] => live[r] \cap Holders = {}
    /\ outcome[r] \in Decoded => /\ phase[r] = "returned"
                                 /\ reaped[r]
                                 /\ outcome[r] = DecodeResponse(result[r])
                                 /\ doomed[r] = {}
                                 /\ live[r] \cap Holders = {}

\* The first signal dooms the group but for members that survive SIGTERM; one
\* that reaches such a member is SIGKILL, and dooms the group.
EscapeInv(r) ==
    doomed[r] # {} => \/ live[r] \subseteq doomed[r]
                      \/ /\ forked[r] \cap TermIgnorers # {}
                         /\ doomed[r] \cap TermIgnorers = {}

RunInv(r) == LeaderInv(r) /\ AnswerInv(r) /\ EscapeInv(r)

WorkerInv == TypeOK /\ \A r \in Runs : RunInv(r)

-----------------------------------------------------------------------------
LEMMA DecodedOutcome == ASSUME NEW res PROVE DecodeResponse(res) \in Decoded
  BY DEF DecodeResponse, Decoded

LEMMA InitWorkerInv == Init => WorkerInv
  BY DEF Init, WorkerInv, TypeOK, RunInv, LeaderInv, AnswerInv, EscapeInv, Phases,
         Outcomes, Decoded, Results, Cleanup

\* A step of run r does not concern the other runs.
OnlyRun(r) ==
    \A q \in Runs \ {r} :
        /\ phase'[q] = phase[q] /\ outcome'[q] = outcome[q]
        /\ live'[q] = live[q] /\ forked'[q] = forked[q]
        /\ doomed'[q] = doomed[q] /\ result'[q] = result[q]
        /\ collected'[q] = collected[q]
        /\ reaped'[q] = reaped[q] /\ comm'[q] = comm[q]

LEMMA OthersKeepRunInv ==
    ASSUME WorkerInv, NEW r \in Runs, OnlyRun(r), RunInv(r)', TypeOK'
    PROVE  WorkerInv'
<1> SUFFICES ASSUME NEW q \in Runs PROVE RunInv(q)'
  BY DEF WorkerInv
<1>1. CASE q = r
  BY <1>1
<1>2. CASE q # r
  BY <1>2 DEF WorkerInv, OnlyRun, RunInv, LeaderInv, AnswerInv, EscapeInv
<1> QED
  BY <1>1, <1>2

\* The steps that end run(r) without cleanup or after it.
LEMMA ReturnStep ==
    ASSUME WorkerInv, NEW r \in Runs,
           \/ RefuseStart(r) \/ LaunchFails(r)
           \/ WatchSeesResponse(r) \/ DrainReturns(r)
    PROVE  WorkerInv'
<1>0. TypeOK /\ RunInv(r)
  BY DEF WorkerInv
<1>1. /\ phase' = [phase EXCEPT ![r] = "returned"]
      /\ UNCHANGED <<procVars, comm, cancelled>>
      /\ \/ phase[r] = "idle" /\ outcome' = [outcome EXCEPT ![r] = "cancelled"]
         \/ phase[r] = "idle" /\ outcome' = [outcome EXCEPT ![r] = "launch_error"]
         \/ /\ phase[r] = "watching" /\ comm[r]
            /\ outcome' = [outcome EXCEPT ![r] = DecodeResponse(result[r])]
         \/ /\ phase[r] = "draining" /\ comm[r]
            /\ outcome' = [outcome EXCEPT ![r] = outcome[r]]
  BY DEF RefuseStart, LaunchFails, WatchSeesResponse, DrainReturns, Return, GoTo
<1>2. TypeOK'
  BY <1>0, <1>1, DecodedOutcome DEF TypeOK, procVars, Phases, Outcomes, Decoded
<1>3. OnlyRun(r)
  BY <1>0, <1>1 DEF TypeOK, procVars, OnlyRun
<1>4. LeaderInv(r)'
  BY <1>0, <1>1 DEF TypeOK, procVars, RunInv, LeaderInv
<1>5. AnswerInv(r)'
  BY <1>0, <1>1, DecodedOutcome
     DEF TypeOK, procVars, RunInv, LeaderInv, AnswerInv, Cleanup, Decoded
<1>6. EscapeInv(r)'
  BY <1>0, <1>1 DEF TypeOK, procVars, RunInv, EscapeInv
<1> QED
  BY <1>2, <1>3, <1>4, <1>5, <1>6, OthersKeepRunInv DEF RunInv

\* The steps that move the coroutine on and signal the group, or not.
LEMMA SignalStep ==
    ASSUME WorkerInv, NEW r \in Runs,
           NEW p \in Cleanup, NEW o \in {"timeout", "cancelled", "task_cancelled"},
           phase[r] \in {"watching"} \cup Cleanup,
           p = "draining" => reaped[r],
           phase' = [phase EXCEPT ![r] = p],
           outcome' = [outcome EXCEPT ![r] = o],
           UNCHANGED doomed \/ SignalGroup(r, TermIgnorers) \/ SignalGroup(r, {}),
           UNCHANGED <<live, forked, result, collected, reaped, cancelled>>,
           comm' \in [Runs -> BOOLEAN],
           comm'[r] => reaped[r], \A q \in Runs \ {r} : comm'[q] = comm[q]
    PROVE  WorkerInv'
<1>0. TypeOK /\ RunInv(r)
  BY DEF WorkerInv
<1>1. doomed' \in [Runs -> SUBSET Group]
  BY <1>0 DEF TypeOK, SignalGroup
<1>2. TypeOK'
  BY <1>0, <1>1 DEF TypeOK, Phases, Cleanup, Outcomes
<1>3. OnlyRun(r)
  BY <1>0 DEF TypeOK, OnlyRun, SignalGroup
<1>4. LeaderInv(r)'
  BY <1>0 DEF TypeOK, RunInv, LeaderInv, Cleanup
<1>5. AnswerInv(r)'
  BY <1>0 DEF TypeOK, RunInv, AnswerInv, Cleanup, Decoded
<1>6. EscapeInv(r)'
  <2>0. /\ live[r] \subseteq forked[r] /\ EscapeInv(r)
        /\ live'[r] = live[r] /\ forked'[r] = forked[r]
    BY <1>0 DEF RunInv, LeaderInv
  <2>1. CASE doomed'[r] = doomed[r]
    BY <2>0, <2>1 DEF EscapeInv
  <2>2. CASE doomed'[r] = doomed[r] \cup (live[r] \ TermIgnorers)
    BY <2>0, <2>2 DEF EscapeInv
  <2>3. CASE doomed'[r] = doomed[r] \cup live[r]
    BY <2>0, <2>3 DEF EscapeInv
  <2>4. \/ doomed'[r] = doomed[r]
        \/ doomed'[r] = doomed[r] \cup (live[r] \ TermIgnorers)
        \/ doomed'[r] = doomed[r] \cup live[r]
    BY <1>0 DEF SignalGroup, TypeOK
  <2> QED
    BY <2>1, <2>2, <2>3, <2>4
<1> QED
  BY <1>2, <1>3, <1>4, <1>5, <1>6, OthersKeepRunInv DEF RunInv

\* The steps of _terminate_process_group after its first suspension point, and
\* the three ways into it.
LEMMA CleanupStep ==
    ASSUME WorkerInv, NEW r \in Runs,
           \/ WatchSeesCancel(r) \/ WatchTimesOut(r) \/ TaskCancelled(r)
           \/ GraceReturns(r) \/ GraceExpires(r) \/ KillReturns(r)
    PROVE  WorkerInv'
<1>0. TypeOK /\ RunInv(r)
  BY DEF WorkerInv
<1>1. ASSUME NEW o \in {"timeout", "cancelled", "task_cancelled"}, Abandon(r, o)
      PROVE  \E p \in Cleanup :
                /\ p = "draining" => reaped[r]
                /\ phase' = [phase EXCEPT ![r] = p]
                /\ outcome' = [outcome EXCEPT ![r] = o]
                /\ UNCHANGED doomed \/ SignalGroup(r, TermIgnorers)
                /\ UNCHANGED <<live, forked, result, collected, reaped, cancelled>>
  BY <1>1 DEF Abandon, TerminateGroup, GoTo, Cleanup
<1>2. CASE WatchSeesCancel(r) \/ WatchTimesOut(r)
  <2>1. PICK o \in {"timeout", "cancelled", "task_cancelled"} : Abandon(r, o)
    BY <1>2 DEF WatchSeesCancel, WatchTimesOut
  <2>2. phase[r] = "watching" /\ comm' = comm
    BY <1>2 DEF WatchSeesCancel, WatchTimesOut
  <2>3. comm' \in [Runs -> BOOLEAN] /\ (comm'[r] => reaped[r])
    BY <1>0, <2>2 DEF TypeOK, RunInv, LeaderInv
  <2> QED
    BY <1>1, <2>1, <2>2, <2>3, SignalStep
<1>3. CASE TaskCancelled(r)
  <2>1. /\ phase[r] \in {"watching"} \cup Cleanup
        /\ Abandon(r, "task_cancelled")
        /\ comm' = [comm EXCEPT ![r] = @ \/ phase[r] = "draining"]
    BY <1>3 DEF TaskCancelled
  <2>2. comm' \in [Runs -> BOOLEAN] /\ \A q \in Runs \ {r} : comm'[q] = comm[q]
    BY <1>0, <2>1 DEF TypeOK
  <2>3. comm'[r] => reaped[r]
    BY <1>0, <2>1 DEF TypeOK, RunInv, LeaderInv
  <2> QED
    BY <1>1, <2>1, <2>2, <2>3, SignalStep
<1>4. CASE GraceReturns(r) \/ GraceExpires(r) \/ KillReturns(r)
  <2>1. /\ phase[r] \in {"terming", "killing"}
        /\ UNCHANGED <<outcome, live, forked, result, collected, reaped, comm, cancelled>>
        /\ UNCHANGED doomed \/ SignalGroup(r, {})
    BY <1>4 DEF GraceReturns, GraceExpires, KillReturns, procVars
  <2>2. PICK p \in Cleanup : phase' = [phase EXCEPT ![r] = p] /\ (p = "draining" => reaped[r])
    BY <1>4 DEF GraceReturns, GraceExpires, KillReturns, GoTo, WaitDone, Cleanup
  <2>3. /\ outcome[r] \in {"timeout", "cancelled", "task_cancelled"}
        /\ outcome' = [outcome EXCEPT ![r] = outcome[r]]
    BY <1>0, <2>1 DEF TypeOK, RunInv, AnswerInv, Cleanup
  <2>4. comm' \in [Runs -> BOOLEAN] /\ (comm'[r] => reaped[r])
    BY <1>0, <2>1 DEF TypeOK, RunInv, LeaderInv
  <2>5. phase[r] \in {"watching"} \cup Cleanup
    BY <2>1 DEF Cleanup
  <2> QED
    BY <2>1, <2>2, <2>3, <2>4, <2>5, SignalStep
<1> QED
  BY <1>2, <1>3, <1>4

LEMMA LaunchStep ==
    ASSUME WorkerInv, NEW r \in Runs, Launch(r)
    PROVE  WorkerInv'
<1>0. TypeOK /\ RunInv(r)
  BY DEF WorkerInv
<1>1. TypeOK'
  BY <1>0 DEF TypeOK, Launch, GoTo, Phases, Group
<1>2. OnlyRun(r)
  BY <1>0 DEF TypeOK, Launch, GoTo, OnlyRun
<1>3. RunInv(r)'
  BY <1>0 DEF TypeOK, Launch, GoTo, RunInv, LeaderInv, AnswerInv, EscapeInv, Cleanup, Decoded
<1> QED
  BY <1>1, <1>2, <1>3, OthersKeepRunInv

\* What the operating system and the event loop do on their own.
LEMMA SystemStep ==
    ASSUME WorkerInv, NEW r \in Runs,
           \/ Collect(r) \/ Reap(r) \/ CommCompletes(r)
           \/ \E p \in Group, d \in Descendants : Fork(r, p, d)
           \/ \E p \in Group : Exit(r, p)
    PROVE  WorkerInv'
<1>0. TypeOK /\ RunInv(r)
  BY DEF WorkerInv
<1>1. CASE Collect(r) \/ Reap(r)
  <2>1. TypeOK' /\ OnlyRun(r)
    BY <1>0, <1>1 DEF TypeOK, Collect, Reap, OnlyRun
  <2>2. RunInv(r)'
    BY <1>0, <1>1 DEF TypeOK, Collect, Reap, RunInv, LeaderInv, AnswerInv, EscapeInv
  <2> QED
    BY <2>1, <2>2, OthersKeepRunInv
<1>2. CASE CommCompletes(r)
  <2>1. TypeOK' /\ OnlyRun(r)
    BY <1>0, <1>2 DEF TypeOK, CommCompletes, procVars, OnlyRun
  <2>2. RunInv(r)'
    BY <1>0, <1>2 DEF TypeOK, CommCompletes, procVars, RunInv, LeaderInv, AnswerInv, EscapeInv
  <2> QED
    BY <2>1, <2>2, OthersKeepRunInv
<1>3. ASSUME NEW p \in Group, NEW d \in Descendants, Fork(r, p, d)
      PROVE  WorkerInv'
  <2>1. TypeOK' /\ OnlyRun(r)
    BY <1>0, <1>3 DEF TypeOK, Fork, Group, OnlyRun
  <2>2. LeaderInv(r)'
    BY <1>0, <1>3 DEF TypeOK, Fork, RunInv, LeaderInv
  <2>3. p \in Holders => live[r] \cap Holders # {}
    BY <1>3 DEF Fork
  <2>4. AnswerInv(r)'
    BY <1>0, <1>3, <2>3 DEF TypeOK, Fork, RunInv, AnswerInv, Holders, Decoded, Cleanup
  <2>5. EscapeInv(r)'
    BY <1>0, <1>3 DEF TypeOK, Fork, RunInv, EscapeInv
  <2> QED
    BY <2>1, <2>2, <2>4, <2>5, OthersKeepRunInv DEF RunInv
<1>4. ASSUME NEW p \in Group, Exit(r, p)
      PROVE  WorkerInv'
  <2>1. /\ p \in live[r]
        /\ live' = [live EXCEPT ![r] = @ \ {p}]
        /\ p # Leader => result' = result
        /\ p = Leader => \E res \in Answers : result' = [result EXCEPT ![r] = res]
        /\ UNCHANGED <<phase, outcome, forked, doomed, collected, reaped, comm, cancelled>>
    BY <1>4 DEF Exit
  <2>2. TypeOK' /\ OnlyRun(r)
    BY <1>0, <2>1 DEF TypeOK, OnlyRun
  <2>3. LeaderInv(r)'
    BY <1>0, <2>1 DEF TypeOK, RunInv, LeaderInv
  <2>4. AnswerInv(r)' /\ EscapeInv(r)'
    BY <1>0, <2>1 DEF TypeOK, RunInv, LeaderInv, AnswerInv, EscapeInv
  <2> QED
    BY <2>2, <2>3, <2>4, OthersKeepRunInv DEF RunInv
<1> QED
  BY <1>1, <1>2, <1>3, <1>4

LEMMA NextWorkerInv == WorkerInv /\ [Next]_vars => WorkerInv'
<1> SUFFICES ASSUME WorkerInv, [Next]_vars PROVE WorkerInv'
  OBVIOUS
<1>1. ASSUME NEW r \in Runs, Start(r) PROVE WorkerInv'
  BY <1>1, ReturnStep, LaunchStep DEF Start
<1>2. ASSUME NEW r \in Runs, Supervise(r) PROVE WorkerInv'
  BY <1>2, ReturnStep, CleanupStep, SystemStep DEF Supervise, Resume, Loop
<1>3. ASSUME NEW r \in Runs, Cancel(r) PROVE WorkerInv'
  BY <1>3 DEF Cancel, runVars, WorkerInv, TypeOK, RunInv, LeaderInv, AnswerInv, EscapeInv
<1>4. CASE UNCHANGED vars
  BY <1>4 DEF vars, runVars, WorkerInv, TypeOK, RunInv, LeaderInv, AnswerInv, EscapeInv
<1> QED
  BY <1>1, <1>2, <1>3, <1>4 DEF Next

\* The variables keep their types.
THEOREM WorkerTypeOK == Spec => []TypeOK
<1>1. WorkerInv => TypeOK
  BY DEF WorkerInv
<1> QED
  BY InitWorkerInv, NextWorkerInv, <1>1, PTL DEF Spec

\* run() never leaves the Sage process it launched behind, running or as a
\* zombie, on any of its exits and for either behaviour of Process.wait().
THEOREM LeaderNeverLeft == Spec => []NoLeaderLeft
<1>1. WorkerInv => NoLeaderLeft
  BY DEF WorkerInv, RunInv, LeaderInv, NoLeaderLeft
<1> QED
  BY InitWorkerInv, NextWorkerInv, <1>1, PTL DEF Spec

\* A returned response is the complete output of an undisturbed worker, and
\* worker errors name what the worker did.
THEOREM AnswersMatch == Spec => []AnswerMatchesWorker
<1>1. WorkerInv => AnswerMatchesWorker
  <2> SUFFICES ASSUME WorkerInv, NEW r \in Runs, outcome[r] \in Decoded
               PROVE  /\ outcome[r] = "ok" => /\ result[r] = "valid"
                                              /\ doomed[r] = {}
                                              /\ live[r] \cap Holders = {}
                      /\ outcome[r] = "process_error" => result[r] = "failed"
                      /\ outcome[r] = "protocol_error"
                            => result[r] \in {"malformed", "mismatched"}
    BY DEF AnswerMatchesWorker, Decoded
  <2>1. LeaderInv(r) /\ AnswerInv(r)
    BY DEF WorkerInv, RunInv
  <2>2. /\ outcome[r] = DecodeResponse(result[r]) /\ result[r] \in Results
        /\ doomed[r] = {} /\ live[r] \cap Holders = {}
    BY <2>1 DEF LeaderInv, AnswerInv
  <2> QED
    BY <2>2 DEF DecodeResponse, Results
<1> QED
  BY InitWorkerInv, NextWorkerInv, <1>1, PTL DEF Spec

\* A cleanup that signalled anybody to death leaves nobody unsignalled, also
\* nobody that was forked meanwhile, unless a member survived SIGTERM and was
\* spared SIGKILL (_signal_process_group: killpg, and the escalation).
THEOREM EscapeNeedsSurvivor == Spec => []NobodyEscapes
<1>1. WorkerInv => NobodyEscapes
  BY DEF WorkerInv, RunInv, EscapeInv, NobodyEscapes
<1> QED
  BY InitWorkerInv, NextWorkerInv, <1>1, PTL DEF Spec

\* A response that is complete when the coroutine resumes is decoded, not
\* discarded for a timeout or a cancellation that is ready as well; only the
\* cancellation of the task itself is stronger.
THEOREM CompleteResponseTaken == Spec => CompleteResponseWins
<1>1. WorkerInv /\ [Next]_vars => [TakesResponse]_vars
  <2> SUFFICES ASSUME WorkerInv, Next, NEW q \in Runs,
                      phase[q] = "watching", comm[q], phase'[q] # "watching"
               PROVE  outcome'[q] \in Decoded \cup {"task_cancelled"}
    BY DEF TakesResponse
  <2>0. phase \in [Runs -> Phases] /\ outcome \in [Runs -> Outcomes]
    BY DEF WorkerInv, TypeOK
  <2>1. ASSUME NEW r \in Runs, NEW p, GoTo(r, p) PROVE q = r
    BY <2>0, <2>1 DEF GoTo
  <2>2. ASSUME NEW r \in Runs, WatchSeesResponse(r)
        PROVE  outcome'[q] \in Decoded
    BY <2>0, <2>1, <2>2, DecodedOutcome DEF WatchSeesResponse, Return
  <2>3. ASSUME NEW r \in Runs, TaskCancelled(r)
        PROVE  outcome'[q] = "task_cancelled"
    BY <2>0, <2>1, <2>3 DEF TaskCancelled, Abandon, TerminateGroup
  <2>4. ASSUME NEW r \in Runs, WatchSeesCancel(r) \/ WatchTimesOut(r)
        PROVE  FALSE
    BY <2>1, <2>4 DEF WatchSeesCancel, WatchTimesOut, Abandon, TerminateGroup
  <2>5. ASSUME NEW r \in Runs,
               Start(r) \/ GraceReturns(r) \/ KillReturns(r) \/ DrainReturns(r) \/ GraceExpires(r)
        PROVE  FALSE
    BY <2>1, <2>5 DEF Start, RefuseStart, LaunchFails, Launch, Return, GraceReturns,
                      KillReturns, DrainReturns, GraceExpires
  <2>6. ASSUME NEW r \in Runs,
               \/ Loop(r) \/ Cancel(r)
               \/ \E p \in Group, d \in Descendants : Fork(r, p, d)
               \/ \E p \in Group : Exit(r, p)
        PROVE  FALSE
    BY <2>6 DEF Loop, Collect, Reap, CommCompletes, Fork, Exit, Cancel, runVars
  <2> QED
    BY <2>2, <2>3, <2>4, <2>5, <2>6 DEF Next, Supervise, Resume
<1> QED
  BY InitWorkerInv, NextWorkerInv, <1>1, PTL DEF Spec, CompleteResponseWins
-----------------------------------------------------------------------------
(* What the liveness of the cleanup rests on.                              *)

LEMMA NextKillIsFinal == WorkerInv /\ KillIsFinal /\ [Next]_vars => KillIsFinal'
<1> SUFFICES ASSUME WorkerInv, KillIsFinal, [Next]_vars, NEW q \in Runs
             PROVE  /\ phase'[q] = "killing" => reaped'[q] \/ live'[q] \subseteq doomed'[q]
                    /\ phase'[q] \in {"killing", "draining"} => Leader \notin live'[q] \ doomed'[q]
  BY DEF KillIsFinal
<1> DEFINE Final == /\ phase[q] = "killing" => reaped[q] \/ live[q] \subseteq doomed[q]
                    /\ phase[q] \in {"killing", "draining"} => Leader \notin live[q] \ doomed[q]
<1>0. /\ TypeOK /\ Final
      /\ reaped[q] => Leader \notin live[q]
  BY DEF KillIsFinal, WorkerInv, RunInv, LeaderInv
<1>1. ASSUME NEW r \in Runs,
             \/ RefuseStart(r) \/ LaunchFails(r) \/ Launch(r)
             \/ WatchSeesResponse(r) \/ DrainReturns(r)
      PROVE  Final'
  BY <1>0, <1>1 DEF TypeOK, RefuseStart, LaunchFails, Launch, WatchSeesResponse, DrainReturns,
                    Return, GoTo, procVars
<1>2. ASSUME NEW r \in Runs, WatchSeesCancel(r) \/ WatchTimesOut(r) \/ TaskCancelled(r)
      PROVE  Final'
  <2>1. PICK o \in Outcomes : Abandon(r, o)
    BY <1>2 DEF WatchSeesCancel, WatchTimesOut, TaskCancelled, Outcomes
  <2>2. CASE q = r /\ reaped[r]
    BY <1>0, <2>1, <2>2 DEF TypeOK, Abandon, TerminateGroup, GoTo
  <2>3. CASE q = r /\ ~ reaped[r]
    BY <1>0, <2>1, <2>3 DEF TypeOK, Abandon, TerminateGroup, GoTo
  <2>4. CASE q # r
    BY <1>0, <2>1, <2>4 DEF TypeOK, Abandon, TerminateGroup, GoTo, SignalGroup
  <2> QED
    BY <2>2, <2>3, <2>4
<1>3. ASSUME NEW r \in Runs, GraceReturns(r) \/ KillReturns(r)
      PROVE  Final'
  BY <1>0, <1>3 DEF TypeOK, GraceReturns, KillReturns, WaitDone, GoTo, procVars
<1>4. ASSUME NEW r \in Runs, GraceExpires(r)
      PROVE  Final'
  BY <1>0, <1>4 DEF TypeOK, GraceExpires, GoTo, SignalGroup
<1>5. ASSUME NEW r \in Runs, Loop(r)
      PROVE  Final'
  BY <1>0, <1>5 DEF TypeOK, Loop, Collect, Reap, CommCompletes, procVars
<1>6. ASSUME NEW r \in Runs, NEW p \in Group, NEW d \in Descendants, Fork(r, p, d)
      PROVE  Final'
  BY <1>0, <1>6 DEF TypeOK, Fork
<1>7. ASSUME NEW r \in Runs, NEW p \in Group, Exit(r, p)
      PROVE  Final'
  BY <1>0, <1>7 DEF TypeOK, Exit
<1>8. ASSUME NEW r \in Runs, Cancel(r)
      PROVE  Final'
  BY <1>0, <1>8 DEF Cancel, runVars
<1>9. CASE UNCHANGED vars
  BY <1>0, <1>9 DEF vars, runVars
<1> QED
  BY <1>1, <1>2, <1>3, <1>4, <1>5, <1>6, <1>7, <1>8, <1>9
     DEF Next, Start, Supervise, Resume

\* From SIGKILL on run() waits for nobody but the dying and for descendants that
\* hold a pipe: a leader that ignores SIGTERM, or that forks as fast as it is
\* signalled, cannot keep it (_terminate_process_group).
THEOREM KilledCannotHoldUp == Spec => []KillIsFinal
<1>1. Init => KillIsFinal
  BY DEF Init, KillIsFinal
<1> QED
  BY <1>1, InitWorkerInv, NextWorkerInv, NextKillIsFinal, PTL DEF Spec

-----------------------------------------------------------------------------
(* How often a run can move                                                *)

\* How far run() is from its return.  The cancellation of the task sends a
\* cleanup back to its beginning, but only once.
Rank(p) == CASE p = "idle"     -> 5
             [] p = "watching" -> 4
             [] p = "terming"  -> 3
             [] p = "killing"  -> 2
             [] p = "draining" -> 1
             [] OTHER          -> 0

AheadOf(p, o) == Rank(p) + IF o = "task_cancelled" THEN 0 ELSE 2
Ahead(r) == AheadOf(phase[r], outcome[r])

LEMMA AheadType == ASSUME NEW p, NEW o PROVE AheadOf(p, o) \in 0 .. 7
  BY DEF AheadOf, Rank

\* One step of the coroutine of run(r), as a change of its phase and outcome.
MovesTo(r, p, o) == /\ phase' = [phase EXCEPT ![r] = p]
                    /\ outcome' = [outcome EXCEPT ![r] = o]
                    /\ AheadOf(p, o) < Ahead(r)

LEMMA StartMoves ==
    ASSUME WorkerInv, NEW r \in Runs, Start(r)
    PROVE  \E p, o : MovesTo(r, p, o)
<1>0. TypeOK /\ phase[r] = "idle"
  BY DEF WorkerInv, Start, RefuseStart, LaunchFails, Launch
<1>1. outcome[r] = "none"
  BY <1>0 DEF WorkerInv, RunInv, AnswerInv
<1>2. Ahead(r) = 7
  BY <1>0, <1>1 DEF Ahead, AheadOf, Rank
<1>3. ASSUME NEW o \in {"cancelled", "launch_error"}, Return(r, o)
      PROVE  MovesTo(r, "returned", o)
  <2>1. AheadOf("returned", o) = 2
    BY DEF AheadOf, Rank
  <2> QED
    BY <1>2, <1>3, <2>1 DEF MovesTo, Return, GoTo
<1>4. CASE RefuseStart(r) \/ LaunchFails(r)
  BY <1>3, <1>4 DEF RefuseStart, LaunchFails
<1>5. CASE Launch(r)
  <2>1. /\ phase' = [phase EXCEPT ![r] = "watching"]
        /\ outcome' = [outcome EXCEPT ![r] = "none"]
    BY <1>0, <1>1, <1>5 DEF Launch, GoTo, TypeOK
  <2>2. AheadOf("watching", "none") = 6
    BY DEF AheadOf, Rank
  <2>3. MovesTo(r, "watching", "none")
    BY <1>2, <2>1, <2>2 DEF MovesTo
  <2> QED
    BY <2>3
<1> QED
  BY <1>4, <1>5 DEF Start

LEMMA GivingUpMoves ==
    ASSUME WorkerInv, NEW r \in Runs,
           WatchSeesCancel(r) \/ WatchTimesOut(r) \/ TaskCancelled(r)
    PROVE  \E p, o : MovesTo(r, p, o)
<1>0. TypeOK /\ AnswerInv(r)
  BY DEF WorkerInv, RunInv
<1>1. PICK o \in {"cancelled", "timeout", "task_cancelled"} :
         /\ Abandon(r, o)
         /\ phase[r] \in {"watching"} \cup Cleanup
         /\ outcome[r] # "task_cancelled"
         /\ o = "task_cancelled" \/ phase[r] = "watching"
  BY <1>0 DEF WatchSeesCancel, WatchTimesOut, TaskCancelled, AnswerInv
<1>2. PICK p \in {"terming", "draining"} : phase' = [phase EXCEPT ![r] = p]
  BY <1>1 DEF Abandon, TerminateGroup, GoTo
<1>3. outcome' = [outcome EXCEPT ![r] = o]
  BY <1>1 DEF Abandon
<1>4. CASE phase[r] = "watching"
  <2>1. Ahead(r) = 6
    BY <1>1, <1>4 DEF Ahead, AheadOf, Rank
  <2>2. AheadOf(p, o) <= 5
    <3>1. Rank(p) \in {1, 3}
      BY DEF Rank
    <3>2. (IF o = "task_cancelled" THEN 0 ELSE 2) \in {0, 2}
      OBVIOUS
    <3> QED
      BY <3>1, <3>2 DEF AheadOf
  <2>3. AheadOf(p, o) < Ahead(r)
    BY <2>1, <2>2, AheadType
  <2> QED
    BY <1>2, <1>3, <2>3 DEF MovesTo
<1>5. CASE phase[r] \in Cleanup /\ o = "task_cancelled"
  <2>1. CASE reaped[r]
    <3>1. phase' = [phase EXCEPT ![r] = "draining"]
      BY <1>1, <2>1 DEF Abandon, TerminateGroup, GoTo
    <3>2. AheadOf("draining", o) = 1
      BY <1>5 DEF AheadOf, Rank
    <3>3. Ahead(r) \in 3 .. 5
      BY <1>1, <1>5 DEF Ahead, AheadOf, Rank, Cleanup
    <3>4. AheadOf("draining", o) < Ahead(r)
      BY <3>2, <3>3
    <3> QED
      BY <1>3, <3>1, <3>4 DEF MovesTo
  <2>2. CASE ~reaped[r]
    <3>1. phase' = [phase EXCEPT ![r] = "terming"]
      BY <1>1, <2>2 DEF Abandon, TerminateGroup, GoTo
    <3>2. phase[r] \in {"terming", "killing"}
      BY <1>5, <2>2 DEF WorkerInv, RunInv, LeaderInv, Cleanup
    <3>3. AheadOf("terming", o) = 3
      BY <1>5 DEF AheadOf, Rank
    <3>4. Ahead(r) \in 4 .. 5
      BY <1>1, <3>2 DEF Ahead, AheadOf, Rank
    <3>5. AheadOf("terming", o) < Ahead(r)
      BY <3>3, <3>4
    <3> QED
      BY <1>3, <3>1, <3>5 DEF MovesTo
  <2> QED
    BY <2>1, <2>2
<1> QED
  BY <1>1, <1>4, <1>5

LEMMA EndingMoves ==
    ASSUME WorkerInv, NEW r \in Runs,
           \/ WatchSeesResponse(r) \/ GraceReturns(r) \/ GraceExpires(r)
           \/ KillReturns(r) \/ DrainReturns(r)
    PROVE  \E p, o : MovesTo(r, p, o)
<1>0. TypeOK /\ AnswerInv(r)
  BY DEF WorkerInv, RunInv
<1>1. CASE WatchSeesResponse(r)
  <2>1. /\ phase' = [phase EXCEPT ![r] = "returned"]
        /\ outcome' = [outcome EXCEPT ![r] = DecodeResponse(result[r])]
        /\ phase[r] = "watching" /\ outcome[r] = "none"
    BY <1>0, <1>1 DEF WatchSeesResponse, Return, GoTo, AnswerInv
  <2>2. Ahead(r) = 6
    BY <2>1 DEF Ahead, AheadOf, Rank
  <2>3. AheadOf("returned", DecodeResponse(result[r])) <= 2
    BY DEF AheadOf, Rank
  <2>4. AheadOf("returned", DecodeResponse(result[r])) < Ahead(r)
    BY <2>2, <2>3, AheadType
  <2> QED
    BY <2>1, <2>4 DEF MovesTo
<1>2. ASSUME NEW p \in {"killing", "draining", "returned"},
             phase' = [phase EXCEPT ![r] = p], phase[r] \in Cleanup, Rank(p) < Rank(phase[r]),
             outcome' = [outcome EXCEPT ![r] = outcome[r]]
      PROVE  MovesTo(r, p, outcome[r])
  <2>1. Rank(p) \in Nat /\ Rank(phase[r]) \in Nat
    BY DEF Rank
  <2>2. AheadOf(p, outcome[r]) < AheadOf(phase[r], outcome[r])
    BY <1>2, <2>1 DEF AheadOf
  <2> QED
    BY <1>2, <2>2 DEF MovesTo, Ahead
<1>3. CASE GraceReturns(r) \/ GraceExpires(r) \/ KillReturns(r)
  <2>1. /\ phase[r] \in {"terming", "killing"}
        /\ outcome' = [outcome EXCEPT ![r] = outcome[r]]
    BY <1>0, <1>3 DEF GraceReturns, GraceExpires, KillReturns, TypeOK
  <2>2. PICK p \in {"killing", "draining"} :
           /\ phase' = [phase EXCEPT ![r] = p]
           /\ phase[r] = "killing" => p = "draining"
    BY <1>3 DEF GraceReturns, GraceExpires, KillReturns, GoTo
  <2>3. Rank(p) < Rank(phase[r]) /\ phase[r] \in Cleanup
    BY <2>1, <2>2 DEF Rank, Cleanup
  <2> QED
    BY <1>2, <2>1, <2>2, <2>3
<1>4. CASE DrainReturns(r)
  <2>1. /\ phase' = [phase EXCEPT ![r] = "returned"]
        /\ outcome' = [outcome EXCEPT ![r] = outcome[r]]
        /\ phase[r] = "draining"
    BY <1>4 DEF DrainReturns, Return, GoTo
  <2>2. Rank("returned") < Rank(phase[r]) /\ phase[r] \in Cleanup
    BY <2>1 DEF Rank, Cleanup
  <2> QED
    BY <1>2, <2>1, <2>2
<1> QED
  BY <1>1, <1>3, <1>4

\* A step is a move of one run or no move at all.
LEMMA NextMoves ==
    ASSUME WorkerInv, [Next]_vars
    PROVE  \/ \E r \in Runs : \E p, o : MovesTo(r, p, o)
           \/ UNCHANGED <<phase, outcome>>
<1>1. ASSUME NEW r \in Runs,
             \/ Loop(r) \/ Cancel(r)
             \/ \E p \in Group, d \in Descendants : Fork(r, p, d)
             \/ \E q \in Group : Exit(r, q)
      PROVE  UNCHANGED <<phase, outcome>>
  BY <1>1 DEF Loop, Collect, Reap, CommCompletes, Fork, Exit, Cancel, runVars
<1>2. CASE UNCHANGED vars
  BY <1>2 DEF vars, runVars
<1> QED
  BY <1>1, <1>2, StartMoves, GivingUpMoves, EndingMoves DEF Next, Supervise, Resume

\* run() never moves in a circle: a phase or an outcome that changes brings it
\* nearer to its return, so that it resumes at most seven times, whatever
\* cancellations, timers and processes do (process.py:91-229).
MovesForward ==
    \A r \in Runs : \/ phase'[r] = phase[r] /\ outcome'[r] = outcome[r]
                    \/ Ahead(r)' < Ahead(r)

LEMMA NextMovesForward == WorkerInv /\ [Next]_vars => MovesForward
<1> SUFFICES ASSUME WorkerInv, [Next]_vars, NEW q \in Runs,
                    ~(phase'[q] = phase[q] /\ outcome'[q] = outcome[q])
             PROVE  Ahead(q)' < Ahead(q)
  BY DEF MovesForward
<1>0. phase \in [Runs -> Phases] /\ outcome \in [Runs -> Outcomes]
  BY DEF WorkerInv, TypeOK
<1>1. PICK r \in Runs : \E p, o : MovesTo(r, p, o)
  BY NextMoves
<1>2. PICK p, o : MovesTo(r, p, o)
  BY <1>1
<1>3. q = r /\ phase'[q] = p /\ outcome'[q] = o
  BY <1>0, <1>2 DEF MovesTo
<1> QED
  BY <1>2, <1>3 DEF MovesTo, Ahead

\* A run moves on or not at all, and so is over after seven moves.  The bound
\* supposes that its task is cancelled at most once, as WorkerProcess does.
THEOREM RunGoesForward == Spec => [][MovesForward]_vars
<1>1. WorkerInv /\ [Next]_vars => [MovesForward]_vars
  BY NextMovesForward
<1> QED
  BY <1>1, InitWorkerInv, NextWorkerInv, PTL DEF Spec
=============================================================================
