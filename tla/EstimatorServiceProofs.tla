----------------------- MODULE EstimatorServiceProofs -----------------------
(***************************************************************************)
(* Theorems about EstimatorService, for any requests, slots and process    *)
(* groups.  Every step of the service is a step of its slots and a step of *)
(* its workers, or leaves them alone, so the inductive invariants of       *)
(* SlotQueueProofs and WorkerProcessProofs hold in it; LinkInv ties the    *)
(* slot of a handler to the phase of the run inside it.                    *)
(***************************************************************************)
EXTENDS EstimatorService, FiniteSetTheorems, TLAPS

USE ServiceAssumption

QueueProofs  == INSTANCE SlotQueueProofs
WorkerProofs == INSTANCE WorkerProcessProofs WITH Runs <- Requests

\* What the phase of a run can be, given where its handler is.
LinkInv == \A r \in Requests :
              /\ slot[r] = "serving" => phase[r] # "idle"
              /\ slot[r] = "answered" => phase[r] \in {"idle", "returned"}
              /\ slot[r] \notin {"serving", "answered"} => phase[r] = "idle"

ServiceInv == QueueProofs!SlotInv /\ WorkerProofs!WorkerInv /\ LinkInv

-----------------------------------------------------------------------------
(* The instances of the proof modules are those of the service: each has   *)
(* its own copy of the same definitions.                                   *)

LEMMA SameInit == /\ Queue!Init => QueueProofs!Init
                  /\ Worker!Init => WorkerProofs!Init
  BY DEF Queue!Init, QueueProofs!Init, Worker!Init, WorkerProofs!Init

LEMMA SameHandOver ==
    ASSUME NEW r, NEW s, NEW W, NEW v
    PROVE  Queue!MoveAndGrant(r, s, W, v) => QueueProofs!MoveAndGrant(r, s, W, v)
<1>1. Queue!Cardinality(W) = QueueProofs!Cardinality(W)
  BY DEF Queue!Cardinality, QueueProofs!Cardinality
<1> QED
  BY <1>1 DEF Queue!MoveAndGrant, QueueProofs!MoveAndGrant

LEMMA SameFirst ==
    ASSUME NEW S, NEW n
    PROVE  Queue!FirstOf(S, n) = QueueProofs!FirstOf(S, n)
<1>1. ASSUME NEW T PROVE Queue!Cardinality(T) = QueueProofs!Cardinality(T)
  BY DEF Queue!Cardinality, QueueProofs!Cardinality
<1> QED
  BY <1>1 DEF Queue!FirstOf, QueueProofs!FirstOf, Queue!SmallerOf, QueueProofs!SmallerOf

LEMMA SameAnswers == Answers \subseteq WorkerProofs!Results
  BY DEF WorkerProofs!Results

LEMMA SameWaiting == /\ Queue!Waiting = QueueProofs!Waiting
                     /\ Queue!InDeque = QueueProofs!InDeque
  BY DEF Queue!Waiting, QueueProofs!Waiting, Queue!InSlot, QueueProofs!InSlot,
         Queue!InDeque, QueueProofs!InDeque

LEMMA SameQueueStep ==
    ASSUME NEW r \in Requests
    PROVE  /\ Queue!Arrive(r) => QueueProofs!Arrive(r)
           /\ Queue!AcquireResumes(r) => QueueProofs!AcquireResumes(r)
           /\ Queue!StartServing(r) => QueueProofs!StartServing(r)
           /\ Queue!Withdraw(r) => QueueProofs!Withdraw(r)
           /\ Queue!WithdrawGranted(r) => QueueProofs!WithdrawGranted(r)
           /\ Queue!YieldPermit(r) => QueueProofs!YieldPermit(r)
           /\ Queue!StopServing(r) => QueueProofs!StopServing(r)
           /\ Queue!NoticeDisconnect(r) => QueueProofs!NoticeDisconnect(r)
<1>1. Queue!Arrive(r) => QueueProofs!Arrive(r)
  BY SameWaiting DEF Queue!Arrive, QueueProofs!Arrive, Queue!Locked, QueueProofs!Locked
<1>2. ASSUME NEW v PROVE Queue!WakesOnLeaving(v) = QueueProofs!WakesOnLeaving(v)
  BY DEF Queue!WakesOnLeaving, QueueProofs!WakesOnLeaving,
         Queue!SmallerOf, QueueProofs!SmallerOf
<1>3. Queue!AcquireResumes(r) => QueueProofs!AcquireResumes(r)
  BY SameWaiting, SameFirst, SameHandOver, <1>2
     DEF Queue!AcquireResumes, QueueProofs!AcquireResumes
<1>4. Queue!Withdraw(r) => QueueProofs!Withdraw(r)
  BY SameWaiting, SameFirst, SameHandOver DEF Queue!Withdraw, QueueProofs!Withdraw
<1>5. Queue!YieldPermit(r) => QueueProofs!YieldPermit(r)
  BY SameWaiting, SameFirst, SameHandOver, <1>2
     DEF Queue!YieldPermit, QueueProofs!YieldPermit
<1>6. Queue!StopServing(r) => QueueProofs!StopServing(r)
  BY SameWaiting, SameFirst, SameHandOver DEF Queue!StopServing, QueueProofs!StopServing
<1>7. /\ Queue!StartServing(r) => QueueProofs!StartServing(r)
      /\ Queue!WithdrawGranted(r) => QueueProofs!WithdrawGranted(r)
      /\ Queue!NoticeDisconnect(r) => QueueProofs!NoticeDisconnect(r)
  BY DEF Queue!StartServing, QueueProofs!StartServing,
         Queue!WithdrawGranted, QueueProofs!WithdrawGranted,
         Queue!NoticeDisconnect, QueueProofs!NoticeDisconnect,
         Queue!slotVars, QueueProofs!slotVars
<1> QED
  BY <1>1, <1>3, <1>4, <1>5, <1>6, <1>7

LEMMA SameWorkerStep ==
    ASSUME NEW r \in Requests
    PROVE  /\ Worker!Start(r) => WorkerProofs!Start(r)
           /\ Worker!Supervise(r) => WorkerProofs!Supervise(r)
           /\ Queue!NoticeDisconnect(r) /\ UNCHANGED runVars => WorkerProofs!Cancel(r)
<1>1. Worker!Start(r) => WorkerProofs!Start(r)
  BY DEF Worker!Start, Worker!RefuseStart, Worker!LaunchFails, Worker!Launch,
         Worker!Return, Worker!GoTo, Worker!procVars, WorkerProofs!Start,
         WorkerProofs!RefuseStart, WorkerProofs!LaunchFails,
         WorkerProofs!Launch, WorkerProofs!Return, WorkerProofs!GoTo,
         WorkerProofs!procVars
<1>2. Worker!Resume(r) => WorkerProofs!Resume(r)
  BY DEF Worker!Resume, Worker!WatchSeesResponse, Worker!WatchSeesCancel,
         Worker!GraceReturns, Worker!KillReturns, Worker!DrainReturns,
         Worker!Return, Worker!GoTo, Worker!procVars, Worker!Abandon,
         Worker!TerminateGroup, Worker!SignalGroup, Worker!WaitDone,
         Worker!Holders, Worker!DecodeResponse, WorkerProofs!Resume,
         WorkerProofs!WatchSeesResponse, WorkerProofs!WatchSeesCancel,
         WorkerProofs!GraceReturns, WorkerProofs!KillReturns,
         WorkerProofs!DrainReturns, WorkerProofs!Return, WorkerProofs!GoTo,
         WorkerProofs!procVars, WorkerProofs!Abandon,
         WorkerProofs!TerminateGroup, WorkerProofs!SignalGroup,
         WorkerProofs!WaitDone, WorkerProofs!Holders,
         WorkerProofs!DecodeResponse
<1>3. /\ Worker!WatchTimesOut(r) => WorkerProofs!WatchTimesOut(r)
      /\ Worker!TaskCancelled(r) => WorkerProofs!TaskCancelled(r)
      /\ Worker!GraceExpires(r) => WorkerProofs!GraceExpires(r)
  BY DEF Worker!WatchTimesOut, Worker!TaskCancelled, Worker!GraceExpires,
         Worker!GoTo, Worker!procVars, Worker!Abandon, Worker!TerminateGroup,
         Worker!SignalGroup, Worker!Cleanup, WorkerProofs!WatchTimesOut,
         WorkerProofs!TaskCancelled, WorkerProofs!GraceExpires,
         WorkerProofs!GoTo, WorkerProofs!procVars, WorkerProofs!Abandon,
         WorkerProofs!TerminateGroup, WorkerProofs!SignalGroup,
         WorkerProofs!Cleanup
<1>4. Worker!Loop(r) => WorkerProofs!Loop(r)
  BY DEF Worker!Loop, Worker!Collect, Worker!Reap, Worker!CommCompletes,
         Worker!procVars, Worker!Holders, WorkerProofs!Loop,
         WorkerProofs!Collect, WorkerProofs!Reap, WorkerProofs!CommCompletes,
         WorkerProofs!procVars, WorkerProofs!Holders
<1>5. ASSUME NEW p \in Worker!Group, NEW d \in Descendants
      PROVE  Worker!Fork(r, p, d) => WorkerProofs!Fork(r, p, d)
  BY DEF Worker!Fork, WorkerProofs!Fork, Worker!Holders, WorkerProofs!Holders
<1>6. ASSUME NEW p \in Worker!Group
      PROVE  Worker!Exit(r, p) => WorkerProofs!Exit(r, p)
  BY DEF Worker!Exit, WorkerProofs!Exit
<1>7. Worker!Supervise(r) => WorkerProofs!Supervise(r)
  BY <1>2, <1>3, <1>4, <1>5, <1>6
     DEF Worker!Supervise, WorkerProofs!Supervise, Worker!Group, WorkerProofs!Group
<1>8. Queue!NoticeDisconnect(r) /\ UNCHANGED runVars => WorkerProofs!Cancel(r)
  BY DEF Queue!NoticeDisconnect, WorkerProofs!Cancel, runVars, WorkerProofs!runVars
<1> QED
  BY <1>1, <1>7, <1>8

-----------------------------------------------------------------------------
(* The parts of the service *)

\* A step of the service is a step of the slots or leaves them alone.
LEMMA NextInQueue ==
    ASSUME [Next]_vars
    PROVE  QueueProofs!Next \/ UNCHANGED QueueProofs!vars
<1>1. ASSUME NEW r \in Requests,
             \/ Arrive(r) \/ Poll(r) \/ AwaitSlot(r) \/ RefuseCancelled(r)
             \/ EnterRun(r) \/ Respond(r)
      PROVE  QueueProofs!Next
  BY <1>1, SameQueueStep
     DEF Arrive, Poll, AwaitSlot, RefuseCancelled, EnterRun, Respond,
         QueueProofs!Next, QueueProofs!Step
<1>2. ASSUME NEW r \in Requests, Worker!Supervise(r)
      PROVE  UNCHANGED cancelled
  BY <1>2 DEF Worker!Supervise, Worker!Resume, Worker!Loop, Worker!WatchSeesResponse,
              Worker!WatchSeesCancel, Worker!GraceReturns, Worker!KillReturns,
              Worker!DrainReturns, Worker!WatchTimesOut, Worker!TaskCancelled,
              Worker!GraceExpires, Worker!Abandon, Worker!Collect,
              Worker!Reap, Worker!CommCompletes, Worker!Fork, Worker!Exit
<1>3. ASSUME NEW r \in Requests, Disconnect(r) \/ InsideRun(r)
      PROVE  UNCHANGED QueueProofs!vars
  BY <1>2, <1>3 DEF Disconnect, InsideRun, slotVars, QueueProofs!vars
<1>4. CASE UNCHANGED vars
  BY <1>4 DEF vars, slotVars, QueueProofs!vars
<1> QED
  BY <1>1, <1>3, <1>4 DEF Next

\* A step of the service is a step of the workers or leaves them alone.
LEMMA NextInWorkers ==
    ASSUME [Next]_vars
    PROVE  WorkerProofs!Next \/ UNCHANGED WorkerProofs!vars
<1>1. ASSUME NEW r \in Requests, Poll(r) \/ EnterRun(r) \/ InsideRun(r)
      PROVE  WorkerProofs!Next
  BY <1>1, SameWorkerStep DEF Poll, EnterRun, InsideRun, WorkerProofs!Next
<1>2. ASSUME NEW r \in Requests,
             Arrive(r) \/ AwaitSlot(r) \/ RefuseCancelled(r) \/ Respond(r)
      PROVE  UNCHANGED WorkerProofs!vars
  BY <1>2 DEF Arrive, AwaitSlot, RefuseCancelled, Respond, runVars,
              Queue!Arrive, Queue!AcquireResumes, Queue!WithdrawGranted,
              Queue!Withdraw, Queue!YieldPermit, Queue!StopServing,
              WorkerProofs!vars, WorkerProofs!runVars
<1>3. ASSUME NEW r \in Requests, Disconnect(r)
      PROVE  UNCHANGED WorkerProofs!vars
  BY <1>3 DEF Disconnect, runVars, WorkerProofs!vars, WorkerProofs!runVars
<1>4. CASE UNCHANGED vars
  BY <1>4 DEF vars, runVars, WorkerProofs!vars, WorkerProofs!runVars
<1> QED
  BY <1>1, <1>2, <1>3, <1>4 DEF Next

-----------------------------------------------------------------------------
(* Slots and phases *)

\* Inside a run the phase changes only between launch and return.
LEMMA SupervisePhase ==
    ASSUME NEW r \in Requests, Worker!Supervise(r)
    PROVE  \/ UNCHANGED phase
           \/ /\ phase[r] \notin {"idle", "returned"}
              /\ \E p \in Worker!Cleanup \cup {"returned"} :
                    phase' = [phase EXCEPT ![r] = p]
  BY DEF Worker!Supervise, Worker!Resume, Worker!Loop, Worker!WatchSeesResponse,
         Worker!WatchSeesCancel, Worker!GraceReturns, Worker!KillReturns,
         Worker!DrainReturns, Worker!WatchTimesOut, Worker!TaskCancelled,
         Worker!GraceExpires, Worker!Abandon, Worker!TerminateGroup,
         Worker!Return, Worker!GoTo, Worker!Collect, Worker!Reap, Worker!CommCompletes,
         Worker!Fork, Worker!Exit, Worker!Cleanup

\* While a request queues, nothing but its place in the queue changes.
LEMMA QueueSlots ==
    ASSUME NEW r \in Requests, QueueProofs!TypeOK,
           \/ QueueProofs!Arrive(r) \/ QueueProofs!AcquireResumes(r)
           \/ QueueProofs!WithdrawGranted(r) \/ QueueProofs!Withdraw(r)
           \/ QueueProofs!YieldPermit(r) \/ QueueProofs!StopServing(r)
    PROVE  \A q \in Requests :
             \/ slot'[q] = slot[q]
             \/ slot[q] \notin {"serving", "answered"} /\ slot'[q] \notin {"serving", "answered"}
             \/ q = r /\ slot'[q] = "answered" /\ slot[q] # "answered"
  <1> SUFFICES ASSUME NEW q \in Requests
               PROVE  \/ slot'[q] = slot[q]
                      \/ slot[q] \notin {"serving", "answered"} /\ slot'[q] \notin {"serving", "answered"}
                      \/ q = r /\ slot'[q] = "answered" /\ slot[q] # "answered"
    OBVIOUS
  <1>1. ASSUME NEW s, NEW v, NEW n, NEW S \in SUBSET QueueProofs!Waiting,
               NEW W \in QueueProofs!FirstOf(S, n), QueueProofs!MoveAndGrant(r, s, W, v)
        PROVE  \/ q = r /\ slot'[q] = s
               \/ slot'[q] = slot[q]
               \/ slot[q] = "waiting" /\ slot'[q] = "granted"
    BY <1>1 DEF QueueProofs!MoveAndGrant, QueueProofs!FirstOf, QueueProofs!Waiting,
                QueueProofs!InSlot
  <1>2. CASE QueueProofs!Arrive(r) \/ QueueProofs!WithdrawGranted(r)
    BY <1>2 DEF QueueProofs!Arrive, QueueProofs!WithdrawGranted, QueueProofs!TypeOK
  <1>3. CASE QueueProofs!AcquireResumes(r)
    BY <1>1, <1>3 DEF QueueProofs!AcquireResumes
  <1>4. CASE QueueProofs!Withdraw(r)
    <2>1. QueueProofs!Waiting \ {r} \in SUBSET QueueProofs!Waiting
      OBVIOUS
    <2> QED
      BY <1>1, <1>4, <2>1 DEF QueueProofs!Withdraw
  <1>5. CASE QueueProofs!YieldPermit(r) \/ QueueProofs!StopServing(r)
    BY <1>1, <1>5 DEF QueueProofs!YieldPermit, QueueProofs!StopServing
  <1> QED
    BY <1>2, <1>3, <1>4, <1>5

LEMMA NextLink ==
    ASSUME ServiceInv, [Next]_vars
    PROVE  LinkInv'
<1>0. /\ slot \in [Requests -> QueueProofs!Slots] /\ QueueProofs!TypeOK
      /\ phase \in [Requests -> Worker!Phases]
      /\ LinkInv
  BY DEF ServiceInv, QueueProofs!SlotInv, QueueProofs!TypeOK, WorkerProofs!WorkerInv,
         WorkerProofs!TypeOK, Worker!Phases, WorkerProofs!Phases
<1>1. ASSUME NEW r \in Requests,
             Arrive(r) \/ AwaitSlot(r) \/ RefuseCancelled(r) \/ Respond(r)
      PROVE  LinkInv'
  <2>1. UNCHANGED phase
    BY <1>1 DEF Arrive, AwaitSlot, RefuseCancelled, Respond, runVars
  <2>2. \/ QueueProofs!Arrive(r) \/ QueueProofs!AcquireResumes(r)
        \/ QueueProofs!WithdrawGranted(r) \/ QueueProofs!Withdraw(r)
        \/ QueueProofs!YieldPermit(r) \/ QueueProofs!StopServing(r)
    BY <1>1, SameQueueStep DEF Arrive, AwaitSlot, RefuseCancelled, Respond
  <2>3. slot[r] = "serving" => phase[r] = "returned"
    BY <1>1 DEF Arrive, AwaitSlot, RefuseCancelled, Respond, Queue!Arrive,
                Queue!AcquireResumes, Queue!WithdrawGranted, Queue!Withdraw,
                Queue!YieldPermit
  <2>4. \A q \in Requests :
          \/ slot'[q] = slot[q]
          \/ slot[q] \notin {"serving", "answered"} /\ slot'[q] \notin {"serving", "answered"}
          \/ q = r /\ slot'[q] = "answered" /\ slot[q] # "answered"
    BY <1>0, <2>2, QueueSlots
  <2> QED
    BY <1>0, <2>1, <2>3, <2>4 DEF LinkInv
<1>2. ASSUME NEW r \in Requests, EnterRun(r)
      PROVE  LinkInv'
  <2>1. slot' = [slot EXCEPT ![r] = "serving"]
    BY <1>2 DEF EnterRun, Queue!StartServing
  <2>2. PICK p \in {"watching", "returned"} : phase' = [phase EXCEPT ![r] = p]
    BY <1>2 DEF EnterRun, Worker!Start, Worker!RefuseStart, Worker!LaunchFails,
                Worker!Launch, Worker!Return, Worker!GoTo
  <2> QED
    BY <1>0, <2>1, <2>2 DEF LinkInv
<1>3. ASSUME NEW r \in Requests, InsideRun(r)
      PROVE  LinkInv'
  <2>1. UNCHANGED slot
    BY <1>3 DEF InsideRun, slotVars
  <2> QED
    BY <1>0, <1>3, <2>1, SupervisePhase DEF InsideRun, LinkInv, Worker!Cleanup
<1>4. ASSUME NEW r \in Requests, Disconnect(r) \/ Poll(r)
      PROVE  LinkInv'
  <2>1. CASE Disconnect(r)
    BY <1>0, <2>1 DEF Disconnect, slotVars, runVars, LinkInv
  <2>2. CASE Poll(r)
    BY <1>0, <2>2 DEF Poll, runVars, Queue!NoticeDisconnect, Queue!slotVars,
                      LinkInv
  <2> QED
    BY <1>4, <2>1, <2>2
<1>5. CASE UNCHANGED vars
  <2>1. UNCHANGED <<slot, phase>>
    BY <1>5 DEF vars, slotVars, runVars
  <2> QED
    BY <1>0, <2>1 DEF LinkInv
<1> QED
  BY <1>1, <1>2, <1>3, <1>4, <1>5 DEF Next

LEMMA SameFinite == QueueProofs!IsFiniteSet(Requests)
  BY DEF QueueProofs!IsFiniteSet, IsFiniteSet

LEMMA InitServiceInv == Init => ServiceInv
<1>1. Init => QueueProofs!SlotInv
  BY SameInit, QueueProofs!InitSlotInv, SameFinite DEF Init
<1>2. Init => WorkerProofs!WorkerInv
  BY SameInit, SameAnswers, WorkerProofs!InitWorkerInv DEF Init
<1>3. Init => LinkInv
  BY DEF Init, Queue!Init, Worker!Init, LinkInv
<1> QED
  BY <1>1, <1>2, <1>3 DEF ServiceInv

LEMMA NextServiceInv == ServiceInv /\ [Next]_vars => ServiceInv'
<1> SUFFICES ASSUME ServiceInv, [Next]_vars PROVE ServiceInv'
  OBVIOUS
<1>1. QueueProofs!SlotInv'
  BY NextInQueue, QueueProofs!NextSlotInv, SameFinite DEF ServiceInv
<1>2. WorkerProofs!WorkerInv'
  BY NextInWorkers, SameAnswers, WorkerProofs!NextWorkerInv DEF ServiceInv
<1> QED
  BY <1>1, <1>2, NextLink DEF ServiceInv

LEMMA InvWorkInSlot == ServiceInv => WorkOnlyInSlot
<1> SUFFICES ASSUME ServiceInv, NEW r \in Working PROVE slot[r] = "serving"
  BY DEF WorkOnlyInSlot
<1>1. r \in Requests /\ Leader \in live[r]
  BY DEF Working
<1>2. WorkerProofs!LeaderInv(r)
  BY <1>1 DEF ServiceInv, WorkerProofs!WorkerInv, WorkerProofs!RunInv
<1>3. phase[r] \notin {"idle", "returned"}
  BY <1>1, <1>2 DEF WorkerProofs!LeaderInv
<1> QED
  BY <1>1, <1>3 DEF ServiceInv, LinkInv

\* A Sage process runs only while its request occupies a slot: run() is over,
\* and with it the process, before the handler releases.
THEOREM WorkStaysInSlots == Spec => []WorkOnlyInSlot
  BY InitServiceInv, NextServiceInv, InvWorkInSlot, PTL DEF Spec

\* At most Concurrency Sage processes run at a time, for any number of
\* requests and any behaviour of clients and workers.
THEOREM WorkersStayBounded == Spec => []WorkersBounded
<1>1. ServiceInv => WorkersBounded
  <2> SUFFICES ASSUME ServiceInv PROVE Cardinality(Working) <= Concurrency
    BY DEF WorkersBounded
  <2>1. Working \subseteq QueueProofs!Permits
    BY InvWorkInSlot DEF WorkOnlyInSlot, Working, QueueProofs!Permits,
                         QueueProofs!InSlot, QueueProofs!PermitHolding
  <2>2. IsFiniteSet(QueueProofs!Permits)
    BY FS_Subset DEF QueueProofs!Permits, QueueProofs!InSlot
  <2>3. /\ Cardinality(Working) <= Cardinality(QueueProofs!Permits)
        /\ Cardinality(QueueProofs!Permits) \in Nat /\ Cardinality(Working) \in Nat
    BY <2>1, <2>2, FS_Subset, FS_CardinalityType
  <2>4. QueueProofs!Cardinality(QueueProofs!Permits) = Cardinality(QueueProofs!Permits)
    BY DEF QueueProofs!Cardinality, Cardinality
  <2>5. value \in Nat /\ value + Cardinality(QueueProofs!Permits) = Concurrency
    BY <2>4 DEF ServiceInv, QueueProofs!SlotInv, QueueProofs!TypeOK,
                QueueProofs!SlotConservation
  <2> QED
    BY <2>3, <2>5
<1> QED
  BY InitServiceInv, NextServiceInv, <1>1, PTL DEF Spec

-----------------------------------------------------------------------------
(* The answers *)

\* Why a reply is what it is: a cancellation goes back to a client that left,
\* a report of a worker to what its run decided.
ReplyInv ==
    \A r \in Requests :
        /\ cancelled[r] => client[r] = "gone"
        /\ slot[r] = "yielding" => cancelled[r]
        /\ outcome[r] = "cancelled" => cancelled[r]
        /\ reply[r] # "none" => slot[r] = "answered"
        /\ reply[r] = "worker_cancelled" => cancelled[r]
        /\ reply[r] = "ok" => outcome[r] = "ok"
        /\ reply[r] = "worker_process_failed" => outcome[r] = "process_error"

HttpTypeOK == /\ client \in [Requests -> {"connected", "gone"}]
              /\ reply \in [Requests -> Replies]

AnswersInv == ServiceInv /\ HttpTypeOK /\ ReplyInv

LEMMA InvTypes ==
    ASSUME ServiceInv
    PROVE  /\ slot \in [Requests -> QueueProofs!Slots]
           /\ cancelled \in [Requests -> BOOLEAN]
           /\ phase \in [Requests -> WorkerProofs!Phases]
           /\ outcome \in [Requests -> WorkerProofs!Outcomes]
           /\ live \in [Requests -> SUBSET WorkerProofs!Group]
  BY DEF ServiceInv, QueueProofs!SlotInv, QueueProofs!TypeOK, WorkerProofs!WorkerInv,
         WorkerProofs!TypeOK

\* What a step inside run() does to what the run has decided.
LEMMA SuperviseOutcome ==
    ASSUME ServiceInv, NEW r \in Requests, Worker!Supervise(r), NEW q \in Requests
    PROVE  /\ phase[q] \in {"idle", "returned"} => outcome'[q] = outcome[q]
           /\ outcome'[q] = "cancelled" => outcome[q] = "cancelled" \/ cancelled[q]
           /\ UNCHANGED cancelled
<1>0. outcome \in [Requests -> WorkerProofs!Outcomes]
  BY InvTypes
<1>1. ASSUME NEW o, phase[r] \notin {"idle", "returned"},
             outcome' = [outcome EXCEPT ![r] = o],
             o = "cancelled" => outcome[r] = "cancelled" \/ cancelled[r]
      PROVE  /\ phase[q] \in {"idle", "returned"} => outcome'[q] = outcome[q]
             /\ outcome'[q] = "cancelled" => outcome[q] = "cancelled" \/ cancelled[q]
  BY <1>0, <1>1
<1>2. CASE Worker!WatchSeesResponse(r)
  BY <1>1, <1>2 DEF Worker!WatchSeesResponse, Worker!Return, Worker!DecodeResponse
<1>3. CASE Worker!WatchSeesCancel(r) \/ Worker!WatchTimesOut(r) \/ Worker!TaskCancelled(r)
  BY <1>1, <1>3 DEF Worker!WatchSeesCancel, Worker!WatchTimesOut,
                    Worker!TaskCancelled, Worker!Abandon, Worker!Cleanup
<1>4. CASE Worker!DrainReturns(r)
  BY <1>1, <1>4 DEF Worker!DrainReturns, Worker!Return
<1>5. CASE \/ Worker!GraceReturns(r) \/ Worker!KillReturns(r)
           \/ Worker!GraceExpires(r) \/ Worker!Loop(r)
           \/ \E p \in Worker!Group, d \in Descendants : Worker!Fork(r, p, d)
           \/ \E p \in Worker!Group : Worker!Exit(r, p)
  BY <1>5 DEF Worker!GraceReturns, Worker!KillReturns, Worker!GraceExpires,
              Worker!Loop, Worker!Collect, Worker!Reap, Worker!CommCompletes,
              Worker!Fork, Worker!Exit
<1>6. UNCHANGED cancelled
  BY DEF Worker!Supervise, Worker!Resume, Worker!Loop, Worker!WatchSeesResponse,
         Worker!WatchSeesCancel, Worker!GraceReturns, Worker!KillReturns,
         Worker!DrainReturns, Worker!WatchTimesOut, Worker!TaskCancelled,
         Worker!GraceExpires, Worker!Abandon, Worker!Collect,
         Worker!Reap, Worker!CommCompletes, Worker!Fork, Worker!Exit
<1> QED
  BY <1>2, <1>3, <1>4, <1>5, <1>6 DEF Worker!Supervise, Worker!Resume

\* Only the withdrawal of a granted request makes it yield.
LEMMA QueueYields ==
    ASSUME ServiceInv, NEW r \in Requests, NEW q \in Requests,
           \/ Queue!Arrive(r) \/ Queue!AcquireResumes(r) \/ Queue!WithdrawGranted(r)
           \/ Queue!Withdraw(r) \/ Queue!YieldPermit(r) \/ Queue!StopServing(r)
    PROVE  /\ slot'[q] = "yielding" => slot[q] = "yielding" \/ cancelled[q]
           /\ UNCHANGED cancelled
<1>1. ASSUME NEW s, NEW W, NEW v, s # "yielding", Queue!MoveAndGrant(r, s, W, v)
      PROVE  slot'[q] = "yielding" => slot[q] = "yielding"
  BY <1>1 DEF Queue!MoveAndGrant
<1>2. CASE Queue!Arrive(r)
  BY <1>2, InvTypes DEF Queue!Arrive
<1>3. CASE Queue!WithdrawGranted(r)
  BY <1>3, InvTypes DEF Queue!WithdrawGranted
<1>4. CASE Queue!AcquireResumes(r)
  BY <1>1, <1>4 DEF Queue!AcquireResumes
<1>5. CASE Queue!Withdraw(r)
  BY <1>1, <1>5 DEF Queue!Withdraw
<1>6. CASE Queue!YieldPermit(r)
  BY <1>1, <1>6 DEF Queue!YieldPermit
<1>7. CASE Queue!StopServing(r)
  BY <1>1, <1>7 DEF Queue!StopServing
<1> QED
  BY <1>2, <1>3, <1>4, <1>5, <1>6, <1>7

LEMMA InitAnswersInv == Init => AnswersInv
<1>1. Init => HttpTypeOK /\ ReplyInv
  BY DEF Init, Queue!Init, Worker!Init, HttpTypeOK, ReplyInv, Replies
<1> QED
  BY <1>1, InitServiceInv DEF AnswersInv

\* The outcome of the requests whose handler is not inside run() stands.
LEMMA AnsweredIsDecided ==
    ASSUME ServiceInv, NEW q \in Requests, slot[q] = "answered"
    PROVE  phase[q] \in {"idle", "returned"}
  BY DEF ServiceInv, LinkInv

LEMMA NextAnswersInv == AnswersInv /\ [Next]_vars => AnswersInv'
<1> SUFFICES ASSUME AnswersInv, [Next]_vars PROVE HttpTypeOK' /\ ReplyInv'
  BY NextServiceInv DEF AnswersInv
<1>0. /\ ServiceInv /\ HttpTypeOK /\ ReplyInv
      /\ slot \in [Requests -> QueueProofs!Slots]
      /\ cancelled \in [Requests -> BOOLEAN]
      /\ outcome \in [Requests -> WorkerProofs!Outcomes]
  BY InvTypes DEF AnswersInv
<1>a. ASSUME NEW r \in Requests,
             \/ Queue!Arrive(r) \/ Queue!AcquireResumes(r) \/ Queue!WithdrawGranted(r)
             \/ Queue!Withdraw(r) \/ Queue!YieldPermit(r) \/ Queue!StopServing(r)
      PROVE  /\ UNCHANGED cancelled
             /\ \A q \in Requests : /\ slot[q] = "answered" => slot'[q] = "answered"
                                    /\ slot'[q] = "yielding" => slot[q] = "yielding" \/ cancelled[q]
  <2>1. QueueProofs!TypeOK
    BY <1>0 DEF ServiceInv, QueueProofs!SlotInv
  <2>2. slot[r] # "answered"
    BY <1>a DEF Queue!Arrive, Queue!AcquireResumes, Queue!WithdrawGranted,
                Queue!Withdraw, Queue!YieldPermit, Queue!StopServing
  <2>3. \A q \in Requests :
          \/ slot'[q] = slot[q]
          \/ slot[q] \notin {"serving", "answered"} /\ slot'[q] \notin {"serving", "answered"}
          \/ q = r /\ slot'[q] = "answered" /\ slot[q] # "answered"
    BY <1>a, <2>1, SameQueueStep, QueueSlots
  <2> QED
    BY <1>0, <1>a, <2>3, QueueYields
<1>b. ASSUME NEW r \in Requests, Queue!Withdraw(r) \/ Queue!YieldPermit(r) \/ Queue!StopServing(r)
      PROVE  slot'[r] = "answered"
  BY <1>b DEF Queue!Withdraw, Queue!YieldPermit, Queue!StopServing, Queue!MoveAndGrant
<1>1. ASSUME NEW r \in Requests, Arrive(r) \/ AwaitSlot(r)
      PROVE  HttpTypeOK' /\ ReplyInv'
  <2>1. UNCHANGED <<outcome, client, reply>>
    BY <1>1 DEF Arrive, AwaitSlot, runVars, httpVars
  <2> QED
    BY <1>0, <1>1, <1>a, <2>1 DEF Arrive, AwaitSlot, HttpTypeOK, ReplyInv
<1>2. ASSUME NEW r \in Requests, RefuseCancelled(r)
      PROVE  HttpTypeOK' /\ ReplyInv'
  <2>1. /\ reply' = [reply EXCEPT ![r] = "worker_cancelled"]
        /\ UNCHANGED <<outcome, client>>
    BY <1>2 DEF RefuseCancelled, Answer, runVars
  <2>2. cancelled[r]
    BY <1>0, <1>2 DEF RefuseCancelled, Queue!Withdraw, Queue!YieldPermit, ReplyInv
  <2>3. HttpTypeOK'
    BY <1>0, <2>1 DEF HttpTypeOK, Replies
  <2> QED
    BY <1>0, <1>2, <1>a, <1>b, <2>1, <2>2, <2>3 DEF RefuseCancelled, HttpTypeOK, ReplyInv
<1>3. ASSUME NEW r \in Requests, Respond(r)
      PROVE  HttpTypeOK' /\ ReplyInv'
  <2>1. PICK code \in ReplyTo(outcome[r]) : reply' = [reply EXCEPT ![r] = code]
    BY <1>3 DEF Respond, Answer
  <2>2. /\ code \in Replies
        /\ code = "worker_cancelled" => outcome[r] = "cancelled"
        /\ code = "ok" => outcome[r] = "ok"
        /\ code = "worker_process_failed" => outcome[r] = "process_error"
    BY DEF ReplyTo, Replies
  <2>3. UNCHANGED <<outcome, client>>
    BY <1>3 DEF Respond, runVars
  <2>4. HttpTypeOK'
    BY <1>0, <2>1, <2>2, <2>3 DEF HttpTypeOK
  <2> QED
    BY <1>0, <1>3, <1>a, <1>b, <2>1, <2>2, <2>3, <2>4 DEF Respond, HttpTypeOK, ReplyInv
<1>4. ASSUME NEW r \in Requests, EnterRun(r)
      PROVE  HttpTypeOK' /\ ReplyInv'
  <2>1. /\ slot[r] = "acquired" /\ slot' = [slot EXCEPT ![r] = "serving"]
        /\ UNCHANGED <<cancelled, client, reply>>
    BY <1>4 DEF EnterRun, Queue!StartServing, httpVars
  <2>2. \/ UNCHANGED outcome
        \/ \E o : outcome' = [outcome EXCEPT ![r] = o] /\ (o = "cancelled" => cancelled[r])
    BY <1>4 DEF EnterRun, Worker!Start, Worker!RefuseStart, Worker!LaunchFails,
                Worker!Launch, Worker!Return
  <2> QED
    BY <1>0, <2>1, <2>2 DEF HttpTypeOK, ReplyInv
<1>5. ASSUME NEW r \in Requests, InsideRun(r)
      PROVE  HttpTypeOK' /\ ReplyInv'
  <2>1. Worker!Supervise(r) /\ UNCHANGED <<slot, client, reply>>
    BY <1>5 DEF InsideRun, slotVars, httpVars
  <2>2. ASSUME NEW q \in Requests, reply[q] # "none"
        PROVE  outcome'[q] = outcome[q]
    BY <1>0, <2>1, <2>2, SuperviseOutcome, AnsweredIsDecided DEF ReplyInv
  <2>3. UNCHANGED cancelled
    BY <1>0, <2>1, SuperviseOutcome
  <2>4. \A q \in Requests : outcome'[q] = "cancelled" => cancelled[q]
    BY <1>0, <2>1, SuperviseOutcome DEF ReplyInv
  <2> QED
    BY <1>0, <2>1, <2>2, <2>3, <2>4 DEF HttpTypeOK, ReplyInv
<1>6. ASSUME NEW r \in Requests, Disconnect(r)
      PROVE  HttpTypeOK' /\ ReplyInv'
  BY <1>0, <1>6 DEF Disconnect, slotVars, runVars, HttpTypeOK, ReplyInv
<1>7. ASSUME NEW r \in Requests, Poll(r)
      PROVE  HttpTypeOK' /\ ReplyInv'
  <2>1. /\ client[r] = "gone" /\ cancelled' = [cancelled EXCEPT ![r] = TRUE]
        /\ UNCHANGED <<slot, outcome, client, reply>>
    BY <1>7 DEF Poll, Queue!NoticeDisconnect, Queue!slotVars, runVars, httpVars
  <2> QED
    BY <1>0, <2>1 DEF HttpTypeOK, ReplyInv
<1>8. CASE UNCHANGED vars
  BY <1>0, <1>8 DEF vars, slotVars, runVars, httpVars, HttpTypeOK, ReplyInv
<1> QED
  BY <1>1, <1>2, <1>3, <1>4, <1>5, <1>6, <1>7, <1>8 DEF Next

\* The variables of the composition keep their types.
THEOREM ServiceTypeOK == Spec => []TypeOK
<1>1. AnswersInv => TypeOK
  <2> SUFFICES ASSUME AnswersInv PROVE Queue!TypeOK /\ Worker!TypeOK
    BY DEF TypeOK, AnswersInv, HttpTypeOK
  <2>1. Queue!TypeOK
    BY DEF AnswersInv, ServiceInv, QueueProofs!SlotInv, QueueProofs!TypeOK,
           Queue!TypeOK, QueueProofs!Slots, Queue!Slots
  <2>2. Worker!TypeOK
    BY DEF AnswersInv, ServiceInv, WorkerProofs!WorkerInv, WorkerProofs!TypeOK,
           Worker!TypeOK, Worker!Phases, WorkerProofs!Phases, Worker!Outcomes,
           WorkerProofs!Outcomes, Worker!Decoded, WorkerProofs!Decoded,
           Worker!Results, WorkerProofs!Results, Worker!Group, WorkerProofs!Group
  <2> QED
    BY <2>1, <2>2
<1> QED
  BY InitAnswersInv, NextAnswersInv, <1>1, PTL DEF Spec

\* A 499 goes only to a client that left, a 200 only reports the complete
\* answer of a worker nobody disturbed, and a worker's failure is its own.
THEOREM RepliesAreHonest == Spec => []HonestReply
<1>1. AnswersInv => HonestReply
  <2> SUFFICES ASSUME AnswersInv, NEW r \in Requests
               PROVE  /\ reply[r] = "worker_cancelled" => client[r] = "gone"
                      /\ reply[r] = "ok" => result[r] = "valid" /\ doomed[r] = {}
                      /\ reply[r] = "worker_process_failed" => result[r] = "failed"
    BY DEF HonestReply
  <2>1. WorkerProofs!LeaderInv(r) /\ WorkerProofs!AnswerInv(r)
    BY DEF AnswersInv, ServiceInv, WorkerProofs!WorkerInv, WorkerProofs!RunInv
  <2>2. outcome[r] \in {"ok", "process_error"} =>
          /\ outcome[r] = WorkerProofs!DecodeResponse(result[r])
          /\ result[r] \in WorkerProofs!Results /\ doomed[r] = {}
    BY <2>1 DEF WorkerProofs!LeaderInv, WorkerProofs!AnswerInv, WorkerProofs!Decoded
  <2>3. /\ outcome[r] = "ok" => result[r] = "valid" /\ doomed[r] = {}
        /\ outcome[r] = "process_error" => result[r] = "failed"
    BY <2>2 DEF WorkerProofs!DecodeResponse, WorkerProofs!Results
  <2> QED
    BY <2>3 DEF AnswersInv, ReplyInv
<1> QED
  BY InitAnswersInv, NextAnswersInv, <1>1, PTL DEF Spec

\* No Sage process starts for a request that is known to be abandoned, even
\* when it is given a slot afterwards: run() looks at the event in the step
\* that launches.
THEOREM GoneStartNothing == Spec => NoWorkForTheGone
<1>1. ServiceInv /\ [Next]_vars => [SparesTheGone]_vars
  <2> SUFFICES ASSUME ServiceInv, Next, NEW q \in Requests,
                      cancelled[q], Leader \notin live[q]
               PROVE  Leader \notin live'[q]
    BY DEF SparesTheGone
  <2>0. live \in [Requests -> SUBSET WorkerProofs!Group]
    BY InvTypes
  <2>1. ASSUME NEW r \in Requests,
               \/ Arrive(r) \/ Disconnect(r) \/ Poll(r) \/ AwaitSlot(r)
               \/ RefuseCancelled(r) \/ Respond(r)
        PROVE  UNCHANGED live
    BY <2>1 DEF Arrive, Disconnect, Poll, AwaitSlot, RefuseCancelled, Respond, runVars
  <2>2. ASSUME NEW r \in Requests, EnterRun(r)
        PROVE  UNCHANGED live \/ (q # r /\ live'[q] = live[q])
    BY <2>0, <2>2 DEF EnterRun, Worker!Start, Worker!RefuseStart, Worker!LaunchFails,
                      Worker!Launch, Worker!procVars
  <2>3. ASSUME NEW r \in Requests, NEW p \in Worker!Group, NEW d \in Descendants,
               Worker!Fork(r, p, d)
        PROVE  Leader \notin live'[q]
    BY <2>0, <2>3 DEF Worker!Fork
  <2>4. ASSUME NEW r \in Requests, NEW p \in Worker!Group, Worker!Exit(r, p)
        PROVE  Leader \notin live'[q]
    BY <2>0, <2>4 DEF Worker!Exit
  <2>5. ASSUME NEW r \in Requests, Worker!Resume(r)
        PROVE  UNCHANGED live
    BY <2>5 DEF Worker!Resume, Worker!WatchSeesResponse, Worker!WatchSeesCancel,
                Worker!GraceReturns, Worker!KillReturns, Worker!DrainReturns,
                Worker!Abandon, Worker!procVars
  <2>6. ASSUME NEW r \in Requests,
               \/ Worker!WatchTimesOut(r) \/ Worker!TaskCancelled(r)
               \/ Worker!GraceExpires(r) \/ Worker!Loop(r)
        PROVE  UNCHANGED live
    BY <2>6 DEF Worker!WatchTimesOut, Worker!TaskCancelled, Worker!GraceExpires,
                Worker!Abandon, Worker!Loop, Worker!Collect, Worker!Reap, Worker!CommCompletes,
                Worker!procVars
  <2>7. ASSUME NEW r \in Requests, InsideRun(r) PROVE Leader \notin live'[q]
    BY <2>3, <2>4, <2>5, <2>6, <2>7 DEF InsideRun, Worker!Supervise
  <2> QED
    BY <2>1, <2>2, <2>7 DEF Next
<1> QED
  BY InitServiceInv, NextServiceInv, <1>1, PTL DEF Spec, NoWorkForTheGone

\* The handlers use the slots only the way SlotQueue describes, so whatever
\* is proved of SlotQueue holds of the service.
THEOREM HandlersUseSlots == Spec => QueueSpec
<1>1. Init => Queue!Init
  BY DEF Init
<1>2. [Next]_vars => [Queue!Next]_(Queue!vars)
  <2> SUFFICES ASSUME [Next]_vars PROVE Queue!Next \/ UNCHANGED Queue!vars
    OBVIOUS
  <2>1. ASSUME NEW r \in Requests,
               \/ Arrive(r) \/ Poll(r) \/ AwaitSlot(r) \/ RefuseCancelled(r)
               \/ EnterRun(r) \/ Respond(r)
        PROVE  Queue!Next
    BY <2>1 DEF Arrive, Poll, AwaitSlot, RefuseCancelled, EnterRun, Respond,
                Queue!Next, Queue!Step
  <2>2. ASSUME NEW r \in Requests, Worker!Supervise(r)
        PROVE  UNCHANGED cancelled
    BY <2>2 DEF Worker!Supervise, Worker!Resume, Worker!Loop, Worker!WatchSeesResponse,
                Worker!WatchSeesCancel, Worker!GraceReturns, Worker!KillReturns,
                Worker!DrainReturns, Worker!WatchTimesOut, Worker!TaskCancelled,
                Worker!GraceExpires, Worker!Abandon, Worker!Collect,
                Worker!Reap, Worker!CommCompletes, Worker!Fork, Worker!Exit
  <2>3. ASSUME NEW r \in Requests, Disconnect(r) \/ InsideRun(r)
        PROVE  UNCHANGED Queue!vars
    BY <2>2, <2>3 DEF Disconnect, InsideRun, slotVars, Queue!vars, Queue!slotVars
  <2>4. CASE UNCHANGED vars
    BY <2>4 DEF vars, slotVars, Queue!vars, Queue!slotVars
  <2> QED
    BY <2>1, <2>3, <2>4 DEF Next
<1> QED
  BY <1>1, <1>2, PTL DEF Spec, QueueSpec, Queue!Spec

\* The whole service, with its workers, clients and monitors, implements the
\* abstract pool of worker slots: a request is queued, perhaps served, and
\* answered once, and at most Concurrency are served at a time.
THEOREM ServiceImplementsPool == Spec => QueueProofs!Pool!Spec
<1>1. Init => QueueProofs!Pool!Init
  BY DEF Init, Queue!Init, QueueProofs!Pool!Init, QueueProofs!PoolStatus,
         QueueProofs!StatusOf
<1>2. ServiceInv /\ [Next]_vars => [QueueProofs!Pool!Next]_(QueueProofs!PoolStatus)
  BY NextInQueue, QueueProofs!NextPool, SameFinite DEF ServiceInv
<1> QED
  BY <1>1, <1>2, InitServiceInv, NextServiceInv, PTL DEF Spec, QueueProofs!Pool!Spec

\* Every run inside the service is a run of WorkerProcess, whatever the slots and
\* the other requests do: the theorems about the workers hold in it.
THEOREM HandlersUseWorkers == Spec => WorkerProofs!Spec
<1>1. Init => WorkerProofs!Init
  BY SameInit DEF Init
<1>2. [Next]_vars => [WorkerProofs!Next]_(WorkerProofs!vars)
  BY NextInWorkers
<1> QED
  BY <1>1, <1>2, PTL DEF Spec, WorkerProofs!Spec

\* Once a request is answered, the Sage process it launched is gone and
\* collected; and if the cleanup signalled anybody to death, then whatever of its
\* group still lives is dying, unless a member survived SIGTERM and no SIGKILL met
\* it: only then can there be descendants that nobody will ever signal.
AnsweredLeavesNothing ==
    \A r \in Requests : slot[r] = "answered" =>
        /\ Leader \in forked[r] => Leader \notin live[r] /\ collected[r] /\ reaped[r]
        /\ doomed[r] # {} => \/ live[r] \subseteq doomed[r]
                             \/ /\ forked[r] \cap TermIgnorers # {}
                                /\ doomed[r] \cap TermIgnorers = {}

THEOREM AnsweredIsClean == Spec => []AnsweredLeavesNothing
<1>1. ServiceInv => AnsweredLeavesNothing
  <2> SUFFICES ASSUME ServiceInv, NEW r \in Requests, slot[r] = "answered"
               PROVE  /\ Leader \in forked[r]
                            => Leader \notin live[r] /\ collected[r] /\ reaped[r]
                      /\ doomed[r] # {} => \/ live[r] \subseteq doomed[r]
                                           \/ /\ forked[r] \cap TermIgnorers # {}
                                              /\ doomed[r] \cap TermIgnorers = {}
    BY DEF AnsweredLeavesNothing
  <2>1. phase[r] \in {"idle", "returned"}
    BY DEF ServiceInv, LinkInv
  <2>2. WorkerProofs!LeaderInv(r) /\ WorkerProofs!EscapeInv(r)
    BY DEF ServiceInv, WorkerProofs!WorkerInv, WorkerProofs!RunInv
  <2> QED
    BY <2>1, <2>2 DEF WorkerProofs!LeaderInv, WorkerProofs!EscapeInv
<1> QED
  BY <1>1, InitServiceInv, NextServiceInv, PTL DEF Spec

-----------------------------------------------------------------------------
(* Each request gets one response, and nobody waits in vain *)

\* A handler that is done has produced a response, and only such a handler.
RepliesMatch == \A r \in Requests : reply[r] # "none" <=> slot[r] = "answered"

\* A response that was produced is never replaced by another: neither the
\* cancellation of a request nor the finally clause that releases its slot makes
\* a second one (estimate and preflight, app.py:211-257).
ReplyStands == \A r \in Requests : reply[r] # "none" => reply'[r] = reply[r]

LEMMA NextReplies ==
    ASSUME AnswersInv, RepliesMatch, [Next]_vars
    PROVE  RepliesMatch' /\ ReplyStands
<1> SUFFICES ASSUME NEW q \in Requests
             PROVE  /\ slot'[q] = "answered" => reply'[q] # "none"
                    /\ reply[q] # "none" => reply'[q] = reply[q]
  <2>1. \A r \in Requests : reply'[r] # "none" => slot'[r] = "answered"
    BY NextAnswersInv DEF AnswersInv, ReplyInv
  <2> QED
    BY <2>1 DEF RepliesMatch, ReplyStands
<1>0. /\ slot \in [Requests -> QueueProofs!Slots] /\ QueueProofs!TypeOK
      /\ reply \in [Requests -> Replies]
      /\ reply[q] # "none" <=> slot[q] = "answered"
  BY InvTypes DEF AnswersInv, HttpTypeOK, RepliesMatch, ServiceInv, QueueProofs!SlotInv
<1>1. ASSUME UNCHANGED reply, slot'[q] = "answered" => slot[q] = "answered"
      PROVE  /\ slot'[q] = "answered" => reply'[q] # "none"
             /\ reply[q] # "none" => reply'[q] = reply[q]
  BY <1>0, <1>1
<1>2. ASSUME NEW r \in Requests, Arrive(r) \/ AwaitSlot(r)
      PROVE  UNCHANGED reply /\ (slot'[q] = "answered" => slot[q] = "answered")
  BY <1>0, <1>2 DEF Arrive, AwaitSlot, httpVars, Queue!Arrive, Queue!AcquireResumes,
                    Queue!WithdrawGranted, Queue!MoveAndGrant
<1>3. ASSUME NEW r \in Requests, RefuseCancelled(r) \/ Respond(r)
      PROVE  /\ slot'[q] = "answered" => reply'[q] # "none"
             /\ reply[q] # "none" => reply'[q] = reply[q]
  <2>1. /\ \/ Queue!Withdraw(r) \/ Queue!YieldPermit(r) \/ Queue!StopServing(r)
        /\ slot[r] # "answered"
    BY <1>3 DEF RefuseCancelled, Respond, Queue!Withdraw, Queue!YieldPermit,
                Queue!StopServing
  <2>2. PICK code : code # "none" /\ reply' = [reply EXCEPT ![r] = code]
    BY <1>3 DEF RefuseCancelled, Respond, Answer, ReplyTo
  <2>3. \/ slot'[q] = slot[q]
        \/ slot'[q] \notin {"serving", "answered"}
        \/ q = r
    BY <1>0, <2>1, SameQueueStep, QueueSlots
  <2> QED
    BY <1>0, <2>1, <2>2, <2>3
<1>4. ASSUME NEW r \in Requests, EnterRun(r)
      PROVE  UNCHANGED reply /\ (slot'[q] = "answered" => slot[q] = "answered")
  BY <1>0, <1>4 DEF EnterRun, Queue!StartServing, httpVars
<1>5. ASSUME NEW r \in Requests, InsideRun(r) \/ Disconnect(r) \/ Poll(r)
      PROVE  UNCHANGED <<reply, slot>>
  BY <1>5 DEF InsideRun, Disconnect, Poll, Queue!NoticeDisconnect, Queue!slotVars,
              slotVars, httpVars
<1>6. CASE UNCHANGED vars
  BY <1>1, <1>6 DEF vars, slotVars, httpVars
<1> QED
  BY <1>1, <1>2, <1>3, <1>4, <1>5, <1>6 DEF Next

LEMMA InitReplies == Init => RepliesMatch
  BY DEF Init, Queue!Init, RepliesMatch

\* A handler is done exactly when it has produced a response.
THEOREM AnsweredMeansReplied == Spec => []RepliesMatch
  BY InitAnswersInv, NextAnswersInv, InitReplies, NextReplies, PTL DEF Spec

\* Each request gets one response, whatever races around its end.
THEOREM EachAnsweredOnce == Spec => [][ReplyStands]_vars
<1>1. AnswersInv /\ RepliesMatch /\ [Next]_vars => [ReplyStands]_vars
  BY NextReplies
<1> QED
  BY <1>1, InitAnswersInv, NextAnswersInv, InitReplies, NextReplies, PTL DEF Spec

\* While a request waits for a slot, the handler of another one is between its
\* grant and its run, or inside a run that has begun: a waiter depends on work
\* under way, never on other waiters alone.
WaitersAwaitWork ==
    (\E q \in Requests : slot[q] = "waiting") =>
        \E r \in Requests : \/ slot[r] \in {"granted", "yielding", "acquired"}
                            \/ slot[r] = "serving" /\ phase[r] # "idle"

THEOREM NobodyWaitsInVain == Spec => []WaitersAwaitWork
<1>1. Init => QueueProofs!NoStrandedWaiter
  BY DEF Init, Queue!Init, QueueProofs!NoStrandedWaiter, QueueProofs!Waiting,
         QueueProofs!InSlot
<1>2. ServiceInv /\ QueueProofs!NoStrandedWaiter /\ [Next]_vars
        => QueueProofs!NoStrandedWaiter'
  BY NextInQueue, QueueProofs!NextNoStranded, SameFinite DEF ServiceInv
<1>3. ServiceInv /\ QueueProofs!NoStrandedWaiter => WaitersAwaitWork
  <2> SUFFICES ASSUME ServiceInv, QueueProofs!NoStrandedWaiter,
                      NEW q \in Requests, slot[q] = "waiting"
               PROVE  \E r \in Requests :
                         \/ slot[r] \in {"granted", "yielding", "acquired"}
                         \/ slot[r] = "serving" /\ phase[r] # "idle"
    BY DEF WaitersAwaitWork
  <2>1. QueueProofs!Waiting # {}
    BY DEF QueueProofs!Waiting, QueueProofs!InSlot
  <2>2. QueueProofs!Permits # {}
    BY <2>1, SameFinite, QueueProofs!AwaitHolder
       DEF ServiceInv, QueueProofs!WaitersAwaitHolder
  <2>3. PICK r \in Requests : slot[r] \in QueueProofs!PermitHolding
    BY <2>2 DEF QueueProofs!Permits, QueueProofs!InSlot
  <2> QED
    BY <2>3 DEF QueueProofs!PermitHolding, ServiceInv, LinkInv
<1> QED
  BY <1>1, <1>2, <1>3, InitServiceInv, NextServiceInv, PTL DEF Spec
=============================================================================
