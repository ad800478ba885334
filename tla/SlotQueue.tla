----------------------------- MODULE SlotQueue ------------------------------
(***************************************************************************)
(* The worker slots of src/src/app.py: the handlers of /v1/estimate and    *)
(* /v1/preflight share one asyncio.Semaphore, and each waits for a slot in *)
(* _acquire_or_cancel, which races semaphore.acquire() against the         *)
(* client's disconnection.                                                 *)
(*                                                                         *)
(* The semaphore is CPython's: a counter and a deque of futures.  A permit *)
(* handed to a waiter has left the counter although the waiter's task has  *)
(* not resumed, and that task may be cancelled before it does.  All steps  *)
(* are turns of one event loop.                                            *)
(***************************************************************************)
EXTENDS Integers, FiniteSets

CONSTANTS Requests,     \* the requests that may arrive
          Concurrency   \* LATTICE_ESTIMATOR_API_CONCURRENCY

ASSUME ConcurrencyAssumption == Concurrency \in Nat \ {0}
ASSUME RequestsAssumption == IsFiniteSet(Requests)

VARIABLES slot,        \* where the handler of a request is
          ticket,      \* its position in the deque of waiters, 0 if it has none
          nextTicket,  \* the position the next waiter gets
          value,       \* Semaphore._value
          cancelled    \* the asyncio.Event of the request's disconnect monitor

slotVars == <<slot, ticket, nextTicket, value>>
vars     == <<slot, ticket, nextTicket, value, cancelled>>

(***************************************************************************)
(*   absent    no such request yet                                         *)
(*   waiting   its future is pending in the deque                          *)
(*   granted   its future has a result, its acquire() has not resumed      *)
(*   yielding  granted, but acquire() is going to resume with a            *)
(*             CancelledError                                              *)
(*   acquired  acquire() is done, the handler has not resumed              *)
(*   serving   the handler is in SageProcessRunner.run                     *)
(*   answered  the handler has returned or raised                          *)
(***************************************************************************)
Slots == {"absent", "waiting", "granted", "yielding", "acquired", "serving",
          "answered"}

PermitHolding == {"granted", "yielding", "acquired", "serving"}

InSlot(S) == {r \in Requests : slot[r] \in S}
Waiting   == InSlot({"waiting"})
Permits   == InSlot(PermitHolding)
InDeque   == InSlot({"waiting", "granted", "yielding"})

TypeOK == /\ slot \in [Requests -> Slots]
          /\ ticket \in [Requests -> Nat]
          /\ nextTicket \in Nat \ {0}
          /\ value \in Nat
          /\ cancelled \in [Requests -> BOOLEAN]

Init == /\ slot = [r \in Requests |-> "absent"]
        /\ ticket = [r \in Requests |-> 0]
        /\ nextTicket = 1
        /\ value = Concurrency
        /\ cancelled = [r \in Requests |-> FALSE]

----------------------------------------------------------------------------
(* asyncio.Semaphore *)

\* faulty: the counter is not looked at
LockedByWaiters == InDeque # {}

\* Semaphore.locked(): a newcomer queues behind every future in the deque
\* that is not cancelled, even behind one that already has its permit
Locked == value = 0 \/ InDeque # {}

SmallerOf(m, n) == IF m < n THEN m ELSE n

\* faulty: the deque is searched from the wrong end
LastOf(S, n) ==
    {W \in SUBSET S : /\ Cardinality(W) = SmallerOf(n, Cardinality(S))
                      /\ \A a \in W, b \in S \ W : ticket[a] > ticket[b]}

\* what n calls of _wake_up_next() wake: the first n of the pending futures S
FirstOf(S, n) ==
    {W \in SUBSET S : /\ Cardinality(W) = SmallerOf(n, Cardinality(S))
                      /\ \A a \in W, b \in S \ W : ticket[a] < ticket[b]}

\* request r moves to slot s and the requests of W are granted permits out
\* of the v that are free
MoveAndGrant(r, s, W, v) ==
    /\ slot' = [q \in Requests |-> IF q = r THEN s
                                   ELSE IF q \in W THEN "granted" ELSE slot[q]]
    /\ value' = v - Cardinality(W)

\* faulty: acquire() leaves the deque without passing free permits on
WakesNobody(v) == {0}

\* Up to CPython 3.11 a task that leaves the deque with v free permits calls
\* _wake_up_next() once, if at all; later it repeats the call while one is free.
WakesOnLeaving(v) == {SmallerOf(1, v), v}

----------------------------------------------------------------------------
(* The handler *)

\* The handler starts its monitor and its acquisition task, and the latter
\* runs up to its first suspension point.
Arrive(r) ==
    /\ slot[r] = "absent"
    /\ IF Locked
       THEN /\ slot' = [slot EXCEPT ![r] = "waiting"]
            /\ ticket' = [ticket EXCEPT ![r] = nextTicket]
            /\ nextTicket' = nextTicket + 1
            /\ UNCHANGED value
       ELSE /\ slot' = [slot EXCEPT ![r] = "acquired"]
            /\ value' = value - 1
            /\ UNCHANGED <<ticket, nextTicket>>
    /\ UNCHANGED cancelled

\* acquire() resumes with its permit and leaves the deque.
AcquireResumes(r) ==
    /\ slot[r] = "granted"
    /\ \E n \in WakesOnLeaving(value) : \E W \in FirstOf(Waiting, n) :
          MoveAndGrant(r, "acquired", W, value)
    /\ UNCHANGED <<ticket, nextTicket, cancelled>>

\* The handler resumes with the acquisition done: it serves the request even
\* if the event is set as well.
StartServing(r) ==
    /\ slot[r] = "acquired"
    /\ slot' = [slot EXCEPT ![r] = "serving"]
    /\ UNCHANGED <<ticket, nextTicket, value, cancelled>>

\* The event is set and the acquisition is pending: its future is cancelled,
\* acquire() leaves the deque without a permit, the handler answers 499.
Withdraw(r) ==
    /\ slot[r] = "waiting"
    /\ cancelled[r]
    /\ \E n \in {0, value} : \E W \in FirstOf(Waiting \ {r}, n) :
          MoveAndGrant(r, "answered", W, value)
    /\ UNCHANGED <<ticket, nextTicket, cancelled>>

\* The event is set and the future already has its result: cancel() can only
\* make acquire() resume with a CancelledError.
WithdrawGranted(r) ==
    /\ slot[r] = "granted"
    /\ cancelled[r]
    /\ slot' = [slot EXCEPT ![r] = "yielding"]
    /\ UNCHANGED <<ticket, nextTicket, value, cancelled>>

\* acquire() gives the permit back and passes it on.
YieldPermit(r) ==
    /\ slot[r] = "yielding"
    /\ \E n \in WakesOnLeaving(value + 1) : \E W \in FirstOf(Waiting, n) :
          MoveAndGrant(r, "answered", W, value + 1)
    /\ UNCHANGED <<ticket, nextTicket, cancelled>>

\* faulty: the finally clause does not release the slot
StopWithoutRelease(r) ==
    /\ slot[r] = "serving"
    /\ slot' = [slot EXCEPT ![r] = "answered"]
    /\ UNCHANGED <<ticket, nextTicket, value, cancelled>>

\* run() is over, normally or not: the finally clause releases the slot.
StopServing(r) ==
    /\ slot[r] = "serving"
    /\ \E W \in FirstOf(Waiting, 1) : MoveAndGrant(r, "answered", W, value + 1)
    /\ UNCHANGED <<ticket, nextTicket, cancelled>>

\* _monitor_disconnect polls, sees the disconnection and sets the event.
NoticeDisconnect(r) ==
    /\ slot[r] \notin {"absent", "answered"}
    /\ ~cancelled[r]
    /\ cancelled' = [cancelled EXCEPT ![r] = TRUE]
    /\ UNCHANGED slotVars

----------------------------------------------------------------------------
Step(r) == \/ AcquireResumes(r)
           \/ StartServing(r)
           \/ Withdraw(r)
           \/ WithdrawGranted(r)
           \/ YieldPermit(r)

Next == \E r \in Requests : \/ Arrive(r)
                            \/ Step(r)
                            \/ StopServing(r)
                            \/ NoticeDisconnect(r)

Spec == Init /\ [][Next]_vars

\* The event loop runs every task that is ready, and run() ends.
FairSpec == /\ Spec
            /\ \A r \in Requests : WF_vars(Step(r)) /\ WF_vars(StopServing(r))

----------------------------------------------------------------------------
(* Properties *)

\* No permit is lost or duplicated: what the semaphore still has and what
\* requests hold, in whichever stage of the hand-over, add up to Concurrency.
SlotConservation == value + Cardinality(Permits) = Concurrency

\* A free slot next to a waiting request is transient: somebody in the deque
\* is still going to resume, and waking others is up to them.
NoStrandedWaiter ==
    value > 0 /\ Waiting # {} => InSlot({"granted", "yielding"}) # {}

\* Nobody overtakes: a request gets a permit only when no request that
\* queued before it is still waiting.
KeepsOrder ==
    \A r, q \in Requests :
        /\ slot[r] \notin PermitHolding /\ slot'[r] \in PermitHolding
        /\ slot[q] = "waiting" /\ slot'[q] = "waiting"
        => slot[r] = "waiting" /\ ticket[r] < ticket[q]

FirstComeFirstServed == [][KeepsOrder]_vars

\* The slots implement the abstract pool: everything before "serving" is
\* being queued.
StatusOf(s) == IF s \in {"absent", "serving", "answered"} THEN s ELSE "queued"

PoolStatus == [r \in Requests |-> StatusOf(slot[r])]

Pool == INSTANCE WorkerPool WITH status <- PoolStatus
PoolFairSpec == Pool!FairSpec
=============================================================================
