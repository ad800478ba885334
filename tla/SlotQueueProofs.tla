-------------------------- MODULE SlotQueueProofs ---------------------------
(***************************************************************************)
(* Theorems about SlotQueue, for every finite set of requests and every    *)
(* number of slots.  The inductive invariant is SlotInv: the typing and    *)
(* the conservation of permits need each other, since value' \in Nat holds *)
(* only because no more waiters are woken than permits are free.           *)
(***************************************************************************)
EXTENDS SlotQueue, FiniteSetTheorems, TLAPS

USE ConcurrencyAssumption, RequestsAssumption

SlotInv == TypeOK /\ SlotConservation

-----------------------------------------------------------------------------
(* Lemmas about sets of requests and about the wake-up *)

\* Sets of requests are finite, so their cardinalities are naturals.
LEMMA RequestsFinite ==
    ASSUME NEW S \in SUBSET Requests
    PROVE  IsFiniteSet(S) /\ Cardinality(S) \in Nat
  BY FS_Subset, FS_CardinalityType

\* Granting permits to requests that hold none adds their number.
LEMMA GrantAdds ==
    ASSUME NEW P \in SUBSET Requests, NEW W \in SUBSET Requests, P \cap W = {}
    PROVE  Cardinality(P \cup W) = Cardinality(P) + Cardinality(W)
<1>1. /\ IsFiniteSet(P) /\ IsFiniteSet(W)
      /\ Cardinality(P) \in Nat /\ Cardinality(W) \in Nat
  BY RequestsFinite
<1>2. Cardinality(P \cup W)
        = Cardinality(P) + Cardinality(W) - Cardinality(P \cap W)
  BY <1>1, FS_Union
<1>3. Cardinality(P \cap W) = 0
  BY FS_EmptySet
<1> QED
  BY <1>1, <1>2, <1>3

\* Giving one permit back leaves one less.
LEMMA GiveBackSubtracts ==
    ASSUME NEW P \in SUBSET Requests, NEW r \in P
    PROVE  Cardinality(P \ {r}) = Cardinality(P) - 1
  BY RequestsFinite, FS_RemoveElement

\* The woken requests are pending, at most n, and at least one if n is
\* positive and somebody is pending.
LEMMA FirstOfBounds ==
    ASSUME NEW S \in SUBSET Requests, NEW n \in Nat, NEW W \in FirstOf(S, n)
    PROVE  /\ W \in SUBSET S
           /\ Cardinality(W) \in Nat
           /\ Cardinality(W) <= n
           /\ n > 0 /\ S # {} => W # {}
<1>1. /\ W \in SUBSET S
      /\ Cardinality(W) = SmallerOf(n, Cardinality(S))
  BY DEF FirstOf
<1>2. IsFiniteSet(S) /\ Cardinality(S) \in Nat
  BY RequestsFinite
<1>3. Cardinality(W) \in Nat /\ Cardinality(W) <= n
  BY <1>1, <1>2 DEF SmallerOf
<1>4. ASSUME n > 0, S # {} PROVE W # {}
  <2>1. Cardinality(S) > 0
    BY <1>2, <1>4, FS_EmptySet
  <2>2. Cardinality(W) > 0
    BY <1>1, <1>2, <1>4, <2>1 DEF SmallerOf
  <2> QED
    BY <2>2, FS_EmptySet
<1> QED
  BY <1>1, <1>3, <1>4

\* What a hand-over does to the set of permit holders.
LEMMA MoveAndGrantPermits ==
    ASSUME slot \in [Requests -> Slots],
           NEW r \in Requests, NEW s \in Slots, NEW v \in Nat,
           NEW W \in SUBSET (Waiting \ {r}), MoveAndGrant(r, s, W, v)
    PROVE  /\ slot' \in [Requests -> Slots]
           /\ Permits' = (IF s \in PermitHolding THEN Permits \cup {r}
                                                 ELSE Permits \ {r}) \cup W
           /\ W \in SUBSET Requests /\ W \cap Permits = {}
<1>1. slot' = [q \in Requests |-> IF q = r THEN s
                                  ELSE IF q \in W THEN "granted" ELSE slot[q]]
  BY DEF MoveAndGrant
<1>2. W \in SUBSET Requests /\ W \cap Permits = {} /\ r \notin W
  BY DEF Waiting, Permits, InSlot, PermitHolding
<1>3. slot' \in [Requests -> Slots]
  BY <1>1 DEF Slots
<1>4. ASSUME NEW q \in Requests
      PROVE  q \in Permits' <=> q \in (IF s \in PermitHolding THEN Permits \cup {r}
                                       ELSE Permits \ {r}) \cup W
  BY <1>1, <1>2 DEF Permits, InSlot, PermitHolding
<1> QED
  BY <1>2, <1>3, <1>4 DEF Permits, InSlot

-----------------------------------------------------------------------------
(* Permits are conserved *)

LEMMA InitSlotInv == Init => SlotInv
<1> SUFFICES ASSUME Init PROVE SlotInv
  OBVIOUS
<1>1. TypeOK
  BY DEF Init, TypeOK, Slots
<1>2. Permits = {}
  BY DEF Init, Permits, InSlot, PermitHolding
<1> QED
  BY <1>1, <1>2, FS_EmptySet DEF SlotInv, SlotConservation, Init

\* A request that gives its permit back (v = value + 1) or has none to give
\* (v = value), while at most v waiters are woken, keeps the invariant.
LEMMA HandOverKeepsSlotInv ==
    ASSUME SlotInv, NEW r \in Requests, NEW s \in Slots, NEW n \in Nat,
           NEW v \in Nat, n <= v,
           NEW W \in FirstOf(Waiting \ {r}, n), MoveAndGrant(r, s, W, v),
           \/ r \in Permits /\ s \in PermitHolding /\ v = value
           \/ r \notin Permits /\ s \notin PermitHolding /\ v = value
           \/ r \in Permits /\ s \notin PermitHolding /\ v = value + 1,
           UNCHANGED <<ticket, nextTicket, cancelled>>
    PROVE  SlotInv'
<1> DEFINE P == IF s \in PermitHolding THEN Permits \cup {r} ELSE Permits \ {r}
<1>1. Permits \in SUBSET Requests /\ Waiting \ {r} \in SUBSET Requests
  BY DEF Permits, Waiting, InSlot
<1>2. /\ W \in SUBSET (Waiting \ {r})
      /\ Cardinality(W) \in Nat /\ Cardinality(W) <= n
  BY <1>1, FirstOfBounds
<1>3. /\ slot' \in [Requests -> Slots]
      /\ Permits' = P \cup W
      /\ W \in SUBSET Requests /\ W \cap Permits = {}
  BY <1>2, MoveAndGrantPermits DEF SlotInv, TypeOK
<1>4. value' = v - Cardinality(W)
  BY DEF MoveAndGrant
<1>5. TypeOK'
  BY <1>2, <1>3, <1>4 DEF SlotInv, TypeOK
<1>6. Cardinality(P) = Cardinality(Permits) + value - v
  <2>1. Cardinality(Permits) \in Nat /\ value \in Nat
    BY <1>1, RequestsFinite DEF SlotInv, TypeOK
  <2>2. CASE v = value
    <3>1. P = Permits
      BY <2>2, <2>1
    <3> QED
      BY <2>1, <2>2, <3>1
  <2>3. CASE r \in Permits /\ s \notin PermitHolding /\ v = value + 1
    <3>1. Cardinality(Permits \ {r}) = Cardinality(Permits) - 1
      BY <1>1, <2>3, GiveBackSubtracts
    <3> QED
      BY <2>1, <2>3, <3>1
  <2> QED
    BY <2>2, <2>3
<1>7. P \in SUBSET Requests /\ P \cap W = {}
  BY <1>1, <1>2, <1>3
<1>8. Cardinality(Permits') = Cardinality(P) + Cardinality(W)
  BY <1>3, <1>7, GrantAdds
<1>9. SlotConservation'
  <2>1. Cardinality(Permits) \in Nat /\ value \in Nat
    BY <1>1, RequestsFinite DEF SlotInv, TypeOK
  <2> QED
    BY <1>2, <1>4, <1>6, <1>8, <2>1 DEF SlotInv, SlotConservation
<1> QED
  BY <1>5, <1>9 DEF SlotInv

\* What acquire() may wake when it leaves the deque is bounded by what is free.
LEMMA WakesBounded ==
    ASSUME NEW v \in Nat, NEW n \in WakesOnLeaving(v)
    PROVE  n \in Nat /\ n <= v /\ (v > 0 => n > 0)
  BY DEF WakesOnLeaving, SmallerOf

\* Only the request that moves can leave the set of pending requests.
LEMMA WaitingWithout ==
    ASSUME NEW r \in Requests, slot[r] # "waiting"
    PROVE  Waiting \ {r} = Waiting
  BY DEF Waiting, InSlot

LEMMA NextSlotInv == SlotInv /\ [Next]_vars => SlotInv'
<1> SUFFICES ASSUME SlotInv, [Next]_vars
             PROVE  SlotInv'
  OBVIOUS
<1>0. /\ TypeOK /\ SlotConservation
      /\ Permits \in SUBSET Requests
      /\ Cardinality(Permits) \in Nat /\ value \in Nat
  BY RequestsFinite DEF SlotInv, TypeOK, Permits, InSlot
<1>1. ASSUME NEW r \in Requests, Arrive(r)
      PROVE  SlotInv'
  <2>1. CASE Locked
    <3>1. /\ slot[r] = "absent"
          /\ slot' = [slot EXCEPT ![r] = "waiting"]
          /\ ticket' = [ticket EXCEPT ![r] = nextTicket]
          /\ nextTicket' = nextTicket + 1
          /\ value' = value /\ cancelled' = cancelled
      BY <1>1, <2>1 DEF Arrive
    <3>2. TypeOK'
      BY <1>0, <3>1 DEF TypeOK, Slots
    <3>3. Permits' = Permits
      BY <1>0, <3>1 DEF TypeOK, Permits, InSlot, PermitHolding
    <3> QED
      BY <1>0, <3>1, <3>2, <3>3 DEF SlotInv, SlotConservation
  <2>2. CASE ~Locked
    <3>1. /\ slot[r] = "absent"
          /\ slot' = [slot EXCEPT ![r] = "acquired"]
          /\ value' = value - 1
          /\ UNCHANGED <<ticket, nextTicket, cancelled>>
          /\ value # 0
      BY <1>1, <2>2 DEF Arrive, Locked
    <3>2. TypeOK'
      BY <1>0, <3>1 DEF TypeOK, Slots
    <3>3. Permits' = Permits \cup {r} /\ r \notin Permits
      BY <1>0, <3>1 DEF TypeOK, Permits, InSlot, PermitHolding
    <3>4. Cardinality(Permits') = Cardinality(Permits) + 1
      BY <1>0, <3>3, RequestsFinite, FS_AddElement
    <3> QED
      BY <1>0, <3>1, <3>2, <3>4 DEF SlotInv, SlotConservation
  <2> QED
    BY <2>1, <2>2
<1>2. ASSUME NEW r \in Requests, AcquireResumes(r)
      PROVE  SlotInv'
  <2>1. slot[r] = "granted" /\ UNCHANGED <<ticket, nextTicket, cancelled>>
    BY <1>2 DEF AcquireResumes
  <2>2. Waiting \ {r} = Waiting /\ r \in Permits
    BY <2>1, WaitingWithout DEF Permits, InSlot, PermitHolding
  <2>3. PICK n \in WakesOnLeaving(value) : \E W \in FirstOf(Waiting, n) :
           MoveAndGrant(r, "acquired", W, value)
    BY <1>2 DEF AcquireResumes
  <2>4. PICK W \in FirstOf(Waiting, n) : MoveAndGrant(r, "acquired", W, value)
    BY <2>3
  <2>5. n \in Nat /\ n <= value
    BY <1>0, <2>3, WakesBounded
  <2>6. "acquired" \in Slots /\ "acquired" \in PermitHolding
    BY DEF Slots, PermitHolding
  <2> QED
    BY <1>0, <2>1, <2>2, <2>3, <2>4, <2>5, <2>6, HandOverKeepsSlotInv
<1>3. ASSUME NEW r \in Requests, StartServing(r)
      PROVE  SlotInv'
  <2>1. /\ slot[r] = "acquired" /\ slot' = [slot EXCEPT ![r] = "serving"]
        /\ UNCHANGED <<ticket, nextTicket, value, cancelled>>
    BY <1>3 DEF StartServing
  <2>2. TypeOK'
    BY <1>0, <2>1 DEF TypeOK, Slots
  <2>3. Permits' = Permits
    BY <1>0, <2>1 DEF TypeOK, Permits, InSlot, PermitHolding
  <2> QED
    BY <1>0, <2>1, <2>2, <2>3 DEF SlotInv, SlotConservation
<1>4. ASSUME NEW r \in Requests, Withdraw(r)
      PROVE  SlotInv'
  <2>1. slot[r] = "waiting" /\ UNCHANGED <<ticket, nextTicket, cancelled>>
    BY <1>4 DEF Withdraw
  <2>2. r \notin Permits
    BY <2>1 DEF Permits, InSlot, PermitHolding
  <2>3. PICK n \in {0, value} : \E W \in FirstOf(Waiting \ {r}, n) :
           MoveAndGrant(r, "answered", W, value)
    BY <1>4 DEF Withdraw
  <2>4. PICK W \in FirstOf(Waiting \ {r}, n) : MoveAndGrant(r, "answered", W, value)
    BY <2>3
  <2>5. n \in Nat /\ n <= value
    BY <1>0, <2>3
  <2>6. "answered" \in Slots /\ "answered" \notin PermitHolding
    BY DEF Slots, PermitHolding
  <2> QED
    BY <1>0, <2>1, <2>2, <2>3, <2>4, <2>5, <2>6, HandOverKeepsSlotInv
<1>5. ASSUME NEW r \in Requests, WithdrawGranted(r)
      PROVE  SlotInv'
  <2>1. /\ slot[r] = "granted" /\ slot' = [slot EXCEPT ![r] = "yielding"]
        /\ UNCHANGED <<ticket, nextTicket, value, cancelled>>
    BY <1>5 DEF WithdrawGranted
  <2>2. TypeOK'
    BY <1>0, <2>1 DEF TypeOK, Slots
  <2>3. Permits' = Permits
    BY <1>0, <2>1 DEF TypeOK, Permits, InSlot, PermitHolding
  <2> QED
    BY <1>0, <2>1, <2>2, <2>3 DEF SlotInv, SlotConservation
<1>6. ASSUME NEW r \in Requests, YieldPermit(r)
      PROVE  SlotInv'
  <2>1. slot[r] = "yielding" /\ UNCHANGED <<ticket, nextTicket, cancelled>>
    BY <1>6 DEF YieldPermit
  <2>2. Waiting \ {r} = Waiting /\ r \in Permits
    BY <2>1, WaitingWithout DEF Permits, InSlot, PermitHolding
  <2>3. PICK n \in WakesOnLeaving(value + 1) : \E W \in FirstOf(Waiting, n) :
           MoveAndGrant(r, "answered", W, value + 1)
    BY <1>6 DEF YieldPermit
  <2>4. PICK W \in FirstOf(Waiting, n) : MoveAndGrant(r, "answered", W, value + 1)
    BY <2>3
  <2>5. value + 1 \in Nat /\ n \in Nat /\ n <= value + 1
    BY <1>0, <2>3, WakesBounded
  <2>6. "answered" \in Slots /\ "answered" \notin PermitHolding
    BY DEF Slots, PermitHolding
  <2> QED
    BY <1>0, <2>1, <2>2, <2>3, <2>4, <2>5, <2>6, HandOverKeepsSlotInv
<1>7. ASSUME NEW r \in Requests, StopServing(r)
      PROVE  SlotInv'
  <2>1. slot[r] = "serving" /\ UNCHANGED <<ticket, nextTicket, cancelled>>
    BY <1>7 DEF StopServing
  <2>2. Waiting \ {r} = Waiting /\ r \in Permits
    BY <2>1, WaitingWithout DEF Permits, InSlot, PermitHolding
  <2>3. PICK W \in FirstOf(Waiting, 1) : MoveAndGrant(r, "answered", W, value + 1)
    BY <1>7 DEF StopServing
  <2>4. value + 1 \in Nat /\ 1 <= value + 1
    BY <1>0
  <2>5. "answered" \in Slots /\ "answered" \notin PermitHolding
    BY DEF Slots, PermitHolding
  <2> QED
    BY <1>0, <2>1, <2>2, <2>3, <2>4, <2>5, HandOverKeepsSlotInv
<1>8. ASSUME NEW r \in Requests, NoticeDisconnect(r)
      PROVE  SlotInv'
  BY <1>0, <1>8 DEF NoticeDisconnect, slotVars, SlotInv, TypeOK, SlotConservation,
                    Permits, InSlot
<1>9. CASE UNCHANGED vars
  BY <1>0, <1>9 DEF vars, SlotInv, TypeOK, SlotConservation, Permits, InSlot
<1> QED
  BY <1>1, <1>2, <1>3, <1>4, <1>5, <1>6, <1>7, <1>8, <1>9 DEF Next, Step

\* The variables keep their types, and value never becomes negative although
\* grants are taken from it in several places.
THEOREM SlotQueueTypeOK == Spec => []TypeOK
<1>1. SlotInv => TypeOK
  BY DEF SlotInv
<1> QED
  BY InitSlotInv, NextSlotInv, <1>1, PTL DEF Spec

\* Permits are conserved: none is leaked or duplicated by cancellations that
\* race the hand-over of a slot (_acquire_or_cancel and the finally clauses).
THEOREM PermitsConserved == Spec => []SlotConservation
<1>1. SlotInv => SlotConservation
  BY DEF SlotInv
<1> QED
  BY InitSlotInv, NextSlotInv, <1>1, PTL DEF Spec

-----------------------------------------------------------------------------
(* No waiter is stranded *)

\* Somebody in the deque is still going to resume.
Resuming == InSlot({"granted", "yielding"})

\* A hand-over that may wake somebody whenever a permit is free.
LEMMA HandOverKeepsWatch ==
    ASSUME SlotInv, NEW r \in Requests, NEW s \in {"acquired", "answered"},
           NEW n \in Nat, NEW v \in Nat, v > 0 => n > 0,
           NEW W \in FirstOf(Waiting \ {r}, n), MoveAndGrant(r, s, W, v)
    PROVE  NoStrandedWaiter'
<1>1. Waiting \ {r} \in SUBSET Requests
  BY DEF Waiting, InSlot
<1>2. /\ W \in SUBSET (Waiting \ {r}) /\ Cardinality(W) \in Nat
      /\ n > 0 /\ Waiting \ {r} # {} => W # {}
  BY <1>1, FirstOfBounds
<1>3. Waiting' \subseteq Waiting \ {r}
  BY DEF MoveAndGrant, Waiting, InSlot
<1>4. value' <= v
  BY <1>2 DEF MoveAndGrant
<1>5. \A q \in W : slot'[q] = "granted"
  BY <1>1, <1>2 DEF MoveAndGrant
<1>6. ASSUME value' > 0, Waiting' # {} PROVE Resuming' # {}
  <2>1. value' \in Int
    BY <1>2 DEF MoveAndGrant
  <2>2. W # {}
    BY <1>2, <1>3, <1>4, <1>6, <2>1
  <2> QED
    BY <1>1, <1>2, <1>5, <2>2 DEF Resuming, InSlot
<1> QED
  BY <1>6 DEF NoStrandedWaiter, Resuming

LEMMA NextNoStranded ==
    SlotInv /\ NoStrandedWaiter /\ [Next]_vars => NoStrandedWaiter'
<1> SUFFICES ASSUME SlotInv, NoStrandedWaiter, [Next]_vars
             PROVE  NoStrandedWaiter'
  OBVIOUS
<1>0. TypeOK /\ value \in Nat
  BY DEF SlotInv, TypeOK
<1>1. ASSUME NEW r \in Requests, Arrive(r)
      PROVE  NoStrandedWaiter'
  <2>1. slot[r] = "absent" /\ Resuming' = Resuming
    BY <1>0, <1>1 DEF Arrive, TypeOK, Resuming, InSlot
  <2>2. CASE Locked
    <3>1. value' = value /\ (value = 0 \/ InDeque # {})
      BY <1>1, <2>2 DEF Arrive, Locked
    <3>2. InDeque = Waiting \cup Resuming
      BY DEF InDeque, Waiting, Resuming, InSlot
    <3> QED
      BY <1>0, <2>1, <3>1, <3>2 DEF NoStrandedWaiter, Resuming
  <2>3. CASE ~Locked
    <3>1. Waiting = {} /\ slot' = [slot EXCEPT ![r] = "acquired"]
      BY <1>1, <2>3 DEF Arrive, Locked, InDeque, Waiting, InSlot
    <3>2. Waiting' = {}
      BY <1>0, <3>1 DEF TypeOK, Waiting, InSlot
    <3> QED
      BY <3>2 DEF NoStrandedWaiter
  <2> QED
    BY <2>2, <2>3
<1>2. ASSUME NEW r \in Requests, AcquireResumes(r)
      PROVE  NoStrandedWaiter'
  <2>1. Waiting \ {r} = Waiting
    BY <1>2, WaitingWithout DEF AcquireResumes
  <2>2. PICK n \in WakesOnLeaving(value) : \E W \in FirstOf(Waiting, n) :
           MoveAndGrant(r, "acquired", W, value)
    BY <1>2 DEF AcquireResumes
  <2>3. n \in Nat /\ (value > 0 => n > 0)
    BY <1>0, <2>2, WakesBounded
  <2> QED
    BY <1>0, <2>1, <2>2, <2>3, HandOverKeepsWatch
<1>3. ASSUME NEW r \in Requests, StartServing(r)
      PROVE  NoStrandedWaiter'
  <2>1. Waiting' = Waiting /\ Resuming' = Resuming /\ value' = value
    BY <1>0, <1>3 DEF StartServing, TypeOK, Waiting, Resuming, InSlot
  <2> QED
    BY <2>1 DEF NoStrandedWaiter, Resuming
<1>4. ASSUME NEW r \in Requests, Withdraw(r)
      PROVE  NoStrandedWaiter'
  <2>1. PICK n \in {0, value} : \E W \in FirstOf(Waiting \ {r}, n) :
           MoveAndGrant(r, "answered", W, value)
    BY <1>4 DEF Withdraw
  <2>2. PICK W \in FirstOf(Waiting \ {r}, n) : MoveAndGrant(r, "answered", W, value)
    BY <2>1
  <2>3. n \in Nat /\ Waiting \ {r} \in SUBSET Requests
    BY <1>0, <2>1 DEF Waiting, InSlot
  <2>4. W \in SUBSET (Waiting \ {r}) /\ Cardinality(W) \in Nat
    BY <2>3, FirstOfBounds
  <2>5. /\ Waiting' \subseteq Waiting /\ value' <= value /\ value' \in Int
        /\ Resuming \subseteq Resuming'
    BY <1>0, <1>4, <2>2, <2>4
       DEF Withdraw, MoveAndGrant, TypeOK, Waiting, Resuming, InSlot
  <2> QED
    BY <1>0, <2>5 DEF NoStrandedWaiter, Resuming
<1>5. ASSUME NEW r \in Requests, WithdrawGranted(r)
      PROVE  NoStrandedWaiter'
  <2>1. Waiting' = Waiting /\ Resuming' = Resuming /\ value' = value
    BY <1>0, <1>5 DEF WithdrawGranted, TypeOK, Waiting, Resuming, InSlot
  <2> QED
    BY <2>1 DEF NoStrandedWaiter, Resuming
<1>6. ASSUME NEW r \in Requests, YieldPermit(r)
      PROVE  NoStrandedWaiter'
  <2>1. Waiting \ {r} = Waiting
    BY <1>6, WaitingWithout DEF YieldPermit
  <2>2. PICK n \in WakesOnLeaving(value + 1) : \E W \in FirstOf(Waiting, n) :
           MoveAndGrant(r, "answered", W, value + 1)
    BY <1>6 DEF YieldPermit
  <2>3. value + 1 \in Nat /\ n \in Nat /\ (value + 1 > 0 => n > 0)
    BY <1>0, <2>2, WakesBounded
  <2> QED
    BY <2>1, <2>2, <2>3, HandOverKeepsWatch
<1>7. ASSUME NEW r \in Requests, StopServing(r)
      PROVE  NoStrandedWaiter'
  <2>1. Waiting \ {r} = Waiting
    BY <1>7, WaitingWithout DEF StopServing
  <2>2. PICK W \in FirstOf(Waiting, 1) : MoveAndGrant(r, "answered", W, value + 1)
    BY <1>7 DEF StopServing
  <2>3. value + 1 \in Nat /\ 1 \in Nat /\ 1 > 0
    BY <1>0
  <2>4. "answered" \in {"acquired", "answered"} /\ W \in FirstOf(Waiting \ {r}, 1)
    BY <2>1, <2>2
  <2> QED
    BY <2>2, <2>3, <2>4, HandOverKeepsWatch
<1>8. ASSUME NEW r \in Requests, NoticeDisconnect(r)
      PROVE  NoStrandedWaiter'
  BY <1>8 DEF NoticeDisconnect, slotVars, NoStrandedWaiter, Waiting, InSlot
<1>9. CASE UNCHANGED vars
  BY <1>9 DEF vars, NoStrandedWaiter, Waiting, InSlot
<1> QED
  BY <1>1, <1>2, <1>3, <1>4, <1>5, <1>6, <1>7, <1>8, <1>9 DEF Next, Step

\* A free slot never stays next to a waiting request unless a task of the
\* deque is still going to resume and to pass it on.
THEOREM NobodyStranded == Spec => []NoStrandedWaiter
<1>1. Init => NoStrandedWaiter
  BY DEF Init, NoStrandedWaiter, Waiting, InSlot
<1> QED
  BY <1>1, InitSlotInv, NextSlotInv, NextNoStranded, PTL DEF Spec

-----------------------------------------------------------------------------
(* Nobody overtakes *)

\* Whoever is granted a permit by a hand-over queued before whoever is left
\* waiting; the request that moves is not among those left.
LEMMA HandOverKeepsOrder ==
    ASSUME slot \in [Requests -> Slots], NEW r \in Requests, NEW s \in Slots,
           s = "acquired" => slot[r] = "granted", s # "waiting",
           s \in {"acquired", "answered"},
           NEW n \in Nat, NEW v \in Nat,
           NEW W \in FirstOf(Waiting \ {r}, n), MoveAndGrant(r, s, W, v)
    PROVE  KeepsOrder
<1> SUFFICES ASSUME NEW a \in Requests, NEW q \in Requests,
                    slot[a] \notin PermitHolding, slot'[a] \in PermitHolding,
                    slot[q] = "waiting", slot'[q] = "waiting"
             PROVE  slot[a] = "waiting" /\ ticket[a] < ticket[q]
  BY DEF KeepsOrder
<1>1. /\ W \in SUBSET (Waiting \ {r})
      /\ \A i \in W, j \in (Waiting \ {r}) \ W : ticket[i] < ticket[j]
  BY DEF FirstOf
<1>2. \A i \in Requests : slot'[i] = IF i = r THEN s
                                     ELSE IF i \in W THEN "granted" ELSE slot[i]
  BY DEF MoveAndGrant
<1>3. a # r /\ a \in W
  BY <1>2 DEF PermitHolding
<1>4. q # r /\ q \notin W /\ q \in Waiting
  BY <1>2 DEF Waiting, InSlot
<1> QED
  BY <1>1, <1>3, <1>4 DEF Waiting, InSlot

LEMMA NextKeepsOrder == SlotInv /\ [Next]_vars => [KeepsOrder]_vars
<1> SUFFICES ASSUME SlotInv, Next
             PROVE  KeepsOrder
  BY DEF vars, KeepsOrder
<1>0. slot \in [Requests -> Slots] /\ value \in Nat
  BY DEF SlotInv, TypeOK
<1>1. ASSUME NEW r \in Requests, Arrive(r)
      PROVE  KeepsOrder
  <2>1. CASE Locked
    BY <1>0, <1>1, <2>1 DEF Arrive, KeepsOrder, PermitHolding
  <2>2. CASE ~Locked
    <3>1. \A q \in Requests : slot[q] # "waiting"
      BY <2>2 DEF Locked, InDeque, InSlot
    <3> QED
      BY <3>1 DEF KeepsOrder
  <2> QED
    BY <2>1, <2>2
<1>2. ASSUME NEW r \in Requests, AcquireResumes(r)
      PROVE  KeepsOrder
  <2>1. slot[r] = "granted" /\ Waiting \ {r} = Waiting
    BY <1>2, WaitingWithout DEF AcquireResumes
  <2>2. PICK n \in WakesOnLeaving(value) : \E W \in FirstOf(Waiting, n) :
           MoveAndGrant(r, "acquired", W, value)
    BY <1>2 DEF AcquireResumes
  <2>3. n \in Nat /\ "acquired" \in Slots
    BY <1>0, <2>2, WakesBounded DEF Slots
  <2> QED
    BY <1>0, <2>1, <2>2, <2>3, HandOverKeepsOrder
<1>3. ASSUME NEW r \in Requests, Withdraw(r)
      PROVE  KeepsOrder
  <2>1. PICK n \in {0, value} : \E W \in FirstOf(Waiting \ {r}, n) :
           MoveAndGrant(r, "answered", W, value)
    BY <1>3 DEF Withdraw
  <2>2. n \in Nat /\ "answered" \in Slots
    BY <1>0, <2>1 DEF Slots
  <2> QED
    BY <1>0, <2>1, <2>2, HandOverKeepsOrder
<1>4. ASSUME NEW r \in Requests, YieldPermit(r)
      PROVE  KeepsOrder
  <2>1. Waiting \ {r} = Waiting
    BY <1>4, WaitingWithout DEF YieldPermit
  <2>2. PICK n \in WakesOnLeaving(value + 1) : \E W \in FirstOf(Waiting, n) :
           MoveAndGrant(r, "answered", W, value + 1)
    BY <1>4 DEF YieldPermit
  <2>3. value + 1 \in Nat /\ n \in Nat /\ "answered" \in Slots
    BY <1>0, <2>2, WakesBounded DEF Slots
  <2> QED
    BY <1>0, <2>1, <2>2, <2>3, HandOverKeepsOrder
<1>5. ASSUME NEW r \in Requests, StopServing(r)
      PROVE  KeepsOrder
  <2>1. Waiting \ {r} = Waiting
    BY <1>5, WaitingWithout DEF StopServing
  <2>2. PICK W \in FirstOf(Waiting, 1) : MoveAndGrant(r, "answered", W, value + 1)
    BY <1>5 DEF StopServing
  <2>3. value + 1 \in Nat /\ 1 \in Nat /\ "answered" \in Slots
    BY <1>0 DEF Slots
  <2> QED
    BY <1>0, <2>1, <2>2, <2>3, HandOverKeepsOrder
<1>6. ASSUME NEW r \in Requests,
             StartServing(r) \/ WithdrawGranted(r) \/ NoticeDisconnect(r)
      PROVE  KeepsOrder
  BY <1>0, <1>6 DEF StartServing, WithdrawGranted, NoticeDisconnect, slotVars,
                    KeepsOrder, PermitHolding
<1> QED
  BY <1>1, <1>2, <1>3, <1>4, <1>5, <1>6 DEF Next, Step

\* A slot goes to the request that has queued longest, whatever is withdrawn,
\* given back or granted in the meantime.
THEOREM NobodyOvertakes == Spec => FirstComeFirstServed
  BY InitSlotInv, NextSlotInv, NextKeepsOrder, PTL DEF Spec, FirstComeFirstServed

-----------------------------------------------------------------------------
(* Whoever waits, waits for somebody, and nobody goes back *)

\* As long as a request waits, another one holds a permit that it is going to
\* give back or to pass on: a queue of waiters alone cannot come about, neither
\* by cancellations in the hand-over nor by a permit that nobody looks after
\* (_acquire_or_cancel, app.py:263-281, and the finally clauses).
WaitersAwaitHolder == Waiting # {} => Permits # {}

LEMMA AwaitHolder == SlotInv /\ NoStrandedWaiter => WaitersAwaitHolder
<1> SUFFICES ASSUME SlotInv, NoStrandedWaiter, Waiting # {}, Permits = {}
             PROVE  FALSE
  BY DEF WaitersAwaitHolder
<1>1. Cardinality(Permits) = 0
  BY FS_EmptySet
<1>2. value > 0
  BY <1>1 DEF SlotInv, TypeOK, SlotConservation
<1>3. InSlot({"granted", "yielding"}) # {}
  BY <1>2 DEF NoStrandedWaiter
<1> QED
  BY <1>3 DEF Permits, InSlot, PermitHolding

\* There is never a queue without a holder of a permit.
THEOREM NoQueueWithoutHolder == Spec => []WaitersAwaitHolder
<1>1. Init => NoStrandedWaiter
  BY DEF Init, NoStrandedWaiter, Waiting, InSlot
<1> QED
  BY <1>1, AwaitHolder, InitSlotInv, NextSlotInv, NextNoStranded, PTL DEF Spec

\* How many stages a handler has before it, at most.
Stage(s) == CASE s = "absent"    -> 5
              [] s = "waiting"   -> 4
              [] s = "granted"   -> 3
              [] s \in {"yielding", "acquired"} -> 2
              [] s = "serving"   -> 1
              [] OTHER           -> 0

\* A handler never returns to the queue, nor to any earlier stage: whatever is
\* cancelled or granted meanwhile, it is done after at most five moves.
StagesAdvance == \A r \in Requests : slot'[r] = slot[r] \/ Stage(slot'[r]) < Stage(slot[r])

\* A hand-over advances the request that moves and those that are woken.
LEMMA HandOverAdvances ==
    ASSUME NEW r \in Requests, NEW s, Stage(s) < Stage(slot[r]),
           NEW S \in SUBSET Waiting, NEW n, NEW W \in FirstOf(S, n), NEW v,
           MoveAndGrant(r, s, W, v)
    PROVE  StagesAdvance
<1> SUFFICES ASSUME NEW q \in Requests
             PROVE  slot'[q] = slot[q] \/ Stage(slot'[q]) < Stage(slot[q])
  BY DEF StagesAdvance
<1>1. slot'[q] = IF q = r THEN s ELSE IF q \in W THEN "granted" ELSE slot[q]
  BY DEF MoveAndGrant
<1>2. q \in W => slot[q] = "waiting"
  BY DEF FirstOf, Waiting, InSlot
<1>3. Stage("granted") < Stage("waiting")
  BY DEF Stage
<1> QED
  BY <1>1, <1>2, <1>3

LEMMA NextAdvances == SlotInv /\ [Next]_vars => StagesAdvance
<1> SUFFICES ASSUME SlotInv, [Next]_vars PROVE StagesAdvance
  OBVIOUS
<1>0. slot \in [Requests -> Slots] /\ value \in Nat
  BY DEF SlotInv, TypeOK
<1>1. ASSUME NEW r \in Requests, NEW s, Stage(s) < Stage(slot[r]),
             slot' = [slot EXCEPT ![r] = s]
      PROVE  StagesAdvance
  BY <1>0, <1>1 DEF StagesAdvance
<1>2. ASSUME NEW r \in Requests, Arrive(r) \/ StartServing(r) \/ WithdrawGranted(r)
      PROVE  StagesAdvance
  <2>1. PICK s \in Slots : /\ slot' = [slot EXCEPT ![r] = s]
                           /\ \/ slot[r] = "absent" /\ s \in {"waiting", "acquired"}
                              \/ slot[r] = "acquired" /\ s = "serving"
                              \/ slot[r] = "granted" /\ s = "yielding"
    BY <1>2 DEF Arrive, StartServing, WithdrawGranted, Slots
  <2>2. Stage(s) < Stage(slot[r])
    BY <2>1 DEF Stage
  <2> QED
    BY <1>1, <2>1, <2>2
<1>3. ASSUME NEW r \in Requests, AcquireResumes(r)
      PROVE  StagesAdvance
  <2>1. Stage("acquired") < Stage(slot[r])
    BY <1>3 DEF AcquireResumes, Stage
  <2>2. PICK n \in WakesOnLeaving(value) : \E W \in FirstOf(Waiting, n) :
           MoveAndGrant(r, "acquired", W, value)
    BY <1>3 DEF AcquireResumes
  <2> QED
    BY <2>1, <2>2, HandOverAdvances
<1>4. ASSUME NEW r \in Requests, Withdraw(r)
      PROVE  StagesAdvance
  <2>1. Stage("answered") < Stage(slot[r])
    BY <1>4 DEF Withdraw, Stage
  <2>2. PICK n \in {0, value} : \E W \in FirstOf(Waiting \ {r}, n) :
           MoveAndGrant(r, "answered", W, value)
    BY <1>4 DEF Withdraw
  <2>3. Waiting \ {r} \in SUBSET Waiting
    OBVIOUS
  <2> QED
    BY <2>1, <2>2, <2>3, HandOverAdvances
<1>5. ASSUME NEW r \in Requests, YieldPermit(r) \/ StopServing(r)
      PROVE  StagesAdvance
  <2>1. Stage("answered") < Stage(slot[r])
    BY <1>5 DEF YieldPermit, StopServing, Stage
  <2>2. PICK n : \E W \in FirstOf(Waiting, n) : MoveAndGrant(r, "answered", W, value + 1)
    BY <1>5 DEF YieldPermit, StopServing
  <2> QED
    BY <2>1, <2>2, HandOverAdvances
<1>6. ASSUME NEW r \in Requests, NoticeDisconnect(r)
      PROVE  StagesAdvance
  BY <1>6 DEF NoticeDisconnect, slotVars, StagesAdvance
<1>7. CASE UNCHANGED vars
  BY <1>7 DEF vars, StagesAdvance
<1> QED
  BY <1>2, <1>3, <1>4, <1>5, <1>6, <1>7 DEF Next, Step

\* A request that was granted, refused or served does not queue again.
THEOREM HandlersGoForward == Spec => [][StagesAdvance]_vars
<1>1. SlotInv /\ [Next]_vars => [StagesAdvance]_vars
  BY NextAdvances
<1> QED
  BY <1>1, InitSlotInv, NextSlotInv, PTL DEF Spec

-----------------------------------------------------------------------------
(* The slots implement the abstract pool *)

\* A hand-over is, for the pool, the step of the request that moves.
LEMMA HandOverInPool ==
    ASSUME slot \in [Requests -> Slots], NEW r \in Requests, NEW s \in Slots,
           NEW W \in SUBSET (Waiting \ {r}), NEW v, MoveAndGrant(r, s, W, v)
    PROVE  PoolStatus' = [PoolStatus EXCEPT ![r] = StatusOf(s)]
<1>1. ASSUME NEW q \in Requests
      PROVE  StatusOf(slot'[q]) = IF q = r THEN StatusOf(s) ELSE StatusOf(slot[q])
  <2>1. slot'[q] = IF q = r THEN s ELSE IF q \in W THEN "granted" ELSE slot[q]
    BY DEF MoveAndGrant
  <2>2. q \in W => slot[q] = "waiting"
    BY DEF Waiting, InSlot
  <2> QED
    BY <2>1, <2>2 DEF StatusOf
<1> QED
  BY <1>1 DEF PoolStatus

LEMMA NextPool == SlotInv /\ [Next]_vars => [Pool!Next]_PoolStatus
<1> SUFFICES ASSUME SlotInv, [Next]_vars
             PROVE  Pool!Next \/ UNCHANGED PoolStatus
  OBVIOUS
<1>0. slot \in [Requests -> Slots] /\ value \in Nat
  BY DEF SlotInv, TypeOK
<1>1. \A r \in Requests : PoolStatus[r] = StatusOf(slot[r])
  BY DEF PoolStatus
<1>2. ASSUME NEW r \in Requests, Arrive(r)
      PROVE  Pool!Enter(r)
  <2>1. /\ slot[r] = "absent"
        /\ slot' = [slot EXCEPT ![r] = "waiting"] \/ slot' = [slot EXCEPT ![r] = "acquired"]
    BY <1>2 DEF Arrive
  <2>2. PoolStatus' = [PoolStatus EXCEPT ![r] = "queued"]
    BY <1>0, <2>1 DEF PoolStatus, StatusOf
  <2> QED
    BY <1>1, <2>1, <2>2 DEF Pool!Enter, Pool!Become, StatusOf
<1>3. ASSUME NEW r \in Requests, AcquireResumes(r)
      PROVE  UNCHANGED PoolStatus
  <2>1. slot[r] = "granted" /\ Waiting \ {r} = Waiting
    BY <1>3, WaitingWithout DEF AcquireResumes
  <2>2. PICK n \in WakesOnLeaving(value) : \E W \in FirstOf(Waiting, n) :
           MoveAndGrant(r, "acquired", W, value)
    BY <1>3 DEF AcquireResumes
  <2>3. PICK W \in SUBSET (Waiting \ {r}) : MoveAndGrant(r, "acquired", W, value)
    BY <2>1, <2>2 DEF FirstOf
  <2>4. PoolStatus' = [PoolStatus EXCEPT ![r] = StatusOf("acquired")]
    BY <1>0, <2>3, HandOverInPool DEF Slots
  <2> QED
    BY <1>1, <2>1, <2>4 DEF StatusOf, PoolStatus
<1>4. ASSUME NEW r \in Requests, StartServing(r)
      PROVE  Pool!Admit(r)
  <2>1. slot[r] = "acquired" /\ slot' = [slot EXCEPT ![r] = "serving"]
    BY <1>4 DEF StartServing
  <2>2. PoolStatus' = [PoolStatus EXCEPT ![r] = "serving"] /\ PoolStatus[r] = "queued"
    BY <1>0, <1>1, <2>1 DEF PoolStatus, StatusOf
  <2>3. Pool!ServedNow \subseteq Permits \ {r} /\ r \in Permits
    BY <1>1, <2>1 DEF Pool!ServedNow, Permits, InSlot, PermitHolding, StatusOf
  <2>4. Permits \in SUBSET Requests /\ Permits \ {r} \in SUBSET Requests
    BY DEF Permits, InSlot
  <2>5. /\ Cardinality(Pool!ServedNow) <= Cardinality(Permits \ {r})
        /\ Cardinality(Pool!ServedNow) \in Nat
    BY <2>3, <2>4, RequestsFinite, FS_Subset
  <2>6. Cardinality(Permits \ {r}) = Cardinality(Permits) - 1
    BY <2>3, <2>4, GiveBackSubtracts
  <2>7. Cardinality(Pool!ServedNow) < Concurrency
    BY <1>0, <2>4, <2>5, <2>6, RequestsFinite DEF SlotInv, SlotConservation
  \* the instance has its own copy of the same definition
  <2>8. Pool!Cardinality(Pool!ServedNow) = Cardinality(Pool!ServedNow)
    BY DEF Pool!Cardinality, Cardinality
  <2> QED
    BY <2>2, <2>7, <2>8 DEF Pool!Admit, Pool!Become
<1>5. ASSUME NEW r \in Requests, Withdraw(r)
      PROVE  Pool!GiveUp(r)
  <2>1. slot[r] = "waiting"
    BY <1>5 DEF Withdraw
  <2>2. PICK W \in SUBSET (Waiting \ {r}) : MoveAndGrant(r, "answered", W, value)
    BY <1>5 DEF Withdraw, FirstOf
  <2>3. PoolStatus' = [PoolStatus EXCEPT ![r] = StatusOf("answered")]
    BY <1>0, <2>2, HandOverInPool DEF Slots
  <2> QED
    BY <1>1, <2>1, <2>3 DEF Pool!GiveUp, Pool!Become, StatusOf
<1>6. ASSUME NEW r \in Requests, WithdrawGranted(r)
      PROVE  UNCHANGED PoolStatus
  BY <1>0, <1>6 DEF WithdrawGranted, PoolStatus, StatusOf
<1>7. ASSUME NEW r \in Requests, YieldPermit(r)
      PROVE  Pool!GiveUp(r)
  <2>1. slot[r] = "yielding" /\ Waiting \ {r} = Waiting
    BY <1>7, WaitingWithout DEF YieldPermit
  <2>2. PICK W \in SUBSET (Waiting \ {r}) : MoveAndGrant(r, "answered", W, value + 1)
    BY <1>7, <2>1 DEF YieldPermit, FirstOf
  <2>3. PoolStatus' = [PoolStatus EXCEPT ![r] = StatusOf("answered")]
    BY <1>0, <2>2, HandOverInPool DEF Slots
  <2> QED
    BY <1>1, <2>1, <2>3 DEF Pool!GiveUp, Pool!Become, StatusOf
<1>8. ASSUME NEW r \in Requests, StopServing(r)
      PROVE  Pool!Finish(r)
  <2>1. slot[r] = "serving" /\ Waiting \ {r} = Waiting
    BY <1>8, WaitingWithout DEF StopServing
  <2>2. PICK W \in SUBSET (Waiting \ {r}) : MoveAndGrant(r, "answered", W, value + 1)
    BY <1>8, <2>1 DEF StopServing, FirstOf
  <2>3. PoolStatus' = [PoolStatus EXCEPT ![r] = StatusOf("answered")]
    BY <1>0, <2>2, HandOverInPool DEF Slots
  <2> QED
    BY <1>1, <2>1, <2>3 DEF Pool!Finish, Pool!Become, StatusOf
<1>9. ASSUME NEW r \in Requests, NoticeDisconnect(r)
      PROVE  UNCHANGED PoolStatus
  BY <1>9 DEF NoticeDisconnect, slotVars, PoolStatus
<1>10. CASE UNCHANGED vars
  BY <1>10 DEF vars, PoolStatus
<1> QED
  BY <1>2, <1>3, <1>4, <1>5, <1>6, <1>7, <1>8, <1>9, <1>10
     DEF Next, Step, Pool!Next

\* The slots of app.py implement the abstract pool: at most Concurrency
\* requests are served at a time and each is answered once.
THEOREM SlotsImplementPool == Spec => Pool!Spec
<1>1. Init => Pool!Init
  BY DEF Init, Pool!Init, PoolStatus, StatusOf
<1> QED
  BY <1>1, InitSlotInv, NextSlotInv, NextPool, PTL DEF Spec, Pool!Spec

-----------------------------------------------------------------------------
(* What the abstract pool guarantees, and with it whatever implements it *)

PoolInv == /\ Pool!ServedNow \in SUBSET Requests
           /\ Cardinality(Pool!ServedNow) <= Concurrency

LEMMA InitPoolInv == Pool!Init => PoolInv
<1> SUFFICES ASSUME Pool!Init PROVE PoolInv
  OBVIOUS
<1>1. Pool!ServedNow = {}
  BY DEF Pool!Init, Pool!ServedNow
<1> QED
  BY <1>1, FS_EmptySet DEF PoolInv

\* one more request in a set of them counts for at most one
LEMMA OneMoreCounts ==
    ASSUME NEW S \in SUBSET Requests, NEW r
    PROVE  /\ Cardinality(S \cup {r}) \in Nat
           /\ Cardinality(S \cup {r}) <= Cardinality(S) + 1
<1>1. IsFiniteSet(S) /\ Cardinality(S) \in Nat
  BY RequestsFinite
<1>2. Cardinality(S \cup {r}) = IF r \in S THEN Cardinality(S) ELSE Cardinality(S) + 1
  BY <1>1, FS_AddElement
<1> QED
  BY <1>1, <1>2

LEMMA NextPoolInv == PoolInv /\ [Pool!Next]_PoolStatus => PoolInv'
<1> SUFFICES ASSUME PoolInv, [Pool!Next]_PoolStatus PROVE PoolInv'
  OBVIOUS
<1> DEFINE Served == Pool!ServedNow
<1>0. PoolStatus = [r \in Requests |-> PoolStatus[r]]
  BY DEF PoolStatus
<1>a. Served \in SUBSET Requests /\ Cardinality(Served) <= Concurrency
  BY DEF PoolInv
<1>b. Served' \in SUBSET Requests
  BY DEF Pool!ServedNow
<1>c. IsFiniteSet(Served) /\ Cardinality(Served) \in Nat /\ Concurrency \in Nat
  BY <1>a, RequestsFinite, ConcurrencyAssumption
<1>1. ASSUME NEW r \in Requests, Pool!Enter(r) \/ Pool!GiveUp(r) \/ Pool!Finish(r)
      PROVE  Served' \subseteq Served
  <2>1. PICK s \in {"queued", "answered"} : PoolStatus' = [PoolStatus EXCEPT ![r] = s]
    BY <1>1 DEF Pool!Enter, Pool!GiveUp, Pool!Finish, Pool!Become
  <2>2. PoolStatus' = [PoolStatus EXCEPT ![r] = s] /\ s # "serving"
    BY <2>1
  <2> QED
    BY <1>0, <2>2 DEF Pool!ServedNow
<1>2. CASE Served' \subseteq Served
  <2>1. Cardinality(Served') <= Cardinality(Served) /\ Cardinality(Served') \in Nat
    <3> HIDE DEF Served
    <3>1. IsFiniteSet(Served') /\ Cardinality(Served') <= Cardinality(Served)
      BY <1>c, <1>2, FS_Subset
    <3> QED
      BY <3>1, FS_CardinalityType
  <2>2. Cardinality(Served') <= Concurrency
    BY <1>a, <1>c, <2>1
  <2> QED
    BY <1>b, <2>2 DEF PoolInv
<1>3. ASSUME NEW r \in Requests, Pool!Admit(r)
      PROVE  PoolInv'
  <2>1. Pool!Cardinality(Served) < Concurrency
    BY <1>3 DEF Pool!Admit
  \* the instance has its own copy of the same definition
  <2>2. Pool!Cardinality(Served) = Cardinality(Served)
    BY DEF Pool!Cardinality, Cardinality
  <2>3. PoolStatus' = [PoolStatus EXCEPT ![r] = "serving"]
    BY <1>3 DEF Pool!Admit, Pool!Become
  <2>4. Served' = Served \cup {r}
    BY <1>0, <2>3 DEF Pool!ServedNow
  <2>5. /\ Cardinality(Served \cup {r}) \in Nat
        /\ Cardinality(Served \cup {r}) <= Cardinality(Served) + 1
    BY <1>a, OneMoreCounts
  <2>6. Cardinality(Served) < Concurrency
    BY <2>1, <2>2
  <2>7. Cardinality(Served \cup {r}) <= Concurrency
    BY <1>c, <2>5, <2>6
  <2>8. Cardinality(Served') <= Concurrency
    BY <2>4, <2>7
  <2> QED
    BY <1>b, <2>8 DEF PoolInv
<1>4. CASE UNCHANGED PoolStatus
  <2>1. Served' = Served
    BY <1>4 DEF Pool!ServedNow
  <2> QED
    BY <1>2, <2>1
<1> QED
  BY <1>1, <1>2, <1>3, <1>4 DEF Pool!Next

\* Whatever implements the pool serves at most Concurrency requests at a time.
THEOREM PoolServesFew == Pool!Spec => [](Cardinality(Pool!ServedNow) <= Concurrency)
<1>1. PoolInv => Cardinality(Pool!ServedNow) <= Concurrency
  BY DEF PoolInv
<1> QED
  BY <1>1, InitPoolInv, NextPoolInv, PTL DEF Pool!Spec

\* ... and answers each request for good: nobody is queued or served again.
AnswersStay == \A r \in Requests : PoolStatus[r] = "answered" => PoolStatus'[r] = "answered"

THEOREM PoolAnswersOnce == Pool!Spec => [][AnswersStay]_PoolStatus
<1>1. Pool!Next => AnswersStay
  <2> SUFFICES ASSUME NEW r \in Requests, NEW q \in Requests, PoolStatus[q] = "answered",
                      Pool!Enter(r) \/ Pool!GiveUp(r) \/ Pool!Finish(r) \/ Pool!Admit(r)
               PROVE  PoolStatus'[q] = "answered"
    BY DEF AnswersStay, Pool!Next
  <2>1. PoolStatus = [a \in Requests |-> PoolStatus[a]]
    BY DEF PoolStatus
  <2> QED
    BY <2>1 DEF Pool!Enter, Pool!GiveUp, Pool!Finish, Pool!Admit, Pool!Become
<1>2. [Pool!Next]_PoolStatus => [AnswersStay]_PoolStatus
  BY <1>1
<1> QED
  BY <1>2, PTL DEF Pool!Spec
=============================================================================
