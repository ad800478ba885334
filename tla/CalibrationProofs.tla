-------------------------- MODULE CalibrationProofs --------------------------
(***************************************************************************)
(* Proofs about the calibration collector, for every plan and any number   *)
(* of failures, deaths and torn writes.  GoodIsLast needs to know that a   *)
(* running collect owes no request that has a complete observation.        *)
(***************************************************************************)
EXTENDS Calibration, TLAPS

USE CalibrationAssumption

LEMMA InitTypeOK == Init => TypeOK
  BY DEF Init, TypeOK

LEMMA AppendRow ==
    ASSUME NEW file \in Seq(Row), NEW row \in Row
    PROVE  /\ Append(file, row) \in Seq(Row)
           /\ DOMAIN Append(file, row) = DOMAIN file \cup {Len(file) + 1}
           /\ \A i \in DOMAIN file : Append(file, row)[i] = file[i]
           /\ Append(file, row)[Len(file) + 1] = row
           /\ DOMAIN file = 1 .. Len(file) /\ Len(file) \in Nat
  OBVIOUS

LEMMA NextTypeOK == TypeOK /\ [Next]_vars => TypeOK'
<1> SUFFICES ASSUME TypeOK, [Next]_vars PROVE TypeOK'
  OBVIOUS
<1>1. CASE StartCollect
  BY <1>1 DEF StartCollect, TypeOK
<1>2. CASE StartReplay
  BY <1>2 DEF StartReplay, TypeOK
<1>3. ASSUME NEW id \in Plan, WriteObservation(id) PROVE TypeOK'
  <2>1. PICK p \in Outcomes, e \in Outcomes :
          LET row == [identity |-> id, preflight |-> p, exact |-> e]
          IN  observations' = Append(observations, row) /\ CountFailure(row)
    BY <1>3 DEF WriteObservation
  <2> DEFINE row == [identity |-> id, preflight |-> p, exact |-> e]
  <2>2. row \in Row
    BY DEF Row
  <2>3. observations' \in Seq(Row)
    BY <2>1, <2>2, AppendRow DEF TypeOK
  <2>4. failures' \in 0 .. MaxFailures
    BY <2>1 DEF CountFailure, TypeOK
  <2> QED
    BY <1>3, <2>3, <2>4 DEF WriteObservation, TypeOK
<1>4. ASSUME NEW i \in DOMAIN observations, WriteReplay(i) PROVE TypeOK'
  <2>1. PICK p \in Outcomes :
          /\ replayed' = Append(replayed, [observations[i] EXCEPT !.preflight = p])
          /\ failures' = IF p = "collection_failed" THEN failures + 1 ELSE failures
          /\ failures' <= MaxFailures
    BY <1>4 DEF WriteReplay
  <2>2. observations[i] \in Row
    BY DEF TypeOK
  <2>3. [observations[i] EXCEPT !.preflight = p] \in Row
    BY <2>2 DEF Row
  <2>4. replayed' \in Seq(Row)
    BY <2>1, <2>3, AppendRow DEF TypeOK
  <2>5. failures' \in 0 .. MaxFailures
    BY <2>1 DEF TypeOK
  <2> QED
    BY <1>4, <2>4, <2>5 DEF WriteReplay, TypeOK
<1>5. CASE FinishJob \/ Die
  BY <1>5 DEF FinishJob, Die, TypeOK
<1>6. CASE DieWriting
  <2>1. TornLine \in Row
    BY DEF TornLine, Row, Outcomes
  <2>2. observations \in Seq(Row) /\ replayed \in Seq(Row)
    BY DEF TypeOK
  <2>3. observations' \in Seq(Row) /\ replayed' \in Seq(Row)
    <3>1. CASE job = "collect"
      <4>1. observations' = Append(observations, TornLine) /\ replayed' = replayed
        BY <1>6, <3>1 DEF DieWriting
      <4> QED
        BY <2>1, <2>2, <4>1, AppendRow
    <3>2. CASE job # "collect"
      <4>1. replayed' = Append(replayed, TornLine) /\ observations' = observations
        BY <1>6, <3>2 DEF DieWriting
      <4> QED
        BY <2>1, <2>2, <4>1, AppendRow
    <3> QED
      BY <3>1, <3>2
  <2> QED
    BY <1>6, <2>3 DEF DieWriting, TypeOK
<1>7. CASE UNCHANGED vars
  BY <1>7 DEF vars, TypeOK
<1> QED
  BY <1>1, <1>2, <1>3, <1>4, <1>5, <1>6, <1>7 DEF Next, Write

\* The files and the bookkeeping of the jobs keep their types.
THEOREM CalibrationTypeOK == Spec => []TypeOK
  BY InitTypeOK, NextTypeOK, PTL DEF Spec

----------------------------------------------------------------------------
\* What a running collect still owes has no complete observation
OwedInv ==
    job = "collect" =>
        \A i \in DOMAIN observations :
            observations[i].identity \in pending => Failed(observations[i])

\* Half a line is not a complete observation
TornInv ==
    \A i \in DOMAIN observations :
        observations[i].identity = Torn => Failed(observations[i])

CollectInv == TypeOK /\ OwedInv /\ TornInv /\ GoodIsLast

LEMMA InitCollectInv == Init => CollectInv
  BY InitTypeOK DEF Init, CollectInv, OwedInv, TornInv, GoodIsLast

\* A row may follow all rows of its identity if these have failed
LEMMA AppendKeepsGoodIsLast ==
    ASSUME TypeOK, GoodIsLast, NEW row \in Row, observations' = Append(observations, row),
           \A i \in DOMAIN observations :
              observations[i].identity = row.identity => Failed(observations[i])
    PROVE  GoodIsLast'
<1> SUFFICES ASSUME NEW i \in DOMAIN observations', NEW j \in DOMAIN observations',
                    i < j, observations'[i].identity = observations'[j].identity
             PROVE  Failed(observations'[i])
  BY DEF GoodIsLast
<1>1. /\ DOMAIN observations' = DOMAIN observations \cup {Len(observations) + 1}
      /\ \A k \in DOMAIN observations : observations'[k] = observations[k]
      /\ observations'[Len(observations) + 1] = row
      /\ DOMAIN observations = 1 .. Len(observations) /\ Len(observations) \in Nat
  BY AppendRow DEF TypeOK
<1>2. i \in DOMAIN observations /\ observations'[i] = observations[i]
  BY <1>1
<1>3. CASE j \in DOMAIN observations
  BY <1>1, <1>2, <1>3 DEF GoodIsLast
<1>4. CASE j = Len(observations) + 1
  BY <1>1, <1>2, <1>4
<1> QED
  BY <1>1, <1>3, <1>4

LEMMA NextCollectInv == CollectInv /\ [Next]_vars => CollectInv'
<1> SUFFICES ASSUME CollectInv, [Next]_vars PROVE CollectInv'
  OBVIOUS
<1>0. TypeOK /\ TypeOK'
  BY NextTypeOK DEF CollectInv
<1>1. CASE StartCollect
  <2>1. OwedInv'
    BY <1>1 DEF StartCollect, OwedInv, Existing
  <2> QED
    BY <1>0, <1>1, <2>1 DEF StartCollect, CollectInv, TornInv, GoodIsLast
<1>2. ASSUME NEW id \in Plan, WriteObservation(id) PROVE CollectInv'
  <2>1. PICK p \in Outcomes, e \in Outcomes :
          observations' = Append(observations,
                                 [identity |-> id, preflight |-> p, exact |-> e])
    BY <1>2 DEF WriteObservation
  <2> DEFINE row == [identity |-> id, preflight |-> p, exact |-> e]
  <2>2. row \in Row
    BY DEF Row
  <2>3. GoodIsLast'
    BY <1>0, <1>2, <2>1, <2>2, AppendKeepsGoodIsLast
       DEF WriteObservation, CollectInv, OwedInv
  <2>4. /\ DOMAIN observations' = DOMAIN observations \cup {Len(observations) + 1}
        /\ \A k \in DOMAIN observations : observations'[k] = observations[k]
        /\ observations'[Len(observations) + 1] = row
    BY <1>0, <2>1, <2>2, AppendRow DEF TypeOK
  <2>5. OwedInv'
    BY <1>2, <2>4 DEF WriteObservation, CollectInv, OwedInv
  <2>6. TornInv'
    BY <2>4 DEF CollectInv, TornInv
  <2> QED
    BY <1>0, <2>3, <2>5, <2>6 DEF CollectInv
<1>3. CASE DieWriting
  <2>1. CASE UNCHANGED observations
    BY <1>0, <1>3, <2>1 DEF DieWriting, CollectInv, OwedInv, TornInv, GoodIsLast
  <2>2. CASE observations' = Append(observations, TornLine)
    <3>1. TornLine \in Row /\ TornLine.identity = Torn /\ Failed(TornLine)
      BY DEF TornLine, Row, Outcomes, Failed
    <3>2. GoodIsLast'
      BY <1>0, <2>2, <3>1, AppendKeepsGoodIsLast DEF CollectInv, TornInv
    <3>3. TornInv'
      BY <1>0, <2>2, <3>1, AppendRow DEF TypeOK, CollectInv, TornInv
    <3> QED
      BY <1>0, <1>3, <3>2, <3>3 DEF DieWriting, CollectInv, OwedInv
  <2> QED
    BY <1>3, <2>1, <2>2 DEF DieWriting
<1>4. CASE StartReplay \/ FinishJob \/ Die \/ \E i \in DOMAIN observations : WriteReplay(i)
  BY <1>0, <1>4 DEF StartReplay, FinishJob, Die, WriteReplay, CollectInv, OwedInv,
     TornInv, GoodIsLast
<1>5. CASE UNCHANGED vars
  BY <1>0, <1>5 DEF vars, CollectInv, OwedInv, TornInv, GoodIsLast
<1> QED
  BY <1>1, <1>2, <1>3, <1>4, <1>5 DEF Next, Write

\* A complete observation is never superseded, for every plan.
THEOREM GoodStaysLast == Spec => []GoodIsLast
<1>1. CollectInv => GoodIsLast
  BY DEF CollectInv
<1> QED
  BY <1>1, InitCollectInv, NextCollectInv, PTL DEF Spec

-----------------------------------------------------------------------------
\* A request that was observed completely has its good row last.
LEMMA LatestIsGood ==
    ASSUME TypeOK, GoodIsLast, NEW id \in Plan, Observed(id)
    PROVE  /\ id \in Identities(observations)
           /\ ~Failed(observations[Latest(observations, id)])
<1>1. PICK i \in DOMAIN observations :
        observations[i].identity = id /\ ~Failed(observations[i])
  BY DEF Observed
<1>2. DOMAIN observations \subseteq Int
  BY DEF TypeOK
<1>3. \A j \in DOMAIN observations : observations[j].identity = id => j <= i
  BY <1>1, <1>2 DEF GoodIsLast
<1> DEFINE Last(k) == /\ observations[k].identity = id
                      /\ \A j \in DOMAIN observations :
                            observations[j].identity = id => j <= k
<1>4. /\ Latest(observations, id) \in DOMAIN observations
      /\ Last(Latest(observations, id))
  BY <1>1, <1>3 DEF Latest
<1>5. Latest(observations, id) = i
  BY <1>1, <1>2, <1>3, <1>4
<1> QED
  BY <1>1, <1>5 DEF Identities

\* select_plan never picks a failed row of a plan that was collected completely.
THEOREM CompletePlanSelects == Spec => []SelectionIsGood
<1>1. CollectInv => SelectionIsGood
  BY LatestIsGood DEF CollectInv, SelectionIsGood, Selectable, Selection
<1> QED
  BY <1>1, InitCollectInv, NextCollectInv, PTL DEF Spec
-----------------------------------------------------------------------------
(* Jobs that end by themselves leave nothing out.                            *)

\* What is no longer owed by a running job is in its output
CoverInv ==
    /\ job # "none" => Readable(observations)
    /\ job = "collect" => Plan \ pending \subseteq Identities(observations)
    /\ job = "replay" =>
          \A i \in DOMAIN observations \ pending :
              observations[i].identity \in Identities(replayed)

\* A row of the replay repeats the identity and the exact outcome of a row of
\* the dataset, with a preflight of its own
ReplaysObservations ==
    \A i \in DOMAIN replayed : replayed[i].identity # Torn =>
        \E j \in DOMAIN observations :
            /\ observations[j].identity = replayed[i].identity
            /\ observations[j].exact = replayed[i].exact

JobInv == TypeOK /\ CoverInv /\ ReplaysObservations

LEMMA InitJobInv == Init => JobInv
  BY InitTypeOK DEF Init, JobInv, CoverInv, ReplaysObservations

\* A file that grows by a row keeps its rows.
LEMMA GrownFile ==
    ASSUME NEW file \in Seq(Row), NEW row \in Row
    PROVE  /\ Identities(Append(file, row)) = Identities(file) \cup {row.identity}
           /\ row.identity # Torn /\ Readable(file) => Readable(Append(file, row))
  BY AppendRow DEF Identities, Readable

LEMMA NextJobInv == JobInv /\ [Next]_vars => JobInv'
<1> SUFFICES ASSUME JobInv, [Next]_vars PROVE JobInv'
  OBVIOUS
<1>0. TypeOK /\ TypeOK' /\ CoverInv /\ ReplaysObservations
  BY NextTypeOK DEF JobInv
<1>1. CASE StartCollect
  <2>1. Plan \ pending' \subseteq Identities(observations)
    BY <1>1 DEF StartCollect, Existing, Identities
  <2> QED
    BY <1>0, <1>1, <2>1 DEF StartCollect, JobInv, CoverInv, ReplaysObservations, Readable,
                            Identities
<1>2. CASE StartReplay
  BY <1>0, <1>2 DEF StartReplay, JobInv, CoverInv, ReplaysObservations, Readable
<1>3. ASSUME NEW id \in Plan, WriteObservation(id) PROVE JobInv'
  <2>1. PICK p \in Outcomes, e \in Outcomes :
          observations' = Append(observations,
                                 [identity |-> id, preflight |-> p, exact |-> e])
    BY <1>3 DEF WriteObservation
  <2> DEFINE row == [identity |-> id, preflight |-> p, exact |-> e]
  <2>2. row \in Row /\ row.identity = id /\ id # Torn
    BY DEF Row
  <2>3. /\ Identities(observations') = Identities(observations) \cup {id}
        /\ Readable(observations')
    BY <1>0, <1>3, <2>1, <2>2, GrownFile DEF WriteObservation, TypeOK, CoverInv
  <2>4. CoverInv'
    BY <1>0, <1>3, <2>3 DEF WriteObservation, CoverInv
  <2>5. /\ DOMAIN observations \subseteq DOMAIN observations'
        /\ \A k \in DOMAIN observations : observations'[k] = observations[k]
    BY <1>0, <2>1, <2>2, AppendRow DEF TypeOK
  <2>6. ReplaysObservations'
    BY <1>0, <1>3, <2>5 DEF WriteObservation, ReplaysObservations
  <2> QED
    BY <1>0, <2>4, <2>6 DEF JobInv
<1>4. ASSUME NEW i \in DOMAIN observations, WriteReplay(i) PROVE JobInv'
  <2>1. PICK p \in Outcomes :
          replayed' = Append(replayed, [observations[i] EXCEPT !.preflight = p])
    BY <1>4 DEF WriteReplay
  <2> DEFINE row == [observations[i] EXCEPT !.preflight = p]
  <2>2. /\ row \in Row /\ row.identity = observations[i].identity
        /\ row.exact = observations[i].exact
    <3>1. observations[i] \in Row
      BY <1>0 DEF TypeOK
    <3>2. row \in Row
      BY <3>1 DEF Row
    <3>3. row.identity = observations[i].identity /\ row.exact = observations[i].exact
      BY <3>1 DEF Row
    <3> QED
      BY <3>2, <3>3
  <2>3. Identities(replayed') = Identities(replayed) \cup {observations[i].identity}
    BY <1>0, <2>1, <2>2, GrownFile DEF TypeOK
  <2>4. CoverInv'
    BY <1>0, <1>4, <2>3 DEF WriteReplay, CoverInv, Readable
  <2>5. /\ DOMAIN replayed' = DOMAIN replayed \cup {Len(replayed) + 1}
        /\ \A k \in DOMAIN replayed : replayed'[k] = replayed[k]
        /\ replayed'[Len(replayed) + 1] = row
    <3>1. replayed \in Seq(Row) /\ row \in Row /\ replayed' = Append(replayed, row)
      BY <1>0, <2>1, <2>2 DEF TypeOK
    <3> HIDE DEF row
    <3> QED
      BY <3>1, AppendRow
  <2>6. ReplaysObservations'
    BY <1>0, <1>4, <2>2, <2>5 DEF WriteReplay, ReplaysObservations
  <2> QED
    BY <1>0, <2>4, <2>6 DEF JobInv
<1>5. CASE FinishJob \/ Die
  BY <1>0, <1>5 DEF FinishJob, Die, JobInv, CoverInv, ReplaysObservations
<1>6. CASE DieWriting
  <2>1. TornLine \in Row /\ TornLine.identity = Torn
    BY DEF TornLine, Row, Outcomes
  <2>2. CASE observations' = Append(observations, TornLine) /\ UNCHANGED replayed
    <3>1. /\ DOMAIN observations \subseteq DOMAIN observations'
          /\ \A k \in DOMAIN observations : observations'[k] = observations[k]
      BY <1>0, <2>1, <2>2, AppendRow DEF TypeOK
    <3> QED
      BY <1>0, <1>6, <2>2, <3>1 DEF DieWriting, JobInv, CoverInv, ReplaysObservations
  <2>3. CASE replayed' = Append(replayed, TornLine) /\ UNCHANGED observations
    <3>1. /\ DOMAIN replayed' = DOMAIN replayed \cup {Len(replayed) + 1}
          /\ \A k \in DOMAIN replayed : replayed'[k] = replayed[k]
          /\ replayed'[Len(replayed) + 1] = TornLine
      BY <1>0, <2>1, <2>3, AppendRow DEF TypeOK
    <3> QED
      BY <1>0, <1>6, <2>1, <2>3, <3>1 DEF DieWriting, JobInv, CoverInv, ReplaysObservations
  <2> QED
    BY <1>6, <2>2, <2>3 DEF DieWriting
<1>7. CASE UNCHANGED vars
  BY <1>0, <1>7 DEF vars, JobInv, CoverInv, ReplaysObservations
<1> QED
  BY <1>1, <1>2, <1>3, <1>4, <1>5, <1>6, <1>7 DEF Next, Write

\* A job that ends and was not killed
FinishesAll ==
    job # "none" /\ job' = "none" /\ UNCHANGED crashes =>
        IF job = "collect" THEN Plan \subseteq Identities(observations')
                           ELSE Identities(observations') \subseteq Identities(replayed')

\* A collect that ends by itself has a row for every request of the plan, and a
\* replay one for every request of the dataset, whatever was left from the runs
\* before it: nothing a job owes is dropped (existing and pending in collect and
\* replay_preflight).
THEOREM FinishedJobsAreComplete == Spec => [][FinishesAll]_vars
<1>1. JobInv /\ [Next]_vars => [FinishesAll]_vars
  <2> SUFFICES ASSUME JobInv, Next, job # "none", job' = "none", UNCHANGED crashes
               PROVE  IF job = "collect"
                      THEN Plan \subseteq Identities(observations')
                      ELSE Identities(observations') \subseteq Identities(replayed')
    BY DEF FinishesAll
  <2>1. crashes \in Nat
    BY DEF JobInv, TypeOK
  <2>2. FinishJob
    BY <2>1 DEF Next, Write, StartCollect, StartReplay, WriteObservation, WriteReplay,
                Die, DieWriting
  <2>3. pending = {} /\ UNCHANGED <<observations, replayed>>
    BY <2>2 DEF FinishJob
  <2> QED
    BY <2>3 DEF JobInv, TypeOK, CoverInv, Identities
<1> QED
  BY <1>1, InitJobInv, NextJobInv, PTL DEF Spec

\* The replay adds preflights only: it never writes an exact outcome the dataset
\* does not have for the request.
THEOREM ReplayAddsNoOutcome == Spec => []ReplaysObservations
<1>1. JobInv => ReplaysObservations
  BY DEF JobInv
<1> QED
  BY <1>1, InitJobInv, NextJobInv, PTL DEF Spec
=============================================================================
