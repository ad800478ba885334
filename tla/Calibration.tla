----------------------------- MODULE Calibration -----------------------------
(***************************************************************************)
(* The collector of tools/slow_attack_calibration.py: "collect" appends    *)
(* one observation per planned request to a JSON-lines file, in the order  *)
(* in which the requests complete, and is run again until every request    *)
(* has one; "replay-preflight" repeats the preflight of every observation  *)
(* into a second file.  The jobs run one at a time and can die at any      *)
(* point.  The readers of the files take the last row of an identity.      *)
(***************************************************************************)
EXTENDS Integers, Sequences, FiniteSets

CONSTANTS Plan,          \* the identities of the planned requests, which no
                         \* plan in calibration/plans repeats
          Torn,          \* the identity of a line that is not JSON
          MaxFailures,   \* bounds the rows that hold a failed call
          MaxCrashes     \* bounds the deaths of jobs

ASSUME CalibrationAssumption ==
    /\ Torn \notin Plan
    /\ MaxFailures \in Nat /\ MaxCrashes \in Nat

VARIABLES observations,  \* the output of collect: a sequence of lines
          replayed,      \* the output of replay-preflight
          job,           \* the command that is running
          pending,       \* what its futures still owe: identities to collect,
                         \* or positions of observations to replay
          failures,      \* rows written with a failed call so far
          crashes        \* deaths so far

vars == <<observations, replayed, job, pending, failures, crashes>>

\* The outcome of a call: what the API said, or "collection_failed"
Outcomes == {"answered", "collection_failed"}

Row == [identity : Plan \cup {Torn}, preflight : Outcomes, exact : Outcomes]

TornLine == [identity  |-> Torn, preflight |-> "collection_failed",
             exact |-> "collection_failed"]

TypeOK ==
    /\ observations \in Seq(Row)
    /\ replayed \in Seq(Row)
    /\ job \in {"none", "collect", "replay"}
    /\ job = "none" => pending = {}
    /\ job = "collect" => pending \subseteq Plan
    /\ job = "replay" => pending \subseteq DOMAIN observations
    /\ failures \in 0 .. MaxFailures
    /\ crashes \in 0 .. MaxCrashes

Init ==
    /\ observations = <<>> /\ replayed = <<>>
    /\ job = "none" /\ pending = {}
    /\ failures = 0 /\ crashes = 0

----------------------------------------------------------------------------
\* json.loads accepts every line
Readable(file) == \A i \in DOMAIN file : file[i].identity # Torn

\* _collection_failed
Failed(row) == "collection_failed" \in {row.preflight, row.exact}

Identities(file) == {file[i].identity : i \in DOMAIN file}

\* faulty: an observation that failed is not collected again
Attempted(file) == Identities(file)

\* The requests an earlier run of collect has observed
Existing(file) == {file[i].identity : i \in {n \in DOMAIN file : ~Failed(file[n])}}

\* faulty: a run starts the whole plan again
RestartCollect ==
    /\ job = "none" /\ Readable(observations)
    /\ job' = "collect" /\ pending' = Plan
    /\ UNCHANGED <<observations, replayed, failures, crashes>>

StartCollect ==
    /\ job = "none" /\ Readable(observations)
    /\ job' = "collect"
    /\ pending' = Plan \ Existing(observations)
    /\ UNCHANGED <<observations, replayed, failures, crashes>>

CountFailure(row) ==
    /\ failures' = IF Failed(row) THEN failures + 1 ELSE failures
    /\ failures' <= MaxFailures

\* A future of _collect_one completes and its row is written and flushed
WriteObservation(id) ==
    /\ job = "collect" /\ id \in pending
    /\ \E p, e \in Outcomes :
          LET row == [identity |-> id, preflight |-> p, exact |-> e]
          IN  /\ observations' = Append(observations, row)
              /\ CountFailure(row)
    /\ pending' = pending \ {id}
    /\ UNCHANGED <<replayed, job, crashes>>

\* Every row of the source whose identity is not in the output yet; a row
\* with a failed preflight counts as replayed
StartReplay ==
    /\ job = "none" /\ Readable(observations) /\ Readable(replayed)
    /\ job' = "replay"
    /\ pending' = {i \in DOMAIN observations :
                      observations[i].identity \notin Identities(replayed)}
    /\ UNCHANGED <<observations, replayed, failures, crashes>>

\* A future of _replay_one completes: a new preflight, the old exact outcome
WriteReplay(i) ==
    /\ job = "replay" /\ i \in pending
    /\ \E p \in Outcomes :
          LET row == [observations[i] EXCEPT !.preflight = p]
          IN  /\ replayed' = Append(replayed, row)
              /\ failures' = IF p = "collection_failed" THEN failures + 1 ELSE failures
              /\ failures' <= MaxFailures
    /\ pending' = pending \ {i}
    /\ UNCHANGED <<observations, job, crashes>>

FinishJob ==
    /\ job # "none" /\ pending = {}
    /\ job' = "none"
    /\ UNCHANGED <<observations, replayed, pending, failures, crashes>>

\* The job is killed, or a future raises what _collect_one does not catch: the
\* rows not yet written are lost
Die ==
    /\ job # "none" /\ crashes < MaxCrashes
    /\ job' = "none" /\ pending' = {}
    /\ crashes' = crashes + 1
    /\ UNCHANGED <<observations, replayed, failures>>

\* The job is killed within a write that takes more than one system call
DieWriting ==
    /\ job # "none" /\ pending # {} /\ crashes < MaxCrashes
    /\ IF job = "collect"
       THEN observations' = Append(observations, TornLine) /\ UNCHANGED replayed
       ELSE replayed' = Append(replayed, TornLine) /\ UNCHANGED observations
    /\ job' = "none" /\ pending' = {}
    /\ crashes' = crashes + 1
    /\ UNCHANGED failures

Write == \/ \E id \in Plan : WriteObservation(id)
         \/ \E i \in DOMAIN observations : WriteReplay(i)

Next == StartCollect \/ StartReplay \/ Write \/ FinishJob \/ Die \/ DieWriting

Spec == Init /\ [][Next]_vars

\* A job goes on while it is not killed, and collect is started again and
\* again, whatever else is run in between.
FairSpec == Spec /\ WF_vars(Write \/ FinishJob) /\ SF_vars(StartCollect)

----------------------------------------------------------------------------
\* A complete observation is the last word on its request: no later row, of
\* this or a resumed run, takes its place for the readers of the file.
GoodIsLast ==
    \A i, j \in DOMAIN observations :
        /\ i < j
        /\ observations[i].identity = observations[j].identity
        => Failed(observations[i])

Observed(id) == \E i \in DOMAIN observations :
                   observations[i].identity = id /\ ~Failed(observations[i])

\* The whole plan is observed in the end
CollectionCompletes == <>(\A id \in Plan : Observed(id))

\* calibration/README.md:4-6: the collector records failures while continuing,
\* and collection is resumable.  Failed calls, deaths between two writes and the
\* jobs run in between cost no request its observation; only half a line, which
\* no later run can parse, does.
CompletesUnlessTorn == CollectionCompletes \/ <>~Readable(observations)

\* faulty: the first row of an identity is kept
LatestIsFirst(file, id) ==
    CHOOSE i \in DOMAIN file :
        /\ file[i].identity = id
        /\ \A j \in DOMAIN file : file[j].identity = id => i <= j

\* The position of the row a reader of the file takes for an identity
Latest(file, id) ==
    CHOOSE i \in DOMAIN file :
        /\ file[i].identity = id
        /\ \A j \in DOMAIN file : file[j].identity = id => j <= i

\* select_plan takes the latest row of every planned request, and refuses a
\* source that lacks one or cannot be parsed
Selectable(file) == Readable(file) /\ Plan \subseteq Identities(file)

Selection(file) == [id \in Plan |-> file[Latest(file, id)]]

\* However many failed attempts and resumed runs the file has seen, a plan that
\* was observed completely is selected without a failed row.
SelectionIsGood ==
    (\A id \in Plan : Observed(id)) /\ Readable(observations) =>
        /\ Selectable(observations)
        /\ \A id \in Plan : ~Failed(Selection(observations)[id])

\* slow_attack_calibration.py:210: "preserving exact outcomes from a pinned
\* dataset".  When every row of the dataset has been replayed, the readers still
\* find the exact answer of a request they found before.
ReplayPreservesExact ==
    job = "replay" /\ pending = {} /\ Len(replayed) = Len(observations) =>
        \A id \in Identities(observations) :
            observations[Latest(observations, id)].exact = "answered" =>
                replayed[Latest(replayed, id)].exact = "answered"
=============================================================================
