----------------------------- MODULE WorkerPool -----------------------------
(***************************************************************************)
(* What the service promises about its worker slots, whatever the          *)
(* machinery behind it: a request is queued, perhaps served, and answered  *)
(* once; at most Concurrency requests are served at a time; and a request  *)
(* is not left queued for ever while a slot is free.                       *)
(***************************************************************************)
EXTENDS Integers, FiniteSets

CONSTANTS Requests, Concurrency

VARIABLE status

Statuses == {"absent", "queued", "serving", "answered"}

ServedNow == {r \in Requests : status[r] = "serving"}

Init == status = [r \in Requests |-> "absent"]

Become(r, from, to) == status[r] = from /\ status' = [status EXCEPT ![r] = to]

Enter(r)  == Become(r, "absent", "queued")
GiveUp(r) == Become(r, "queued", "answered")
Finish(r) == Become(r, "serving", "answered")
Admit(r)  == /\ Cardinality(ServedNow) < Concurrency
             /\ Become(r, "queued", "serving")

Next == \E r \in Requests : Enter(r) \/ GiveUp(r) \/ Finish(r) \/ Admit(r)

Spec == Init /\ [][Next]_status

\* A served request ends, and a free slot does not stay free while requests
\* keep queueing for it.
FairSpec == /\ Spec
            /\ \A r \in Requests : WF_status(Finish(r))
            /\ WF_status(\E r \in Requests : Admit(r))
=============================================================================
