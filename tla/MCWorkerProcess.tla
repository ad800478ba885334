-------------------------- MODULE MCWorkerProcess --------------------------
(* Instances of WorkerProcess for TLC: one run and up to two descendants.  *)
EXTENDS WorkerProcess

CONSTANTS r1, leader, d1, d2

MCRuns == {r1}
Deaf == {leader, d1}          \* a leader and a descendant that ignore SIGTERM
OneKid == {d1}
PipeKid == {d1}
Both == {d1, d2}
Nobody == {}
============================================================================
