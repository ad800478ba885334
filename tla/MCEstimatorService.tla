------------------------- MODULE MCEstimatorService -------------------------
(* An instance of EstimatorService for TLC: two requests compete for one    *)
(* slot; the Sage process ignores SIGTERM and may leave a descendant behind *)
(* that holds its pipes.                                                    *)
EXTENDS EstimatorService

CONSTANTS q1, q2, leader, d1

Two == {q1, q2}
PipeKid == {d1}
LeaderOnly == {leader}
TwoAnswers == {"valid", "failed"}
=============================================================================
