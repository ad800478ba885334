--------------------------- MODULE MCCalibration ---------------------------
(* Three planned requests; requests are interchangeable, but the symmetry is *)
(* not used because liveness is checked.                                     *)
EXTENDS Calibration

CONSTANTS r1, r2, r3

MCPlan == {r1, r2, r3}
============================================================================
