---------------------------- MODULE MCSlotQueue -----------------------------
(* An instance of SlotQueue for TLC: more requests than the slots, a waiter *)
(* that has its permit and one that queues behind it.                       *)
EXTENDS SlotQueue

CONSTANTS q1, q2, q3, q4

Four == {q1, q2, q3, q4}
=============================================================================
