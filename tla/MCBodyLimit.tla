----------------------------- MODULE MCBodyLimit -----------------------------
(* Bodies of up to four messages around a limit of two units.               *)
EXTENDS BodyLimit

MCChunkSizes == 0 .. 3
=============================================================================
