--------------------------- MODULE MCVideoSession ---------------------------
(* An instance of VideoSession for TLC: one video that can be copied.       *)
EXTENDS VideoSession

CONSTANT v
=============================================================================
