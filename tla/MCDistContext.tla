--------------------------- MODULE MCDistContext ---------------------------
(* Small instances of the distributed context for TLC.                     *)
EXTENDS DistContext, TLC

CONSTANTS a, b, t1, t2
=============================================================================
