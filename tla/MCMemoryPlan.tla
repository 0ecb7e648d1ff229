---------------------------- MODULE MCMemoryPlan ----------------------------
(* Every graph of two sources and three nodes that read at most two values. *)
EXTENDS MemoryPlan, TLC

CONSTANTS a, b, c, d, e, none

MCValues == {a, b, c, d, e}
Symmetric == Permutations(MCValues)
=============================================================================
