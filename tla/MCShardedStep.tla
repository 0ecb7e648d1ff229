--------------------------- MODULE MCShardedStep ---------------------------
(* Small instances of the training step for TLC.                           *)
EXTENDS ShardedStep
=============================================================================
